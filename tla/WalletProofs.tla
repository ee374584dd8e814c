---------------------------- MODULE WalletProofs ----------------------------
(***************************************************************************)
(* Proofs that the wallets never hold more than was credited to them, and  *)
(* that they are accounts as long as requests do not meet at a wallet.     *)
(***************************************************************************)
EXTENDS Wallet, FiniteSetTheorems, TLAPS

LEMMA FeeType == ASSUME NEW a \in Nat PROVE Fee(a) \in Nat
  BY DEF Fee

\* Every request is of one kind, and its place in the handler depends on it.
LEMMA WithPlaces ==
    ASSUME NEW r \in Requests, NEW b
    PROVE  /\ With(r, b) \in {"done", "save", "payout"}
           /\ With(r, b) = "payout" => r \in Withdrawals
           /\ With(r, b) = "save" => r \notin Visits
           /\ With(r, b) \in {"payout", "save"} /\ r \notin Credits => b >= Amount[r]
  BY RequestsAssumption DEF With, Requests

LEMMA InitHeld == Init => HeldInv
  BY OwnersAssumption DEF Init, HeldInv, TypeOK, Pc, PlacesOK, OpenedFirst, ReadWasCredited, HeldWasCredited

LEMMA NextHeld == HeldInv /\ [Next]_vars => HeldInv'
<1> SUFFICES ASSUME HeldInv, [Next]_vars PROVE HeldInv'
  OBVIOUS
<1> USE OwnersAssumption, RequestsAssumption DEF HeldInv, TypeOK, Goto, Read
<1>1. ASSUME NEW r \in Requests, Request(r) PROVE HeldInv'
  BY <1>1 DEF Request, Pc, PlacesOK, OpenedFirst, ReadWasCredited, HeldWasCredited
<1>2. ASSUME NEW r \in Requests, Find(r) PROVE HeldInv'
  <2>1. CASE Owner[r] \in opened
    <3> DEFINE b == balance[Owner[r]]
    <3>1. b \in Nat /\ b <= credited[Owner[r]]
      BY DEF HeldWasCredited
    <3>2. pc' = [pc EXCEPT ![r] = With(r, b)] /\ seen' = [seen EXCEPT ![r] = b]
      BY <1>2, <2>1 DEF Find
    <3> HIDE DEF b
    <3>3. UNCHANGED <<opened, balance, credited, spent, charged>>
      BY <1>2 DEF Find
    <3> DEFINE p == With(r, b)
    <3>4. /\ p \in {"done", "save", "payout"} /\ (p = "payout" => r \in Withdrawals)
          /\ p = "save" => r \notin Visits
          /\ p \in {"payout", "save"} /\ r \notin Credits => b >= Amount[r]
      BY WithPlaces
    <3>5. pc' = [pc EXCEPT ![r] = p]
      BY <3>2
    <3> HIDE DEF p
    <3>6. TypeOK'
      BY <3>1, <3>2, <3>3, <3>4, <3>5 DEF Pc
    <3>7. PlacesOK' /\ OpenedFirst'
      BY <2>1, <3>1, <3>2, <3>3, <3>4, <3>5 DEF PlacesOK, OpenedFirst
    <3>8. ReadWasCredited' /\ HeldWasCredited'
      BY <3>1, <3>2, <3>3, <3>4, <3>5 DEF ReadWasCredited, HeldWasCredited
    <3> QED BY <3>6, <3>7, <3>8
  <2>2. CASE Owner[r] \notin opened
    BY <1>2, <2>2 DEF Find, Pc, PlacesOK, OpenedFirst, ReadWasCredited, HeldWasCredited
  <2> QED BY <2>1, <2>2
<1>3. ASSUME NEW r \in Requests, Create(r) PROVE HeldInv'
  <2>1. CASE Owner[r] \in opened
    BY <1>3, <2>1 DEF Create, Pc, PlacesOK, OpenedFirst, ReadWasCredited, HeldWasCredited
  <2>2. CASE Owner[r] \notin opened
    <3>1. pc' = [pc EXCEPT ![r] = With(r, 0)] /\ seen' = [seen EXCEPT ![r] = 0]
      BY <1>3, <2>2 DEF Create
    <3>2. UNCHANGED <<balance, credited, spent, charged>> /\ opened' = opened \cup {Owner[r]}
      BY <1>3, <2>2 DEF Create
    <3> QED BY <3>1, <3>2, WithPlaces DEF Pc, PlacesOK, OpenedFirst, ReadWasCredited, HeldWasCredited
  <2> QED BY <2>1, <2>2
<1>4. ASSUME NEW r \in Requests, Payout(r) \/ PayoutLost(r) PROVE HeldInv'
  BY <1>4, FeeType DEF Payout, PayoutLost, Pc, PlacesOK, OpenedFirst, ReadWasCredited, HeldWasCredited
<1>5. ASSUME NEW r \in Requests, SaveCredit(r) PROVE HeldInv'
  BY <1>5 DEF SaveCredit, Pc, PlacesOK, OpenedFirst, ReadWasCredited, HeldWasCredited
<1>6. ASSUME NEW r \in Requests, SaveDebit(r) PROVE HeldInv'
  BY <1>6 DEF SaveDebit, Pc, PlacesOK, OpenedFirst, ReadWasCredited, HeldWasCredited
<1>7. ASSUME NEW r \in Requests, FeeFind(r) PROVE HeldInv'
  BY <1>7 DEF FeeFind, Pc, PlacesOK, OpenedFirst, ReadWasCredited, HeldWasCredited
<1>8. ASSUME NEW r \in Requests, FeeCreate(r) PROVE HeldInv'
  BY <1>8 DEF FeeCreate, Pc, PlacesOK, OpenedFirst, ReadWasCredited, HeldWasCredited
<1>9. ASSUME NEW r \in Requests, FeeSave(r) PROVE HeldInv'
  <2>1. Fee(Amount[r]) \in Nat
    BY FeeType
  <2> QED BY <1>9, <2>1 DEF FeeSave, Pc, PlacesOK, OpenedFirst, ReadWasCredited, HeldWasCredited
<1>10. ASSUME NEW r \in Requests, Row(r) PROVE HeldInv'
  BY <1>10 DEF Row, Pc, PlacesOK, OpenedFirst, ReadWasCredited, HeldWasCredited
<1>11. ASSUME NEW r \in Requests, Throws(r) PROVE HeldInv'
  BY <1>11 DEF Throws, Pc, PlacesOK, OpenedFirst, ReadWasCredited, HeldWasCredited
<1>12. CASE UNCHANGED vars
  BY <1>12 DEF vars, PlacesOK, OpenedFirst, ReadWasCredited, HeldWasCredited
<1> QED BY <1>1, <1>2, <1>3, <1>4, <1>5, <1>6, <1>7, <1>8, <1>9, <1>10, <1>11, <1>12 DEF Next, Step

LEMMA HeldInvariance == Spec => []HeldInv
  BY InitHeld, NextHeld, PTL DEF Spec

\* Balances stay numbers: a debit is always covered by what the handler read,
\* however many handlers overwrite each other.
THEOREM WalletTypeCorrect == Spec => []TypeOK
<1>1. HeldInv => TypeOK
  BY DEF HeldInv
<1> QED BY <1>1, HeldInvariance, PTL

\* However requests interleave or fail, no wallet holds more than was credited.
THEOREM HeldIsCredited == Spec => []HeldWasCredited
<1>1. HeldInv => HeldWasCredited
  BY DEF HeldInv
<1> QED BY <1>1, HeldInvariance, PTL

-----------------------------------------------------------------------------
(* Requests that do not meet at a wallet.                                  *)

\* While r is in progress nobody else uses its owner's wallet, and while it credits
\* the fee nobody else uses the treasury's.
LEMMA OthersRest ==
    ASSUME WalletsApart, NEW r \in Active
    PROVE  \A q \in Requests : q # r =>
             /\ Owner[q] = Owner[r] => pc[q] \in {"new", "done"}
             /\ AtTheFee(r) /\ Owner[q] = Treasury => pc[q] \in {"new", "done"}
             /\ AtTheFee(r) \/ Owner[r] = Treasury => ~ AtTheFee(q)
  BY DEF WalletsApart, Active, AtTheFee

LEMMA InitApart == Init => ApartInv
  BY InitHeld, OwnersAssumption DEF Init, ApartInv, ReadIsStored, BalanceIsThere, DebitedNotInvested

LEMMA NextApart ==
    ASSUME ~ Faults \/ Withdrawals = {}, ApartInv, WalletsApart, [Next]_vars
    PROVE  ApartInv'
<1>1. HeldInv'
  BY NextHeld DEF ApartInv
<1>2. TypeOK /\ PlacesOK /\ OpenedFirst /\ ReadIsStored /\ BalanceIsThere
  BY DEF ApartInv, HeldInv
<1> SUFFICES ReadIsStored' /\ BalanceIsThere'
  BY <1>1 DEF ApartInv
<1> USE <1>2, OwnersAssumption, RequestsAssumption
    DEF TypeOK, Goto, Read, ReadIsStored, BalanceIsThere, PaidNotDebited, DebitedNotInvested
<1>3. ASSUME NEW r \in Requests, Request(r) PROVE ReadIsStored' /\ BalanceIsThere'
  BY <1>3 DEF Request
<1>4. ASSUME NEW r \in Requests, Step(r) \/ PayoutLost(r) \/ Throws(r)
      PROVE  ReadIsStored' /\ BalanceIsThere'
  <2>1. r \in Active
    BY <1>4 DEF Step, Find, Create, Payout, PayoutLost, SaveCredit, SaveDebit, FeeFind, FeeCreate,
       FeeSave, Row, Throws, Active
  <2>2. \A q \in Requests : q # r =>
          /\ Owner[q] = Owner[r] => pc[q] \in {"new", "done"}
          /\ AtTheFee(r) /\ Owner[q] = Treasury => pc[q] \in {"new", "done"}
          /\ AtTheFee(r) \/ Owner[r] = Treasury => ~ AtTheFee(q)
    BY <2>1, OthersRest
  <2> USE <2>2 DEF AtTheFee
  <2>3. CASE Find(r)
    <3>1. balance[Owner[r]] + spent[Owner[r]] <= credited[Owner[r]]
      BY <2>3 DEF Find
    <3>2. pc' = [pc EXCEPT ![r] = pc'[r]]
      BY <2>3 DEF Find
    <3>3. pc'[r] \in {"payout", "save"} => seen'[r] = balance[Owner[r]]
      BY <2>3, WithPlaces DEF Find
    <3>4. pc'[r] \notin {"row", "feeSave"}
      BY <2>3, WithPlaces DEF Find
    <3>5. pc[r] = "find" /\ UNCHANGED <<balance, credited, spent>>
          /\ \A q \in Requests : q # r => pc'[q] = pc[q] /\ seen'[q] = seen[q]
      BY <2>3 DEF Find
    <3> QED BY <3>1, <3>2, <3>3, <3>4, <3>5
  <2>4. CASE Create(r)
    <3>1. balance[Owner[r]] + spent[Owner[r]] <= credited[Owner[r]]
      BY <2>4 DEF Create
    <3>2. pc' = [pc EXCEPT ![r] = pc'[r]]
      BY <2>4 DEF Create
    <3>3. pc'[r] \in {"payout", "save"} => seen'[r] = balance[Owner[r]]
      BY <2>4, WithPlaces DEF Create, OpenedFirst
    <3>4. pc'[r] \notin {"row", "feeSave"}
      BY <2>4, WithPlaces DEF Create
    <3>5. pc[r] = "create" /\ UNCHANGED <<balance, credited, spent>>
          /\ \A q \in Requests : q # r => pc'[q] = pc[q] /\ seen'[q] = seen[q]
      BY <2>4 DEF Create
    <3> QED BY <3>1, <3>2, <3>3, <3>4, <3>5
  <2>5. CASE Payout(r) BY <2>5 DEF Payout, PlacesOK
  <2>6. CASE PayoutLost(r) BY <2>6 DEF PayoutLost, PlacesOK
  <2>7. CASE SaveCredit(r) BY <2>7 DEF SaveCredit
  <2>8. CASE SaveDebit(r) BY <2>8 DEF SaveDebit
  <2>9. CASE FeeFind(r) BY <2>9 DEF FeeFind
  <2>10. CASE FeeCreate(r) BY <2>10 DEF FeeCreate, PlacesOK, OpenedFirst
  <2>11. CASE FeeSave(r) BY <2>11, FeeType DEF FeeSave, PlacesOK
  <2>12. CASE Row(r) BY <2>12 DEF Row, PlacesOK
  <2>13. CASE Throws(r) BY <2>13 DEF Throws, PlacesOK
  <2> QED BY <1>4, <2>3, <2>4, <2>5, <2>6, <2>7, <2>8, <2>9, <2>10, <2>11, <2>12, <2>13 DEF Step
<1>5. CASE UNCHANGED vars BY <1>5 DEF vars
<1> QED BY <1>3, <1>4, <1>5 DEF Next

LEMMA ApartInvariance ==
    ASSUME ~ Faults \/ Withdrawals = {}
    PROVE  Spec /\ []WalletsApart => []ApartInv
<1>1. ApartInv /\ WalletsApart /\ [Next]_vars => ApartInv'
  BY NextApart
<1> QED BY <1>1, InitApart, PTL DEF Spec

\* "Check balance": no owner invests and withdraws more than was credited, as long as
\* no two requests meet at a wallet and no payout fails halfway.
THEOREM ApartNeverOverdrawn ==
    ASSUME ~ Faults \/ Withdrawals = {}
    PROVE  Spec /\ []WalletsApart => []NeverOverdrawn
<1>1. ApartInv => NeverOverdrawn
  <2> SUFFICES ASSUME ApartInv, NEW o \in Owners PROVE spent[o] <= credited[o]
    BY DEF NeverOverdrawn
  <2>1. /\ balance[o] \in Nat /\ spent[o] \in Nat /\ credited[o] \in Nat
        /\ \A r \in Requests : Amount[r] \in Nat
    BY RequestsAssumption DEF ApartInv, HeldInv, TypeOK
  <2>2. ASSUME NEW r \in Requests, PaidNotDebited(r, o), balance[o] + spent[o] <= credited[o] + Amount[r]
        PROVE  spent[o] <= credited[o]
    <3>1. balance[o] >= Amount[r]
      BY <2>2, RequestsAssumption
         DEF ApartInv, HeldInv, PlacesOK, ReadIsStored, PaidNotDebited
    <3> QED BY <2>1, <2>2, <3>1
  <2> QED BY <2>1, <2>2 DEF ApartInv, BalanceIsThere
<1> QED BY <1>1, ApartInvariance, PTL

-----------------------------------------------------------------------------
(* The fees on their way.                                                  *)

LEMMA UnitsOfFee ==
    ASSUME NEW r \in Requests
    PROVE  /\ IsFiniteSet({r} \X (1..Fee(Amount[r])))
           /\ Cardinality({r} \X (1..Fee(Amount[r]))) = Fee(Amount[r])
<1> DEFINE n == Fee(Amount[r])
<1>1. n \in Nat
  BY FeeType, RequestsAssumption
<1> HIDE DEF n
<1>2. IsFiniteSet({r}) /\ Cardinality({r}) = 1
  BY FS_Singleton
<1>0. IsFiniteSet(1..n) /\ Cardinality(1..n) = n
  BY <1>1, FS_Interval
<1>3. /\ IsFiniteSet({r} \X (1..n))
      /\ Cardinality({r} \X (1..n)) = Cardinality({r}) * Cardinality(1..n)
  BY <1>0, <1>2, FS_Product
<1>4. Cardinality({r}) * Cardinality(1..n) = n
  BY <1>0, <1>1, <1>2
<1> QED BY <1>3, <1>4 DEF n

LEMMA FeesOfType ==
    ASSUME NEW R \in SUBSET Requests
    PROVE  /\ IsFiniteSet(UNION {{r} \X (1..Fee(Amount[r])) : r \in R})
           /\ FeesOf(R) \in Nat
<1> DEFINE U == {{r} \X (1..Fee(Amount[r])) : r \in R}
           g == [r \in R |-> {r} \X (1..Fee(Amount[r]))]
<1>1. IsFiniteSet(R)
  BY RequestsAssumption, FS_Subset
<1>2. g \in Surjection(R, U)
  BY DEF Surjection
<1>3. IsFiniteSet(U)
  BY <1>1, <1>2, FS_Surjection
<1>4. IsFiniteSet(UNION U)
  BY <1>3, UnitsOfFee, FS_UNION
<1> QED BY <1>4, FS_CardinalityType DEF FeesOf

LEMMA NoFees == FeesOf({}) = 0
<1>1. UNION {{r} \X (1..Fee(Amount[r])) : r \in {}} = {}
  OBVIOUS
<1> QED BY <1>1, FS_EmptySet DEF FeesOf

LEMMA OneMoreFee ==
    ASSUME NEW R \in SUBSET Requests, NEW r \in Requests \ R
    PROVE  FeesOf(R \cup {r}) = FeesOf(R) + Fee(Amount[r])
<1> DEFINE U == UNION {{q} \X (1..Fee(Amount[q])) : q \in R}
           V == {r} \X (1..Fee(Amount[r]))
<1>1. UNION {{q} \X (1..Fee(Amount[q])) : q \in R \cup {r}} = U \cup V
  OBVIOUS
<1>2. U \cap V = {}
  OBVIOUS
<1>3. IsFiniteSet(U) /\ IsFiniteSet(V) /\ Cardinality(V) = Fee(Amount[r])
  BY FeesOfType, UnitsOfFee
<1>4. Cardinality(U) \in Nat /\ Cardinality(V) \in Nat
  BY <1>3, FS_CardinalityType
<1> HIDE DEF U, V
<1>5. Cardinality(U \cup V) = Cardinality(U) + Cardinality(V) - Cardinality({})
  BY <1>2, <1>3, FS_Union
<1>6. Cardinality({}) = 0
  BY FS_EmptySet
<1>7. Cardinality(U \cup V) = Cardinality(U) + Cardinality(V)
  BY <1>4, <1>5, <1>6
<1> QED BY <1>1, <1>3, <1>7 DEF FeesOf, U

-----------------------------------------------------------------------------
(* Requests that do not meet at a wallet, and nothing failing.             *)

\* A withdrawal is paid out before it is saved.
LEMMA SavedAtOnce ==
    ASSUME NEW r \in Requests, NEW b, With(r, b) = "save"
    PROVE  r \notin Withdrawals
  BY RequestsAssumption DEF With, Requests

LEMMA InitExact == Init => ExactInv
<1> SUFFICES ASSUME Init PROVE ExactInv
  OBVIOUS
<1>1. \A r \in Requests : pc[r] = "new"
  BY DEF Init
<1>2. Exact
  BY <1>1 DEF Init, Exact, PaidNotDebited, DebitedNotInvested
<1>3. Owing = {}
  BY <1>1, RequestsAssumption DEF Owing, AtTheFee, Requests
<1>4. FeesOK
  BY <1>1, <1>3, NoFees, OwnersAssumption DEF Init, FeesOK
<1> QED BY <1>2, <1>4, InitApart DEF ExactInv

\* What r has still to settle with its owner, by the place p it is at.
Unpaid(r, p) == r \in Withdrawals /\ p = "save"
Uninvested(r, p) == r \in Investments /\ p = "row"

\* How a step of r changes the owners' sums: those of its own wallet by b, s and c.
LEMMA ExactStep ==
    ASSUME TypeOK, Exact, WalletsApart, NEW r \in Active,
           TypeOK', \A q \in Requests : q # r => pc'[q] = pc[q],
           LET o == Owner[r] IN
             /\ ~ Unpaid(r, pc'[r]) /\ ~ Uninvested(r, pc'[r]) =>
                  balance'[o] + spent'[o] = credited'[o]
             /\ Unpaid(r, pc'[r]) => balance'[o] + spent'[o] = credited'[o] + Amount[r]
             /\ Uninvested(r, pc'[r]) => balance'[o] + Amount[r] + spent'[o] = credited'[o],
           \A x \in Owners : x # Owner[r] =>
             /\ spent'[x] = spent[x]
             /\ \/ balance'[x] = balance[x] /\ credited'[x] = credited[x]
                \/ /\ x = Treasury /\ AtTheFee(r)
                   /\ balance[x] + spent[x] = credited[x] => balance'[x] + spent'[x] = credited'[x]
    PROVE  Exact'
<1>1. \A q \in Requests : q # r =>
        /\ Owner[q] = Owner[r] => pc[q] \in {"new", "done"}
        /\ AtTheFee(r) /\ Owner[q] = Treasury => pc[q] \in {"new", "done"}
  BY OthersRest
<1> SUFFICES ASSUME NEW x \in Owners
             PROVE  /\ (\A q \in Requests : ~PaidNotDebited(q, x)' /\ ~DebitedNotInvested(q, x)') =>
                         balance'[x] + spent'[x] = credited'[x]
                    /\ \A q \in Requests : PaidNotDebited(q, x)' =>
                         balance'[x] + spent'[x] = credited'[x] + Amount[q]
                    /\ \A q \in Requests : DebitedNotInvested(q, x)' =>
                         balance'[x] + Amount[q] + spent'[x] = credited'[x]
  BY DEF Exact
<1>2. r \in Requests /\ Owner[r] \in Owners
  BY RequestsAssumption DEF Active
<1>3. CASE x = Owner[r]
  <2>1. \A q \in Requests : q # r => ~PaidNotDebited(q, x)' /\ ~DebitedNotInvested(q, x)'
    BY <1>1, <1>3 DEF PaidNotDebited, DebitedNotInvested
  <2>2. /\ PaidNotDebited(r, x)' <=> Unpaid(r, pc'[r])
        /\ DebitedNotInvested(r, x)' <=> Uninvested(r, pc'[r])
    BY <1>3 DEF PaidNotDebited, DebitedNotInvested, Unpaid, Uninvested
  <2> QED BY <1>2, <1>3, <2>1, <2>2
<1>4. CASE x # Owner[r]
  <2>1. \A q \in Requests : /\ PaidNotDebited(q, x)' <=> PaidNotDebited(q, x)
                            /\ DebitedNotInvested(q, x)' <=> DebitedNotInvested(q, x)
    BY <1>4 DEF PaidNotDebited, DebitedNotInvested
  <2>2. CASE balance'[x] = balance[x] /\ credited'[x] = credited[x]
    BY <1>4, <2>1, <2>2 DEF Exact
  <2>3. CASE x = Treasury /\ AtTheFee(r)
    <3>1. \A q \in Requests : ~PaidNotDebited(q, x) /\ ~DebitedNotInvested(q, x)
      BY <1>1, <1>4, <2>3 DEF PaidNotDebited, DebitedNotInvested
    <3>2. balance[x] + spent[x] = credited[x]
      BY <3>1 DEF Exact
    <3> QED BY <1>4, <2>1, <3>1, <3>2
  <2> QED BY <1>4, <2>2, <2>3
<1> QED BY <1>3, <1>4

\* How a step of r changes what the treasury is owed.
LEMMA FeesStep ==
    ASSUME TypeOK, TypeOK', FeesOK, WalletsApart, NEW r \in Active,
           \A q \in Requests : q # r => pc'[q] = pc[q],
           pc'[r] = "feeCreate" => Treasury \notin opened',
           opened' \subseteq opened \cup {Owner[r]} \/ AtTheFee(r),
           \/ /\ r \in Owing <=> r \in Owing'
              /\ charged' = charged /\ credited'[Treasury] >= credited[Treasury]
           \/ /\ r \notin Owing /\ r \in Owing'
              /\ charged' = charged + Fee(Amount[r]) /\ credited'[Treasury] = credited[Treasury]
           \/ /\ r \in Owing /\ r \notin Owing'
              /\ charged' = charged /\ credited'[Treasury] = credited[Treasury] + Fee(Amount[r])
    PROVE  FeesOK'
<1>1. AtTheFee(r) \/ Owner[r] = Treasury => \A q \in Requests : q # r => ~ AtTheFee(q)
  BY OthersRest
<1>2. ASSUME NEW q \in Requests, pc'[q] = "feeCreate" PROVE Treasury \notin opened'
  BY <1>1, <1>2 DEF AtTheFee, FeesOK
<1>3. /\ Owing \in SUBSET Requests /\ Owing' \in SUBSET Requests
      /\ r \in Requests /\ Fee(Amount[r]) \in Nat
  BY FeeType, RequestsAssumption DEF Owing, Requests, Active
<1>4. \A q \in Withdrawals : q # r => (q \in Owing <=> q \in Owing')
  BY DEF Owing, AtTheFee, Requests
<1>5. /\ FeesOf(Owing) \in Nat /\ FeesOf(Owing') \in Nat
      /\ charged \in Nat /\ charged' \in Nat
      /\ credited[Treasury] \in Nat /\ credited'[Treasury] \in Nat
      /\ charged <= credited[Treasury] + FeesOf(Owing)
  BY <1>3, FeesOfType, OwnersAssumption DEF TypeOK, FeesOK
<1>6. charged' <= credited'[Treasury] + FeesOf(Owing')
  <2>1. CASE r \in Owing <=> r \in Owing'
    <3>1. Owing' = Owing
      BY <1>4, <2>1 DEF Owing
    <3>2. charged' = charged /\ credited'[Treasury] >= credited[Treasury]
      BY <2>1
    <3> QED BY <1>5, <3>1, <3>2
  <2>2. CASE r \notin Owing /\ r \in Owing'
    <3>1. Owing' = Owing \cup {r}
      BY <1>4, <2>2 DEF Owing
    <3>2. FeesOf(Owing') = FeesOf(Owing) + Fee(Amount[r])
      BY <1>3, <2>2, <3>1, OneMoreFee
    <3>3. charged' = charged + Fee(Amount[r]) /\ credited'[Treasury] = credited[Treasury]
      BY <2>2
    <3> QED BY <1>3, <1>5, <3>2, <3>3
  <2>3. CASE r \in Owing /\ r \notin Owing'
    <3>1. Owing = Owing' \cup {r}
      BY <1>4, <2>3 DEF Owing
    <3>2. FeesOf(Owing) = FeesOf(Owing') + Fee(Amount[r])
      BY <1>3, <2>3, <3>1, OneMoreFee
    <3>3. charged' = charged /\ credited'[Treasury] = credited[Treasury] + Fee(Amount[r])
      BY <2>3
    <3> QED BY <1>3, <1>5, <3>2, <3>3
  <2> QED BY <2>1, <2>2, <2>3
<1> QED BY <1>2, <1>6 DEF FeesOK

LEMMA NextExact ==
    ASSUME ~ Faults, ExactInv, WalletsApart, [Next]_vars
    PROVE  ExactInv'
<1>1. ApartInv' /\ TypeOK'
  BY NextApart DEF ExactInv, ApartInv, HeldInv
<1>2. TypeOK /\ PlacesOK /\ OpenedFirst /\ ReadIsStored /\ Exact /\ FeesOK
  BY DEF ExactInv, ApartInv, HeldInv
<1> SUFFICES Exact' /\ FeesOK'
  BY <1>1 DEF ExactInv
<1>3. ASSUME UNCHANGED <<opened, balance, credited, spent, charged>>,
             \A r \in Requests : pc'[r] = pc[r] \/ (pc[r] = "new" /\ pc'[r] = "find")
      PROVE  Exact' /\ FeesOK'
  <2>1. \A r \in Requests, o \in Owners :
          /\ PaidNotDebited(r, o)' <=> PaidNotDebited(r, o)
          /\ DebitedNotInvested(r, o)' <=> DebitedNotInvested(r, o)
    BY <1>3 DEF PaidNotDebited, DebitedNotInvested
  <2>2. Owing' = Owing
    BY <1>3 DEF Owing, AtTheFee, Requests
  <2>3. Exact'
    <3> SUFFICES ASSUME NEW o \in Owners
                 PROVE  /\ (\A q \in Requests : ~PaidNotDebited(q, o)' /\ ~DebitedNotInvested(q, o)') =>
                             balance'[o] + spent'[o] = credited'[o]
                        /\ \A q \in Requests : PaidNotDebited(q, o)' =>
                             balance'[o] + spent'[o] = credited'[o] + Amount[q]
                        /\ \A q \in Requests : DebitedNotInvested(q, o)' =>
                             balance'[o] + Amount[q] + spent'[o] = credited'[o]
      BY DEF Exact
    <3>1. /\ (\A q \in Requests : ~PaidNotDebited(q, o) /\ ~DebitedNotInvested(q, o)) =>
               balance[o] + spent[o] = credited[o]
          /\ \A q \in Requests : PaidNotDebited(q, o) =>
               balance[o] + spent[o] = credited[o] + Amount[q]
          /\ \A q \in Requests : DebitedNotInvested(q, o) =>
               balance[o] + Amount[q] + spent[o] = credited[o]
      BY <1>2 DEF Exact
    <3>2. balance'[o] = balance[o] /\ spent'[o] = spent[o] /\ credited'[o] = credited[o]
      BY <1>3
    <3> QED BY <2>1, <3>1, <3>2
  <2>4. FeesOf(Owing)' = FeesOf(Owing)
    BY <2>2
  <2>5. FeesOK'
    BY <1>2, <1>3, <2>4 DEF FeesOK
  <2> QED BY <2>3, <2>5
<1>4. ASSUME NEW r \in Requests, Request(r) PROVE Exact' /\ FeesOK'
  BY <1>2, <1>3, <1>4 DEF Request, Goto, TypeOK
<1>5. ASSUME NEW r \in Requests, Step(r) PROVE Exact' /\ FeesOK'
  <2>1. r \in Active
    BY <1>5 DEF Step, Find, Create, Payout, SaveCredit, SaveDebit, FeeFind, FeeCreate,
       FeeSave, Row, Active
  <2>2. /\ Owner[r] \in Owners /\ Amount[r] \in Nat /\ Fee(Amount[r]) \in Nat
        /\ Treasury \in Owners
        /\ r \in Withdrawals => r \notin Investments /\ r \notin Visits /\ r \notin Credits
        /\ r \in Credits => r \notin Investments
    BY RequestsAssumption, OwnersAssumption, FeeType
  <2> DEFINE o == Owner[r]
  <2>3. /\ balance \in [Owners -> Nat] /\ credited \in [Owners -> Nat] /\ spent \in [Owners -> Nat]
        /\ charged \in Nat /\ pc \in [Requests -> Pc]
    BY <1>2 DEF TypeOK
  <2>4. \A q \in Requests : q # r => pc'[q] = pc[q]
    BY <1>5, <2>3 DEF Step, Find, Create, Payout, SaveCredit, SaveDebit, FeeFind, FeeCreate,
       FeeSave, Row, Goto
  <2>5. \A q \in Requests : q # r /\ Owner[q] = o => pc[q] \in {"new", "done"}
    BY <1>2, <2>1, OthersRest DEF ExactInv
  \* What is left to show is about r alone.
  <2>6. /\ ~ Unpaid(r, pc[r]) /\ ~ Uninvested(r, pc[r]) => balance[o] + spent[o] = credited[o]
        /\ Unpaid(r, pc[r]) => balance[o] + spent[o] = credited[o] + Amount[r]
        /\ Uninvested(r, pc[r]) => balance[o] + Amount[r] + spent[o] = credited[o]
    <3>1. \A q \in Requests : q # r => ~PaidNotDebited(q, o) /\ ~DebitedNotInvested(q, o)
      BY <2>5 DEF PaidNotDebited, DebitedNotInvested
    <3>2. /\ PaidNotDebited(r, o) <=> Unpaid(r, pc[r])
          /\ DebitedNotInvested(r, o) <=> Uninvested(r, pc[r])
      BY DEF PaidNotDebited, DebitedNotInvested, Unpaid, Uninvested
    <3> QED BY <1>2, <2>2, <3>1, <3>2 DEF Exact
  <2>7. ASSUME /\ ~ Unpaid(r, pc'[r]) /\ ~ Uninvested(r, pc'[r]) =>
                    balance'[o] + spent'[o] = credited'[o]
               /\ Unpaid(r, pc'[r]) => balance'[o] + spent'[o] = credited'[o] + Amount[r]
               /\ Uninvested(r, pc'[r]) => balance'[o] + Amount[r] + spent'[o] = credited'[o],
               \A x \in Owners : x # o =>
                 balance'[x] = balance[x] /\ credited'[x] = credited[x] /\ spent'[x] = spent[x]
        PROVE  Exact'
    BY <1>1, <1>2, <2>1, <2>4, <2>7, ExactStep
  <2>8. ASSUME pc'[r] = "feeCreate" => Treasury \notin opened',
               opened' \subseteq opened \cup {o} \/ AtTheFee(r),
               /\ r \in Owing <=> r \in Owing'
               /\ charged' = charged /\ credited'[Treasury] >= credited[Treasury]
        PROVE  FeesOK'
    BY <1>1, <1>2, <2>1, <2>4, <2>8, FeesStep
  <2>9. /\ r \in Owing <=> (r \in Withdrawals /\ (pc[r] = "save" \/ AtTheFee(r)))
        /\ r \in Owing' <=> (r \in Withdrawals /\ (pc'[r] = "save" \/ AtTheFee(r)'))
    BY DEF Owing
  <2> USE <2>2, <2>3 DEF Goto, Read
  <2>10. CASE Find(r)
    <3>1. pc[r] = "find" /\ UNCHANGED <<opened, balance, credited, spent, charged>>
          /\ pc'[r] \in {"create", With(r, balance[o])}
      BY <2>10 DEF Find
    <3>2. pc'[r] \in {"create", "done", "save", "payout"} /\ (pc'[r] = "save" => r \notin Withdrawals)
      BY <3>1, WithPlaces, SavedAtOnce
    <3>3. Exact'
      BY <2>6, <2>7, <3>1, <3>2 DEF Unpaid, Uninvested
    <3>4. FeesOK'
      BY <2>8, <2>9, <3>1, <3>2 DEF AtTheFee
    <3> QED BY <3>3, <3>4
  <2>11. CASE Create(r)
    <3>1. pc[r] = "create" /\ UNCHANGED <<balance, credited, spent, charged>>
          /\ pc'[r] \in {"done", With(r, 0)} /\ opened' \subseteq opened \cup {o}
      BY <2>11 DEF Create
    <3>2. pc'[r] \in {"create", "done", "save", "payout"} /\ (pc'[r] = "save" => r \notin Withdrawals)
      BY <3>1, WithPlaces, SavedAtOnce
    <3>3. Exact'
      BY <2>6, <2>7, <3>1, <3>2 DEF Unpaid, Uninvested
    <3>4. FeesOK'
      BY <2>8, <2>9, <3>1, <3>2 DEF AtTheFee
    <3> QED BY <3>3, <3>4
  <2>12. CASE Payout(r)
    <3>1. /\ pc[r] = "payout" /\ r \in Withdrawals /\ pc'[r] = "save"
          /\ UNCHANGED <<opened, balance, credited>> /\ charged' = charged + Fee(Amount[r])
          /\ spent'[o] = spent[o] + Amount[r] /\ \A x \in Owners : x # o => spent'[x] = spent[x]
      BY <1>2, <2>12 DEF Payout, PlacesOK
    <3>2. Exact'
      BY <2>6, <2>7, <3>1 DEF Unpaid, Uninvested
    <3>3. r \notin Owing /\ r \in Owing' /\ ~ AtTheFee(r)
      BY <2>9, <3>1 DEF AtTheFee
    <3>4. FeesOK'
      BY <1>1, <1>2, <2>1, <2>4, <3>1, <3>3, FeesStep
    <3> QED BY <3>2, <3>4
  <2>13. CASE SaveCredit(r)
    <3>1. /\ pc[r] = "save" /\ r \in Credits /\ pc'[r] = "done" /\ UNCHANGED <<opened, charged, spent>>
          /\ seen[r] = balance[o]
          /\ balance' = [balance EXCEPT ![o] = seen[r] + Amount[r]]
          /\ credited' = [credited EXCEPT ![o] = credited[o] + Amount[r]]
      BY <1>2, <2>13 DEF SaveCredit, ReadIsStored
    <3>2. /\ balance'[o] = balance[o] + Amount[r] /\ credited'[o] = credited[o] + Amount[r]
          /\ \A x \in Owners : x # o => balance'[x] = balance[x] /\ credited'[x] = credited[x]
      BY <3>1
    <3>3. Exact'
      BY <2>6, <2>7, <3>1, <3>2 DEF Unpaid, Uninvested
    <3>4. credited'[Treasury] >= credited[Treasury]
      BY <3>2
    <3>5. FeesOK'
      BY <2>8, <2>9, <3>1, <3>4 DEF AtTheFee
    <3> QED BY <3>3, <3>5
  <2>14. CASE SaveDebit(r)
    <3>1. /\ pc[r] = "save" /\ r \in Investments \cup Withdrawals
          /\ pc'[r] = IF r \in Withdrawals THEN "feeFind" ELSE "row"
          /\ UNCHANGED <<opened, credited, spent, charged>>
          /\ seen[r] = balance[o] /\ seen[r] >= Amount[r]
          /\ balance' = [balance EXCEPT ![o] = seen[r] - Amount[r]]
      BY <1>2, <2>14 DEF SaveDebit, ReadIsStored, PlacesOK
    <3>2. /\ balance'[o] = balance[o] - Amount[r]
          /\ \A x \in Owners : x # o => balance'[x] = balance[x]
      BY <3>1
    <3>3. Exact'
      BY <2>6, <2>7, <3>1, <3>2 DEF Unpaid, Uninvested
    <3>4. FeesOK'
      BY <2>8, <2>9, <3>1 DEF AtTheFee
    <3> QED BY <3>3, <3>4
  <2>15. CASE FeeFind(r)
    <3>1. /\ pc[r] = "feeFind" /\ r \in Withdrawals /\ pc'[r] \in {"feeSave", "feeCreate"}
          /\ pc'[r] = "feeCreate" => Treasury \notin opened
          /\ UNCHANGED <<opened, balance, credited, spent, charged>>
      BY <1>2, <2>15 DEF FeeFind, PlacesOK
    <3>2. Exact'
      BY <2>6, <2>7, <3>1 DEF Unpaid, Uninvested
    <3>3. FeesOK'
      BY <2>8, <2>9, <3>1 DEF AtTheFee
    <3> QED BY <3>2, <3>3
  <2>16. CASE FeeCreate(r)
    <3>1. pc[r] = "feeCreate" /\ r \in Withdrawals /\ Treasury \notin opened
      BY <1>2, <2>16 DEF FeeCreate, FeesOK, PlacesOK
    <3>2. pc'[r] = "feeSave" /\ UNCHANGED <<balance, credited, spent, charged>>
      BY <2>16, <3>1 DEF FeeCreate
    <3>3. Exact'
      BY <2>6, <2>7, <3>1, <3>2 DEF Unpaid, Uninvested
    <3>4. FeesOK'
      BY <2>8, <2>9, <3>1, <3>2 DEF AtTheFee
    <3> QED BY <3>3, <3>4
  <2>17. CASE FeeSave(r)
    <3>1. /\ pc[r] = "feeSave" /\ r \in Withdrawals /\ pc'[r] = "row" /\ charged' = charged
          /\ seen[r] = balance[Treasury] /\ spent' = spent /\ opened' = opened
          /\ balance' = [balance EXCEPT ![Treasury] = seen[r] + Fee(Amount[r])]
          /\ credited' = [credited EXCEPT ![Treasury] = credited[Treasury] + Fee(Amount[r])]
      BY <1>2, <2>17 DEF FeeSave, ReadIsStored, PlacesOK
    <3>2. /\ balance'[Treasury] = balance[Treasury] + Fee(Amount[r])
          /\ credited'[Treasury] = credited[Treasury] + Fee(Amount[r])
          /\ \A x \in Owners : x # Treasury => balance'[x] = balance[x] /\ credited'[x] = credited[x]
      BY <3>1
    <3>3. balance'[o] + spent'[o] = credited'[o]
      <4>1. balance[o] + spent[o] = credited[o]
        BY <2>6, <3>1 DEF Unpaid, Uninvested
      <4> QED BY <3>1, <3>2, <4>1
    <3>4. ~ Unpaid(r, pc'[r]) /\ ~ Uninvested(r, pc'[r]) /\ AtTheFee(r)
      BY <3>1 DEF Unpaid, Uninvested, AtTheFee
    <3>5. \A x \in Owners : x # o =>
             /\ spent'[x] = spent[x]
             /\ \/ balance'[x] = balance[x] /\ credited'[x] = credited[x]
                \/ /\ x = Treasury /\ AtTheFee(r)
                   /\ balance[x] + spent[x] = credited[x] => balance'[x] + spent'[x] = credited'[x]
      BY <3>1, <3>2, <3>4
    <3>6. Exact'
      BY <1>1, <1>2, <2>1, <2>4, <3>3, <3>4, <3>5, ExactStep
    <3>7. r \in Owing /\ r \notin Owing'
      BY <2>9, <3>1 DEF AtTheFee
    <3>8. FeesOK'
      BY <1>1, <1>2, <2>1, <2>4, <3>1, <3>2, <3>7, FeesStep
    <3> QED BY <3>6, <3>8
  <2>18. CASE Row(r)
    <3>1. /\ pc[r] = "row" /\ pc'[r] = "done" /\ UNCHANGED <<opened, balance, credited, charged>>
          /\ spent' = IF r \in Investments THEN [spent EXCEPT ![o] = spent[o] + Amount[r]] ELSE spent
      BY <2>18 DEF Row
    <3>2. /\ \A x \in Owners : x # o => spent'[x] = spent[x]
          /\ spent'[o] = IF r \in Investments THEN spent[o] + Amount[r] ELSE spent[o]
      BY <3>1
    <3>3. Exact'
      BY <2>6, <2>7, <3>1, <3>2 DEF Unpaid, Uninvested
    <3>4. FeesOK'
      BY <2>8, <2>9, <3>1 DEF AtTheFee
    <3> QED BY <3>3, <3>4
  <2> QED BY <1>5, <2>10, <2>11, <2>12, <2>13, <2>14, <2>15, <2>16, <2>17, <2>18 DEF Step
<1>6. \A r \in Requests : ~PayoutLost(r) /\ ~Throws(r)
  BY DEF PayoutLost, Throws
<1>7. CASE UNCHANGED vars
  BY <1>3, <1>7 DEF vars
<1> QED BY <1>4, <1>5, <1>6, <1>7 DEF Next

LEMMA ExactInvariance ==
    ASSUME ~ Faults
    PROVE  Spec /\ []WalletsApart => []ExactInv
<1>1. ExactInv /\ WalletsApart /\ [Next]_vars => ExactInv'
  BY NextExact
<1> QED BY <1>1, InitExact, PTL DEF Spec

\* Between requests, every balance is what came in less what went out, as long as no
\* two requests meet at a wallet and nothing throws.
THEOREM ApartBalancesExact ==
    ASSUME ~ Faults
    PROVE  Spec /\ []WalletsApart => []BalancesExact
<1>1. ExactInv => BalancesExact
  BY DEF ExactInv, Exact, BalancesExact, Active, PaidNotDebited, DebitedNotInvested
<1> QED BY <1>1, ExactInvariance, PTL

\* "The fee goes to the Keibo Treasury wallet": all of it, under the same conditions.
THEOREM ApartFeesArrive ==
    ASSUME ~ Faults
    PROVE  Spec /\ []WalletsApart => []FeesArrive
<1>1. ExactInv => FeesArrive
  <2> SUFFICES ASSUME ExactInv, Active = {}
               PROVE  balance[Treasury] + spent[Treasury] >= charged
    BY DEF FeesArrive
  <2>1. \A r \in Requests : pc[r] \in {"new", "done"}
    BY DEF Active
  <2>2. balance[Treasury] + spent[Treasury] = credited[Treasury]
    BY <2>1, OwnersAssumption DEF ExactInv, Exact, PaidNotDebited, DebitedNotInvested
  <2>3. Owing = {}
    BY <2>1 DEF Owing, AtTheFee, Requests
  <2>4. FeesOf(Owing) = 0
    BY <2>3, NoFees
  <2>5. charged <= credited[Treasury] + FeesOf(Owing)
    BY DEF ExactInv, FeesOK
  <2>6. charged \in Nat /\ credited[Treasury] \in Nat
    BY OwnersAssumption DEF ExactInv, ApartInv, HeldInv, TypeOK
  <2> QED BY <2>2, <2>4, <2>5, <2>6
<1> QED BY <1>1, ExactInvariance, PTL

-----------------------------------------------------------------------------
(* The wallets implement the accounts.                                     *)

LEMMA AccountInit == Init => Acc!Init
  BY DEF Init, Acc!Init

\* What a step does to what came in and what went out.
LEMMA FlowStep ==
    ASSUME [Next]_vars
    PROVE  \/ UNCHANGED <<credited, spent>>
           \/ \E r \in Requests :
                /\ spent' = spent
                /\ \/ credited' = [credited EXCEPT ![Owner[r]] = @ + Amount[r]]
                   \/ credited' = [credited EXCEPT ![Treasury] = @ + Fee(Amount[r])]
           \/ \E r \in Requests :
                /\ credited' = credited
                /\ spent' = [spent EXCEPT ![Owner[r]] = @ + Amount[r]]
                /\ r \in Active
                /\ pc[r] = "payout" \/ (pc[r] = "row" /\ r \in Investments)
<1>1. ASSUME NEW r \in Requests, Request(r) \/ Find(r) \/ Create(r) \/ SaveDebit(r) \/ FeeFind(r)
                                 \/ FeeCreate(r) \/ Throws(r)
      PROVE  UNCHANGED <<credited, spent>>
  BY <1>1 DEF Request, Find, Create, SaveDebit, FeeFind, FeeCreate, Throws
<1>2. ASSUME NEW r \in Requests, SaveCredit(r) \/ FeeSave(r)
      PROVE  /\ spent' = spent
             /\ \/ credited' = [credited EXCEPT ![Owner[r]] = @ + Amount[r]]
                \/ credited' = [credited EXCEPT ![Treasury] = @ + Fee(Amount[r])]
  BY <1>2 DEF SaveCredit, FeeSave
<1>3. ASSUME NEW r \in Requests, Payout(r) \/ PayoutLost(r) \/ Row(r)
      PROVE  \/ UNCHANGED <<credited, spent>>
             \/ /\ credited' = credited
                /\ spent' = [spent EXCEPT ![Owner[r]] = @ + Amount[r]]
                /\ r \in Active
                /\ pc[r] = "payout" \/ (pc[r] = "row" /\ r \in Investments)
  BY <1>3 DEF Payout, PayoutLost, Row, Active
<1>4. CASE UNCHANGED vars BY <1>4 DEF vars
<1> QED BY <1>1, <1>2, <1>3, <1>4 DEF Next, Step

LEMMA AccountStep ==
    ASSUME ApartInv, WalletsApart, [Next]_vars
    PROVE  [Acc!Next]_([o \in Owners |-> credited[o] - spent[o]])
<1> DEFINE funds == [o \in Owners |-> credited[o] - spent[o]]
           sums == {Amount[q] : q \in Requests} \cup {Fee(Amount[q]) : q \in Requests}
<1>1. /\ credited \in [Owners -> Nat] /\ spent \in [Owners -> Nat] /\ balance \in [Owners -> Nat]
      /\ \A r \in Requests : Owner[r] \in Owners /\ Amount[r] \in Nat /\ Fee(Amount[r]) \in Nat
      /\ Treasury \in Owners
  BY RequestsAssumption, OwnersAssumption, FeeType DEF ApartInv, HeldInv, TypeOK
<1>2. CASE UNCHANGED <<credited, spent>>
  BY <1>2
<1>3. ASSUME NEW x \in Owners, NEW a \in sums, a \in Nat, spent' = spent,
             credited' = [credited EXCEPT ![x] = @ + a]
      PROVE  Acc!Deposit(x, a)
  <2>1. \A o \in Owners : credited'[o] - spent'[o] = IF o = x THEN funds[x] + a ELSE funds[o]
    BY <1>1, <1>3
  <2>2. [o \in Owners |-> credited'[o] - spent'[o]] = [funds EXCEPT ![x] = funds[x] + a]
    BY <2>1
  <2> QED BY <2>2 DEF Acc!Deposit
<1>4. ASSUME NEW r \in Requests, credited' = credited, r \in Active,
             spent' = [spent EXCEPT ![Owner[r]] = @ + Amount[r]],
             pc[r] = "payout" \/ (pc[r] = "row" /\ r \in Investments)
      PROVE  Acc!Spend(Owner[r], Amount[r])
  <2> DEFINE x == Owner[r]
             a == Amount[r]
  <2>1. \A o \in Owners : credited'[o] - spent'[o] = IF o = x THEN funds[x] - a ELSE funds[o]
    BY <1>1, <1>4
  <2>2. [o \in Owners |-> credited'[o] - spent'[o]] = [funds EXCEPT ![x] = funds[x] - a]
    BY <2>1
  <2>3. balance[x] + spent[x] <= credited[x] \/ pc[r] = "row"
    <3>1. \A q \in Requests : q # r /\ Owner[q] = x => pc[q] \in {"new", "done"}
      BY <1>4, OthersRest
    <3> QED BY <1>1, <1>4, <3>1 DEF ApartInv, BalanceIsThere, PaidNotDebited
  <2>4. pc[r] = "payout" => balance[x] >= a
    BY <1>1, RequestsAssumption DEF ApartInv, HeldInv, PlacesOK, ReadIsStored
  <2>5. pc[r] = "row" /\ r \in Investments => balance[x] + a + spent[x] <= credited[x]
    BY <1>1 DEF ApartInv, BalanceIsThere, DebitedNotInvested
  <2>6. funds[x] = credited[x] - spent[x] /\ credited[x] - spent[x] >= a
    BY <1>1, <1>4, <2>3, <2>4, <2>5
  <2> QED BY <2>2, <2>6 DEF Acc!Spend
<1>5. \A r \in Requests : Amount[r] \in sums /\ Fee(Amount[r]) \in sums
  OBVIOUS
<1> QED BY <1>1, <1>2, <1>3, <1>4, <1>5, FlowStep DEF Acc!Next

\* The wallets are accounts, as long as no two requests meet at a wallet and no payout
\* fails halfway: every save of a credit is a deposit, every payout and every investment
\* spends money that is there.
THEOREM ApartMeetsAccount ==
    ASSUME ~ Faults \/ Withdrawals = {}
    PROVE  Spec /\ []WalletsApart => MeetsAccount
<1>1. ApartInv /\ WalletsApart /\ [Next]_vars => [Acc!Next]_([o \in Owners |-> credited[o] - spent[o]])
  BY AccountStep
<1> QED BY <1>1, AccountInit, ApartInvariance, PTL DEF Spec, MeetsAccount, Acc!Spec

-----------------------------------------------------------------------------
(* One request at a time.                                                  *)

\* A request starts only when no other is in progress.
LEMMA StartsAlone ==
    ASSUME Parallel = 1, NEW r \in Requests, Request(r)
    PROVE  Active = {}
<1>1. Active \in SUBSET Requests
  BY DEF Active
<1>2. IsFiniteSet(Active)
  BY <1>1, RequestsAssumption, FS_Subset
<1>3. Cardinality(Active) \in Nat /\ Cardinality(Active) < 1
  BY <1>2, FS_CardinalityType DEF Request
<1> QED BY <1>2, <1>3, FS_EmptySet

LEMMA OneActiveStep ==
    ASSUME Parallel = 1, TypeOK, OneActive, [Next]_vars
    PROVE  OneActive'
<1> USE DEF TypeOK, OneActive, Active, Goto
<1>1. ASSUME NEW r \in Requests, Request(r) PROVE OneActive'
  <2>1. \A q \in Requests : pc[q] \in {"new", "done"}
    BY <1>1, StartsAlone
  <2> QED BY <1>1, <2>1 DEF Request
<1>2. ASSUME NEW r \in Requests, r \in Active, \A q \in Requests : q # r => pc'[q] = pc[q]
      PROVE  OneActive'
  BY <1>2
<1>3. ASSUME NEW r \in Requests, Step(r) \/ PayoutLost(r) \/ Throws(r) PROVE OneActive'
  <2>1. r \in Active /\ \A q \in Requests : q # r => pc'[q] = pc[q]
    BY <1>3 DEF Step, Find, Create, Payout, PayoutLost, SaveCredit, SaveDebit, FeeFind, FeeCreate,
       FeeSave, Row, Throws
  <2> QED BY <1>2, <2>1
<1>4. CASE UNCHANGED vars BY <1>4 DEF vars
<1> QED BY <1>1, <1>3, <1>4 DEF Next

LEMMA SerialIsApart ==
    ASSUME Parallel = 1
    PROVE  Spec => []WalletsApart
<1>1. Init => OneActive
  BY DEF Init, OneActive, Active
<1>2. HeldInv /\ OneActive /\ [Next]_vars => OneActive'
  BY OneActiveStep DEF HeldInv
<1>3. OneActive => WalletsApart
  BY DEF OneActive, WalletsApart
<1> QED BY <1>1, <1>2, <1>3, HeldInvariance, PTL DEF Spec

\* One request at a time, with nothing failing, the wallets keep all they promise.
COROLLARY SerialIsSafe ==
    ASSUME Parallel = 1, ~ Faults
    PROVE  Spec => []BalancesExact /\ []FeesArrive /\ []NeverOverdrawn /\ MeetsAccount
BY SerialIsApart, ApartBalancesExact, ApartFeesArrive, ApartNeverOverdrawn, ApartMeetsAccount, PTL
=============================================================================
