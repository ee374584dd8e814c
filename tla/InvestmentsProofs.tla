-------------------------- MODULE InvestmentsProofs --------------------------
(***************************************************************************)
(* Proofs about deposits, investments and their refunds, for any requests  *)
(* however they overlap and wherever they stop.                            *)
(***************************************************************************)
EXTENDS Investments, FiniteSetTheorems, TLAPS

Unstored == {"new", "open", "findEscrow", "createEscrow", "insert"}

\* Where a request for a deposit stands says what it has stored.
Stages ==
    \A r \in Depositing :
        /\ pc[r] \in Unstored \cup {"attach", "lock", "log", "row", "check", "raise", "done", "failed"}
        /\ pc[r] \in Unstored => r \notin DOMAIN deposits
        /\ pc[r] \in Unstored \cup {"attach"} => r \notin escrow.deposits
        /\ pc[r] = "attach" => r \in DOMAIN deposits
        /\ pc[r] \in {"lock", "log"} => r \in escrow.deposits
        /\ r \in DOMAIN deposits => deposits[r].txHash = hash[r]

\* The unique, sparse index on txHash.
UniqueHashes ==
    \A d, e \in DOMAIN deposits :
        deposits[d].txHash = deposits[e].txHash /\ deposits[d].txHash # NoHash => d = e

CreatesOK ==
    \A i \in Creates :
        /\ pc[i] # "new" => hash[i] = ZeroHash
        /\ pc[i] \in Unstored \cup {"attach", "lock", "log", "row"} => i \notin DOMAIN investments
        /\ ~ testMode /\ (pc[i] = "row" \/ i \in DOMAIN investments) =>
             i \in logged /\ i \in escrow.deposits

\* A disputed or refunded deposit never becomes pending again.
MarksOK ==
    \A m \in Marks :
        /\ pc[m] \in {"new", "mark", "logMark", "done", "failed"}
        /\ m \in logged => pc[m] = "done"
        /\ mark[m].of # {} => mark[m].to # "PENDING"
        /\ mark[m].of \subseteq DOMAIN deposits
        /\ pc[m] = "logMark" \/ m \in logged =>
             \A d \in mark[m].of : deposits[d].status # "PENDING"

Changing == {s \in StatusCalls : pc[s] \in {"saveStatus", "refund"}}

\* While an investment is not shared, what updateStatus read of it is still so.
ChangesOK ==
    \A s \in StatusCalls :
        /\ pc[s] \in {"new", "saveStatus", "refund", "done", "failed"}
        /\ s \in Changing => change[s].of \in DOMAIN investments
        /\ s \in Changing /\ change[s].of \notin shared =>
             /\ pc[s] = "saveStatus" =>
                  <<investments[change[s].of], change[s].to>> \in ValidTransitions
             /\ pc[s] = "refund" =>
                  investments[change[s].of] = "refunded" /\ refunds[change[s].of] = 0

OneChange ==
    \A s, o \in Changing : change[s].of = change[o].of /\ change[s].of \notin shared => s = o

RefundsOK ==
    \A i \in Creates \ shared :
        /\ refunds[i] <= 1
        /\ refunds[i] # 0 => i \in DOMAIN investments /\ investments[i] = "refunded"

\* The requests about to be counted are added to what is.
Recorded == (logged \cap Depositing) \cup {r \in Depositing : pc[r] = "log"}
Locking == {r \in Depositing : pc[r] = "lock"}
Raising == {r \in Creates : pc[r] \in {"check", "raise"}}

CountsOK ==
    /\ escrow.deposits \subseteq DOMAIN deposits
    /\ Cardinality(Recorded) <= escrow.locked
    /\ escrow.locked + Cardinality(Locking) <= Cardinality(escrow.deposits)
    /\ raised + Cardinality(Raising) <= Cardinality(DOMAIN investments)

IInv ==
    /\ TypeOK /\ Stages /\ UniqueHashes /\ CreatesOK /\ MarksOK
    /\ ChangesOK /\ OneChange /\ RefundsOK /\ CountsOK

-----------------------------------------------------------------------------

LEMMA RequestKinds ==
    /\ Creates \subseteq Depositing /\ Depositing \subseteq Requests
    /\ StatusCalls \subseteq Requests /\ Marks \subseteq Requests
    /\ Depositing \cap StatusCalls = {} /\ Depositing \cap Marks = {} /\ StatusCalls \cap Marks = {}
    /\ Depositing = Creates \cup Directs /\ Creates \cap Directs = {}
BY RequestsAssumption DEF Requests, Depositing

LEMMA Finite ==
    ASSUME NEW S, S \subseteq Requests
    PROVE  IsFiniteSet(S) /\ Cardinality(S) \in Nat
BY RequestsAssumption, FS_Subset, FS_CardinalityType

\* Nothing is counted that was not, and no request is newly about to be.
LEMMA CountsStay ==
    ASSUME TypeOK, CountsOK, Recorded' \subseteq Recorded, Locking' \subseteq Locking,
           Raising' \subseteq Raising, escrow'.locked = escrow.locked,
           escrow'.deposits = escrow.deposits, DOMAIN deposits \subseteq DOMAIN deposits',
           raised' = raised, DOMAIN investments' = DOMAIN investments
    PROVE  CountsOK'
<1>1. /\ Recorded \subseteq Requests /\ Locking \subseteq Requests /\ Raising \subseteq Requests
      /\ escrow.deposits \subseteq Requests /\ DOMAIN investments \subseteq Requests
  BY RequestKinds DEF Recorded, Locking, Raising, TypeOK, EscrowTypeOK
<1>2. /\ Cardinality(Recorded') <= Cardinality(Recorded) /\ Cardinality(Recorded') \in Nat
      /\ Cardinality(Locking') <= Cardinality(Locking) /\ Cardinality(Locking') \in Nat
      /\ Cardinality(Raising') <= Cardinality(Raising) /\ Cardinality(Raising') \in Nat
  BY <1>1, Finite, FS_Subset, FS_CardinalityType
<1>3. /\ Cardinality(Recorded) \in Nat /\ Cardinality(Locking) \in Nat
      /\ Cardinality(Raising) \in Nat /\ Cardinality(escrow.deposits) \in Nat
      /\ Cardinality(DOMAIN investments) \in Nat
  BY <1>1, Finite
<1>4. escrow.locked \in Nat /\ raised \in Nat
  BY DEF TypeOK, EscrowTypeOK
<1> QED BY <1>2, <1>3, <1>4 DEF CountsOK

LEMMA ReopenInv ==
    ASSUME IInv, Reopen /\ UNCHANGED investmentVars
    PROVE  IInv'
<1> USE RequestKinds DEF Reopen, At, Goto, escrowVars, investmentVars
<1>1. TypeOK'
  BY DEF IInv, TypeOK, EscrowTypeOK, Steps, DepositStatus, InvestmentStatus
<1>2. Stages'
  BY DEF IInv, TypeOK, EscrowTypeOK, Stages, Unstored, ChangesOK, MarksOK
<1>3. UniqueHashes'
  BY DEF IInv, TypeOK, EscrowTypeOK, UniqueHashes
<1>4. CreatesOK'
  BY DEF IInv, TypeOK, EscrowTypeOK, CreatesOK, Stages, Unstored
<1>5. MarksOK'
  BY DEF IInv, TypeOK, EscrowTypeOK, MarksOK
<1>6. ChangesOK'
  BY DEF IInv, TypeOK, EscrowTypeOK, ChangesOK, Changing, ValidTransitions
<1>7. OneChange'
  BY DEF IInv, TypeOK, EscrowTypeOK, OneChange, Changing
<1>8. RefundsOK'
  BY DEF IInv, TypeOK, EscrowTypeOK, RefundsOK
<1>9. CountsOK'
  BY CountsStay DEF IInv, TypeOK, EscrowTypeOK, Recorded, Locking, Raising
<1> QED BY <1>1, <1>2, <1>3, <1>4, <1>5, <1>6, <1>7, <1>8, <1>9 DEF IInv

LEMMA DepositArrivesInv ==
    ASSUME IInv, NEW r \in Directs, NEW h \in Hashes \cup {NoHash}, DepositArrives(r, h) /\ UNCHANGED investmentVars
    PROVE  IInv'
<1> USE RequestKinds DEF DepositArrives, Arrives, At, Goto, escrowVars, investmentVars
<1>1. TypeOK'
  BY DEF IInv, TypeOK, EscrowTypeOK, Steps, DepositStatus, InvestmentStatus
<1>2. Stages'
  BY DEF IInv, TypeOK, EscrowTypeOK, Stages, Unstored, ChangesOK, MarksOK
<1>3. UniqueHashes'
  BY DEF IInv, TypeOK, EscrowTypeOK, UniqueHashes
<1>4. CreatesOK'
  BY DEF IInv, TypeOK, EscrowTypeOK, CreatesOK, Stages, Unstored
<1>5. MarksOK'
  BY DEF IInv, TypeOK, EscrowTypeOK, MarksOK
<1>6. ChangesOK'
  BY DEF IInv, TypeOK, EscrowTypeOK, ChangesOK, Changing, ValidTransitions
<1>7. OneChange'
  BY DEF IInv, TypeOK, EscrowTypeOK, OneChange, Changing
<1>8. RefundsOK'
  BY DEF IInv, TypeOK, EscrowTypeOK, RefundsOK
<1>9. CountsOK'
  BY CountsStay DEF IInv, TypeOK, EscrowTypeOK, Recorded, Locking, Raising
<1> QED BY <1>1, <1>2, <1>3, <1>4, <1>5, <1>6, <1>7, <1>8, <1>9 DEF IInv

LEMMA DepositAdmittedInv ==
    ASSUME IInv, NEW r \in Depositing, DepositAdmitted(r) /\ UNCHANGED investmentVars
    PROVE  IInv'
<1> USE RequestKinds DEF DepositAdmitted, At, Goto, escrowVars, investmentVars
<1>1. TypeOK'
  BY DEF IInv, TypeOK, EscrowTypeOK, Steps, DepositStatus, InvestmentStatus
<1>2. Stages'
  BY DEF IInv, TypeOK, EscrowTypeOK, Stages, Unstored, ChangesOK, MarksOK
<1>3. UniqueHashes'
  BY DEF IInv, TypeOK, EscrowTypeOK, UniqueHashes
<1>4. CreatesOK'
  BY DEF IInv, TypeOK, EscrowTypeOK, CreatesOK, Stages, Unstored
<1>5. MarksOK'
  BY DEF IInv, TypeOK, EscrowTypeOK, MarksOK
<1>6. ChangesOK'
  BY DEF IInv, TypeOK, EscrowTypeOK, ChangesOK, Changing, ValidTransitions
<1>7. OneChange'
  BY DEF IInv, TypeOK, EscrowTypeOK, OneChange, Changing
<1>8. RefundsOK'
  BY DEF IInv, TypeOK, EscrowTypeOK, RefundsOK
<1>9. CountsOK'
  BY CountsStay DEF IInv, TypeOK, EscrowTypeOK, Recorded, Locking, Raising
<1> QED BY <1>1, <1>2, <1>3, <1>4, <1>5, <1>6, <1>7, <1>8, <1>9 DEF IInv

LEMMA FindEscrowInv ==
    ASSUME IInv, NEW r \in Depositing, FindEscrow(r) /\ UNCHANGED investmentVars
    PROVE  IInv'
<1> USE RequestKinds DEF FindEscrow, At, Goto, escrowVars, investmentVars
<1>1. TypeOK'
  BY DEF IInv, TypeOK, EscrowTypeOK, Steps, DepositStatus, InvestmentStatus
<1>2. Stages'
  BY DEF IInv, TypeOK, EscrowTypeOK, Stages, Unstored, ChangesOK, MarksOK
<1>3. UniqueHashes'
  BY DEF IInv, TypeOK, EscrowTypeOK, UniqueHashes
<1>4. CreatesOK'
  BY DEF IInv, TypeOK, EscrowTypeOK, CreatesOK, Stages, Unstored
<1>5. MarksOK'
  BY DEF IInv, TypeOK, EscrowTypeOK, MarksOK
<1>6. ChangesOK'
  BY DEF IInv, TypeOK, EscrowTypeOK, ChangesOK, Changing, ValidTransitions
<1>7. OneChange'
  BY DEF IInv, TypeOK, EscrowTypeOK, OneChange, Changing
<1>8. RefundsOK'
  BY DEF IInv, TypeOK, EscrowTypeOK, RefundsOK
<1>9. CountsOK'
  BY CountsStay DEF IInv, TypeOK, EscrowTypeOK, Recorded, Locking, Raising
<1> QED BY <1>1, <1>2, <1>3, <1>4, <1>5, <1>6, <1>7, <1>8, <1>9 DEF IInv

LEMMA CreateEscrowInv ==
    ASSUME IInv, NEW r \in Depositing, CreateEscrow(r) /\ UNCHANGED investmentVars
    PROVE  IInv'
<1> USE RequestKinds DEF CreateEscrow, At, Goto, escrowVars, investmentVars
<1>1. TypeOK'
  BY DEF IInv, TypeOK, EscrowTypeOK, Steps, DepositStatus, InvestmentStatus
<1>2. Stages'
  BY DEF IInv, TypeOK, EscrowTypeOK, Stages, Unstored, ChangesOK, MarksOK
<1>3. UniqueHashes'
  BY DEF IInv, TypeOK, EscrowTypeOK, UniqueHashes
<1>4. CreatesOK'
  BY DEF IInv, TypeOK, EscrowTypeOK, CreatesOK, Stages, Unstored
<1>5. MarksOK'
  BY DEF IInv, TypeOK, EscrowTypeOK, MarksOK
<1>6. ChangesOK'
  BY DEF IInv, TypeOK, EscrowTypeOK, ChangesOK, Changing, ValidTransitions
<1>7. OneChange'
  BY DEF IInv, TypeOK, EscrowTypeOK, OneChange, Changing
<1>8. RefundsOK'
  BY DEF IInv, TypeOK, EscrowTypeOK, RefundsOK
<1>9. CountsOK'
  BY CountsStay DEF IInv, TypeOK, EscrowTypeOK, Recorded, Locking, Raising
<1> QED BY <1>1, <1>2, <1>3, <1>4, <1>5, <1>6, <1>7, <1>8, <1>9 DEF IInv

LEMMA InsertDepositInv ==
    ASSUME IInv, NEW r \in Depositing, InsertDeposit(r) /\ UNCHANGED investmentVars
    PROVE  IInv'
<1> USE RequestKinds DEF InsertDeposit, Refused, At, Goto, escrowVars, investmentVars
<1>1. TypeOK'
  BY DEF IInv, TypeOK, EscrowTypeOK, Steps, DepositStatus, InvestmentStatus
<1>2. Stages'
  BY DEF IInv, TypeOK, EscrowTypeOK, Stages, Unstored, ChangesOK, MarksOK
<1>3. UniqueHashes'
  BY DEF IInv, TypeOK, EscrowTypeOK, UniqueHashes
<1>4. CreatesOK'
  BY DEF IInv, TypeOK, EscrowTypeOK, CreatesOK, Stages, Unstored
<1>5. MarksOK'
  BY DEF IInv, TypeOK, EscrowTypeOK, MarksOK, Stages, Unstored
<1>6. ChangesOK'
  BY DEF IInv, TypeOK, EscrowTypeOK, ChangesOK, Changing, ValidTransitions
<1>7. OneChange'
  BY DEF IInv, TypeOK, EscrowTypeOK, OneChange, Changing
<1>8. RefundsOK'
  BY DEF IInv, TypeOK, EscrowTypeOK, RefundsOK
<1>9. CountsOK'
  BY CountsStay DEF IInv, TypeOK, EscrowTypeOK, Recorded, Locking, Raising
<1> QED BY <1>1, <1>2, <1>3, <1>4, <1>5, <1>6, <1>7, <1>8, <1>9 DEF IInv

LEMMA AttachDepositInv ==
    ASSUME IInv, NEW r \in Depositing, AttachDeposit(r) /\ UNCHANGED investmentVars
    PROVE  IInv'
<1> USE RequestKinds DEF AttachDeposit, At, Goto, escrowVars, investmentVars
<1>1. TypeOK'
  BY DEF IInv, TypeOK, EscrowTypeOK, Steps, DepositStatus, InvestmentStatus
<1>2. Stages'
  BY DEF IInv, TypeOK, EscrowTypeOK, Stages, Unstored, ChangesOK, MarksOK
<1>3. UniqueHashes'
  BY DEF IInv, TypeOK, EscrowTypeOK, UniqueHashes
<1>4. CreatesOK'
  BY DEF IInv, TypeOK, EscrowTypeOK, CreatesOK, Stages, Unstored
<1>5. MarksOK'
  BY DEF IInv, TypeOK, EscrowTypeOK, MarksOK
<1>6. ChangesOK'
  BY DEF IInv, TypeOK, EscrowTypeOK, ChangesOK, Changing, ValidTransitions
<1>7. OneChange'
  BY DEF IInv, TypeOK, EscrowTypeOK, OneChange, Changing
<1>8. RefundsOK'
  BY DEF IInv, TypeOK, EscrowTypeOK, RefundsOK
<1>9. CountsOK'
  <2>0. /\ Recorded \subseteq Requests /\ Recorded' \subseteq Requests
        /\ Locking \subseteq Requests /\ Locking' \subseteq Requests
        /\ Raising \subseteq Requests /\ Raising' \subseteq Requests
        /\ escrow.deposits \subseteq Requests /\ DOMAIN investments \subseteq Requests
    BY DEF IInv, Recorded, Locking, Raising, TypeOK, EscrowTypeOK
  <2>1. /\ IsFiniteSet(Recorded) /\ Cardinality(Recorded) \in Nat
        /\ IsFiniteSet(Recorded') /\ Cardinality(Recorded') \in Nat
        /\ IsFiniteSet(Locking) /\ Cardinality(Locking) \in Nat
        /\ IsFiniteSet(Locking') /\ Cardinality(Locking') \in Nat
        /\ IsFiniteSet(Raising) /\ Cardinality(Raising) \in Nat
        /\ IsFiniteSet(Raising') /\ Cardinality(Raising') \in Nat
    BY <2>0, Finite
  <2>2. /\ IsFiniteSet(escrow.deposits) /\ Cardinality(escrow.deposits) \in Nat
        /\ IsFiniteSet(DOMAIN investments) /\ Cardinality(DOMAIN investments) \in Nat
        /\ escrow.locked \in Nat /\ raised \in Nat
    BY <2>0, Finite DEF IInv, TypeOK, EscrowTypeOK
  <2>3. /\ r \in DOMAIN deposits /\ r \notin escrow.deposits
        /\ escrow'.deposits = escrow.deposits \cup {r} /\ escrow'.locked = escrow.locked
    BY DEF IInv, Stages, TypeOK, EscrowTypeOK, Unstored
  <2>4. /\ Recorded' = Recorded /\ Raising' = Raising
        /\ Locking' = Locking \cup {r} /\ r \notin Locking
    BY DEF IInv, TypeOK, EscrowTypeOK, Recorded, Locking, Raising
  <2>5. Cardinality(Locking') = Cardinality(Locking) + 1
    BY <2>1, <2>4, FS_AddElement
  <2>6. Cardinality(escrow'.deposits) = Cardinality(escrow.deposits) + 1
    BY <2>2, <2>3, FS_AddElement
  <2> QED BY <2>1, <2>2, <2>3, <2>4, <2>5, <2>6 DEF IInv, CountsOK
<1> QED BY <1>1, <1>2, <1>3, <1>4, <1>5, <1>6, <1>7, <1>8, <1>9 DEF IInv

LEMMA LockDepositInv ==
    ASSUME IInv, NEW r \in Depositing, LockDeposit(r) /\ UNCHANGED investmentVars
    PROVE  IInv'
<1> USE RequestKinds DEF LockDeposit, At, Goto, escrowVars, investmentVars
<1>1. TypeOK'
  BY DEF IInv, TypeOK, EscrowTypeOK, Steps, DepositStatus, InvestmentStatus
<1>2. Stages'
  BY DEF IInv, TypeOK, EscrowTypeOK, Stages, Unstored, ChangesOK, MarksOK
<1>3. UniqueHashes'
  BY DEF IInv, TypeOK, EscrowTypeOK, UniqueHashes
<1>4. CreatesOK'
  BY DEF IInv, TypeOK, EscrowTypeOK, CreatesOK, Stages, Unstored
<1>5. MarksOK'
  BY DEF IInv, TypeOK, EscrowTypeOK, MarksOK
<1>6. ChangesOK'
  BY DEF IInv, TypeOK, EscrowTypeOK, ChangesOK, Changing, ValidTransitions
<1>7. OneChange'
  BY DEF IInv, TypeOK, EscrowTypeOK, OneChange, Changing
<1>8. RefundsOK'
  BY DEF IInv, TypeOK, EscrowTypeOK, RefundsOK
<1>9. CountsOK'
  <2>0. /\ Recorded \subseteq Requests /\ Recorded' \subseteq Requests
        /\ Locking \subseteq Requests /\ Locking' \subseteq Requests
        /\ Raising \subseteq Requests /\ Raising' \subseteq Requests
        /\ escrow.deposits \subseteq Requests /\ DOMAIN investments \subseteq Requests
    BY DEF IInv, Recorded, Locking, Raising, TypeOK, EscrowTypeOK
  <2>1. /\ IsFiniteSet(Recorded) /\ Cardinality(Recorded) \in Nat
        /\ IsFiniteSet(Recorded') /\ Cardinality(Recorded') \in Nat
        /\ IsFiniteSet(Locking) /\ Cardinality(Locking) \in Nat
        /\ IsFiniteSet(Locking') /\ Cardinality(Locking') \in Nat
        /\ IsFiniteSet(Raising) /\ Cardinality(Raising) \in Nat
        /\ IsFiniteSet(Raising') /\ Cardinality(Raising') \in Nat
    BY <2>0, Finite
  <2>2. /\ IsFiniteSet(escrow.deposits) /\ Cardinality(escrow.deposits) \in Nat
        /\ IsFiniteSet(DOMAIN investments) /\ Cardinality(DOMAIN investments) \in Nat
        /\ escrow.locked \in Nat /\ raised \in Nat
    BY <2>0, Finite DEF IInv, TypeOK, EscrowTypeOK
  <2>3. escrow'.deposits = escrow.deposits /\ escrow'.locked = escrow.locked + 1
    BY DEF IInv, TypeOK, EscrowTypeOK
  <2>4. /\ Recorded' \subseteq Recorded \cup {r} /\ Raising' = Raising
        /\ Locking = Locking' \cup {r} /\ r \notin Locking'
    BY DEF IInv, TypeOK, EscrowTypeOK, Recorded, Locking, Raising
  <2>5. Cardinality(Locking) = Cardinality(Locking') + 1
    BY <2>1, <2>4, FS_AddElement
  <2>6. Cardinality(Recorded') <= Cardinality(Recorded) + 1
    <3>1. IsFiniteSet(Recorded \cup {r}) /\ Cardinality(Recorded \cup {r}) <= Cardinality(Recorded) + 1
      <4>1. CASE r \in Recorded
        <5>1. Recorded \cup {r} = Recorded
          BY <4>1
        <5>2. Cardinality(Recorded) <= Cardinality(Recorded) + 1
          BY <2>1
        <5> QED BY <5>1, <5>2, <2>1, Zenon
      <4>2. CASE r \notin Recorded
        <5>1. IsFiniteSet(Recorded \cup {r}) /\ Cardinality(Recorded \cup {r}) = Cardinality(Recorded) + 1
          BY <4>2, <2>1, FS_AddElement
        <5> QED BY <5>1, <2>1
      <4> QED BY <4>1, <4>2
    <3>2. Cardinality(Recorded') <= Cardinality(Recorded \cup {r})
          /\ Cardinality(Recorded \cup {r}) \in Nat
      BY <3>1, <2>4, FS_Subset, FS_CardinalityType
    <3> QED BY <3>1, <3>2, <2>1
  <2> QED BY <2>1, <2>2, <2>3, <2>4, <2>5, <2>6 DEF IInv, CountsOK
<1> QED BY <1>1, <1>2, <1>3, <1>4, <1>5, <1>6, <1>7, <1>8, <1>9 DEF IInv

LEMMA LogDepositInv ==
    ASSUME IInv, NEW r \in Depositing, LogDeposit(r) /\ UNCHANGED investmentVars
    PROVE  IInv'
<1> USE RequestKinds DEF LogDeposit, At, Goto, escrowVars, investmentVars
<1>1. TypeOK'
  BY DEF IInv, TypeOK, EscrowTypeOK, Steps, DepositStatus, InvestmentStatus
<1>2. Stages'
  BY DEF IInv, TypeOK, EscrowTypeOK, Stages, Unstored, ChangesOK, MarksOK
<1>3. UniqueHashes'
  BY DEF IInv, TypeOK, EscrowTypeOK, UniqueHashes
<1>4. CreatesOK'
  BY DEF IInv, TypeOK, EscrowTypeOK, CreatesOK, Stages, Unstored
<1>5. MarksOK'
  BY DEF IInv, TypeOK, EscrowTypeOK, MarksOK
<1>6. ChangesOK'
  BY DEF IInv, TypeOK, EscrowTypeOK, ChangesOK, Changing, ValidTransitions
<1>7. OneChange'
  BY DEF IInv, TypeOK, EscrowTypeOK, OneChange, Changing
<1>8. RefundsOK'
  BY DEF IInv, TypeOK, EscrowTypeOK, RefundsOK
<1>9. CountsOK'
  BY CountsStay DEF IInv, TypeOK, EscrowTypeOK, Recorded, Locking, Raising
<1> QED BY <1>1, <1>2, <1>3, <1>4, <1>5, <1>6, <1>7, <1>8, <1>9 DEF IInv

LEMMA RequestReleaseInv ==
    ASSUME IInv, NEW r \in Marks, RequestRelease(r) /\ UNCHANGED investmentVars
    PROVE  IInv'
<1> USE RequestKinds DEF RequestRelease, Arrives, At, Goto, escrowVars, investmentVars
<1>1. TypeOK'
  BY DEF IInv, TypeOK, EscrowTypeOK, Steps, DepositStatus, InvestmentStatus
<1>2. Stages'
  BY DEF IInv, TypeOK, EscrowTypeOK, Stages, Unstored, ChangesOK, MarksOK
<1>3. UniqueHashes'
  BY DEF IInv, TypeOK, EscrowTypeOK, UniqueHashes
<1>4. CreatesOK'
  BY DEF IInv, TypeOK, EscrowTypeOK, CreatesOK, Stages, Unstored
<1>5. MarksOK'
  BY DEF IInv, TypeOK, EscrowTypeOK, MarksOK
<1>6. ChangesOK'
  BY DEF IInv, TypeOK, EscrowTypeOK, ChangesOK, Changing, ValidTransitions
<1>7. OneChange'
  BY DEF IInv, TypeOK, EscrowTypeOK, OneChange, Changing
<1>8. RefundsOK'
  BY DEF IInv, TypeOK, EscrowTypeOK, RefundsOK
<1>9. CountsOK'
  BY CountsStay DEF IInv, TypeOK, EscrowTypeOK, Recorded, Locking, Raising
<1> QED BY <1>1, <1>2, <1>3, <1>4, <1>5, <1>6, <1>7, <1>8, <1>9 DEF IInv

LEMMA MarkArrivesInv ==
    ASSUME IInv, NEW r \in Marks, NEW d \in Depositing, NEW to \in DepositStatus, MarkArrives(r, d, to) /\ UNCHANGED investmentVars
    PROVE  IInv'
<1> USE RequestKinds DEF MarkArrives, Arrives, DepositStatus, At, Goto, escrowVars, investmentVars
<1>1. TypeOK'
  BY DEF IInv, TypeOK, EscrowTypeOK, Steps, DepositStatus, InvestmentStatus
<1>2. Stages'
  BY DEF IInv, TypeOK, EscrowTypeOK, Stages, Unstored, ChangesOK, MarksOK
<1>3. UniqueHashes'
  BY DEF IInv, TypeOK, EscrowTypeOK, UniqueHashes
<1>4. CreatesOK'
  BY DEF IInv, TypeOK, EscrowTypeOK, CreatesOK, Stages, Unstored
<1>5. MarksOK'
  BY DEF IInv, TypeOK, EscrowTypeOK, MarksOK
<1>6. ChangesOK'
  BY DEF IInv, TypeOK, EscrowTypeOK, ChangesOK, Changing, ValidTransitions
<1>7. OneChange'
  BY DEF IInv, TypeOK, EscrowTypeOK, OneChange, Changing
<1>8. RefundsOK'
  BY DEF IInv, TypeOK, EscrowTypeOK, RefundsOK
<1>9. CountsOK'
  BY CountsStay DEF IInv, TypeOK, EscrowTypeOK, Recorded, Locking, Raising
<1> QED BY <1>1, <1>2, <1>3, <1>4, <1>5, <1>6, <1>7, <1>8, <1>9 DEF IInv

LEMMA MarkDepositStatusInv ==
    ASSUME IInv, NEW r \in Marks, MarkDepositStatus(r) /\ UNCHANGED investmentVars
    PROVE  IInv'
<1> USE RequestKinds DEF MarkDepositStatus, At, Goto, escrowVars, investmentVars
<1>1. TypeOK'
  BY DEF IInv, TypeOK, EscrowTypeOK, Steps, DepositStatus, InvestmentStatus
<1>2. Stages'
  BY DEF IInv, TypeOK, EscrowTypeOK, Stages, Unstored, ChangesOK, MarksOK
<1>3. UniqueHashes'
  BY DEF IInv, TypeOK, EscrowTypeOK, UniqueHashes
<1>4. CreatesOK'
  BY DEF IInv, TypeOK, EscrowTypeOK, CreatesOK, Stages, Unstored
<1>5. MarksOK'
  BY DEF IInv, TypeOK, EscrowTypeOK, MarksOK
<1>6. ChangesOK'
  BY DEF IInv, TypeOK, EscrowTypeOK, ChangesOK, Changing, ValidTransitions
<1>7. OneChange'
  BY DEF IInv, TypeOK, EscrowTypeOK, OneChange, Changing
<1>8. RefundsOK'
  BY DEF IInv, TypeOK, EscrowTypeOK, RefundsOK
<1>9. CountsOK'
  BY CountsStay DEF IInv, TypeOK, EscrowTypeOK, Recorded, Locking, Raising
<1> QED BY <1>1, <1>2, <1>3, <1>4, <1>5, <1>6, <1>7, <1>8, <1>9 DEF IInv

LEMMA LogMarkInv ==
    ASSUME IInv, NEW r \in Marks, LogMark(r) /\ UNCHANGED investmentVars
    PROVE  IInv'
<1> USE RequestKinds DEF LogMark, At, Goto, escrowVars, investmentVars
<1>1. TypeOK'
  BY DEF IInv, TypeOK, EscrowTypeOK, Steps, DepositStatus, InvestmentStatus
<1>2. Stages'
  BY DEF IInv, TypeOK, EscrowTypeOK, Stages, Unstored, ChangesOK, MarksOK
<1>3. UniqueHashes'
  BY DEF IInv, TypeOK, EscrowTypeOK, UniqueHashes
<1>4. CreatesOK'
  BY DEF IInv, TypeOK, EscrowTypeOK, CreatesOK, Stages, Unstored
<1>5. MarksOK'
  BY DEF IInv, TypeOK, EscrowTypeOK, MarksOK
<1>6. ChangesOK'
  BY DEF IInv, TypeOK, EscrowTypeOK, ChangesOK, Changing, ValidTransitions
<1>7. OneChange'
  BY DEF IInv, TypeOK, EscrowTypeOK, OneChange, Changing
<1>8. RefundsOK'
  BY DEF IInv, TypeOK, EscrowTypeOK, RefundsOK
<1>9. CountsOK'
  BY CountsStay DEF IInv, TypeOK, EscrowTypeOK, Recorded, Locking, Raising
<1> QED BY <1>1, <1>2, <1>3, <1>4, <1>5, <1>6, <1>7, <1>8, <1>9 DEF IInv

LEMMA CreateArrivesInv ==
    ASSUME IInv, NEW r \in Creates, CreateArrives(r)
    PROVE  IInv'
<1> USE RequestKinds DEF CreateArrives, Arrives, At, Goto, escrowVars, investmentVars
<1>1. TypeOK'
  BY DEF IInv, TypeOK, EscrowTypeOK, Steps, DepositStatus, InvestmentStatus
<1>2. Stages'
  BY DEF IInv, TypeOK, EscrowTypeOK, Stages, Unstored, ChangesOK, MarksOK
<1>3. UniqueHashes'
  BY DEF IInv, TypeOK, EscrowTypeOK, UniqueHashes
<1>4. CreatesOK'
  BY DEF IInv, TypeOK, EscrowTypeOK, CreatesOK, Stages, Unstored
<1>5. MarksOK'
  BY DEF IInv, TypeOK, EscrowTypeOK, MarksOK
<1>6. ChangesOK'
  BY DEF IInv, TypeOK, EscrowTypeOK, ChangesOK, Changing, ValidTransitions
<1>7. OneChange'
  BY DEF IInv, TypeOK, EscrowTypeOK, OneChange, Changing
<1>8. RefundsOK'
  BY DEF IInv, TypeOK, EscrowTypeOK, RefundsOK
<1>9. CountsOK'
  BY CountsStay DEF IInv, TypeOK, EscrowTypeOK, Recorded, Locking, Raising
<1> QED BY <1>1, <1>2, <1>3, <1>4, <1>5, <1>6, <1>7, <1>8, <1>9 DEF IInv

LEMMA CreateRowInv ==
    ASSUME IInv, NEW r \in Creates, CreateRow(r)
    PROVE  IInv'
<1> USE RequestKinds DEF CreateRow, At, Goto, escrowVars, investmentVars
<1>1. TypeOK'
  BY DEF IInv, TypeOK, EscrowTypeOK, Steps, DepositStatus, InvestmentStatus
<1>2. Stages'
  BY DEF IInv, TypeOK, EscrowTypeOK, Stages, Unstored, ChangesOK, MarksOK
<1>3. UniqueHashes'
  BY DEF IInv, TypeOK, EscrowTypeOK, UniqueHashes
<1>4. CreatesOK'
  BY DEF IInv, TypeOK, EscrowTypeOK, CreatesOK, Stages, Unstored
<1>5. MarksOK'
  BY DEF IInv, TypeOK, EscrowTypeOK, MarksOK
<1>6. ChangesOK'
  <2>1. r \notin DOMAIN investments
    BY DEF IInv, CreatesOK
  <2>2. \A i \in DOMAIN investments : i \in DOMAIN investments' /\ investments'[i] = investments[i]
    BY <2>1
  <2> QED BY <2>2 DEF IInv, TypeOK, EscrowTypeOK, ChangesOK, Changing
<1>7. OneChange'
  BY DEF IInv, TypeOK, EscrowTypeOK, OneChange, Changing
<1>8. RefundsOK'
  <2>1. r \notin DOMAIN investments
    BY DEF IInv, CreatesOK
  <2>2. \A i \in DOMAIN investments : i \in DOMAIN investments' /\ investments'[i] = investments[i]
    BY <2>1
  <2> QED BY <2>2 DEF IInv, TypeOK, RefundsOK
<1>9. CountsOK'
  <2>0. /\ Recorded \subseteq Requests /\ Recorded' \subseteq Requests
        /\ Locking \subseteq Requests /\ Locking' \subseteq Requests
        /\ Raising \subseteq Requests /\ Raising' \subseteq Requests
        /\ escrow.deposits \subseteq Requests /\ DOMAIN investments \subseteq Requests
    BY DEF IInv, Recorded, Locking, Raising, TypeOK, EscrowTypeOK
  <2>1. /\ IsFiniteSet(Recorded) /\ Cardinality(Recorded) \in Nat
        /\ IsFiniteSet(Recorded') /\ Cardinality(Recorded') \in Nat
        /\ IsFiniteSet(Locking) /\ Cardinality(Locking) \in Nat
        /\ IsFiniteSet(Locking') /\ Cardinality(Locking') \in Nat
        /\ IsFiniteSet(Raising) /\ Cardinality(Raising) \in Nat
        /\ IsFiniteSet(Raising') /\ Cardinality(Raising') \in Nat
    BY <2>0, Finite
  <2>2. /\ IsFiniteSet(escrow.deposits) /\ Cardinality(escrow.deposits) \in Nat
        /\ IsFiniteSet(DOMAIN investments) /\ Cardinality(DOMAIN investments) \in Nat
        /\ escrow.locked \in Nat /\ raised \in Nat
    BY <2>0, Finite DEF IInv, TypeOK, EscrowTypeOK
  <2>3. DOMAIN investments' = DOMAIN investments \cup {r} /\ r \notin DOMAIN investments
    BY DEF IInv, CreatesOK
  <2>4. /\ Recorded' = Recorded /\ Locking' = Locking
        /\ Raising' = Raising \cup {r} /\ r \notin Raising
    BY DEF IInv, TypeOK, EscrowTypeOK, Recorded, Locking, Raising
  <2>5. Cardinality(Raising') = Cardinality(Raising) + 1
    BY <2>1, <2>4, FS_AddElement
  <2>6. Cardinality(DOMAIN investments') = Cardinality(DOMAIN investments) + 1
    BY <2>2, <2>3, FS_AddElement
  <2> QED BY <2>1, <2>2, <2>3, <2>4, <2>5, <2>6 DEF IInv, CountsOK
<1> QED BY <1>1, <1>2, <1>3, <1>4, <1>5, <1>6, <1>7, <1>8, <1>9 DEF IInv

LEMMA RaiseCheckInv ==
    ASSUME IInv, NEW r \in Creates, RaiseCheck(r)
    PROVE  IInv'
<1> USE RequestKinds DEF RaiseCheck, At, Goto, escrowVars, investmentVars
<1>1. TypeOK'
  BY DEF IInv, TypeOK, EscrowTypeOK, Steps, DepositStatus, InvestmentStatus
<1>2. Stages'
  BY DEF IInv, TypeOK, EscrowTypeOK, Stages, Unstored, ChangesOK, MarksOK
<1>3. UniqueHashes'
  BY DEF IInv, TypeOK, EscrowTypeOK, UniqueHashes
<1>4. CreatesOK'
  BY DEF IInv, TypeOK, EscrowTypeOK, CreatesOK, Stages, Unstored
<1>5. MarksOK'
  BY DEF IInv, TypeOK, EscrowTypeOK, MarksOK
<1>6. ChangesOK'
  BY DEF IInv, TypeOK, EscrowTypeOK, ChangesOK, Changing, ValidTransitions
<1>7. OneChange'
  BY DEF IInv, TypeOK, EscrowTypeOK, OneChange, Changing
<1>8. RefundsOK'
  BY DEF IInv, TypeOK, EscrowTypeOK, RefundsOK
<1>9. CountsOK'
  BY CountsStay DEF IInv, TypeOK, EscrowTypeOK, Recorded, Locking, Raising
<1> QED BY <1>1, <1>2, <1>3, <1>4, <1>5, <1>6, <1>7, <1>8, <1>9 DEF IInv

LEMMA RaiseInv ==
    ASSUME IInv, NEW r \in Creates, Raise(r)
    PROVE  IInv'
<1> USE RequestKinds DEF Raise, At, Goto, escrowVars, investmentVars
<1>1. TypeOK'
  BY DEF IInv, TypeOK, EscrowTypeOK, Steps, DepositStatus, InvestmentStatus
<1>2. Stages'
  BY DEF IInv, TypeOK, EscrowTypeOK, Stages, Unstored, ChangesOK, MarksOK
<1>3. UniqueHashes'
  BY DEF IInv, TypeOK, EscrowTypeOK, UniqueHashes
<1>4. CreatesOK'
  BY DEF IInv, TypeOK, EscrowTypeOK, CreatesOK, Stages, Unstored
<1>5. MarksOK'
  BY DEF IInv, TypeOK, EscrowTypeOK, MarksOK
<1>6. ChangesOK'
  BY DEF IInv, TypeOK, EscrowTypeOK, ChangesOK, Changing, ValidTransitions
<1>7. OneChange'
  BY DEF IInv, TypeOK, EscrowTypeOK, OneChange, Changing
<1>8. RefundsOK'
  BY DEF IInv, TypeOK, EscrowTypeOK, RefundsOK
<1>9. CountsOK'
  <2>0. /\ Recorded \subseteq Requests /\ Recorded' \subseteq Requests
        /\ Locking \subseteq Requests /\ Locking' \subseteq Requests
        /\ Raising \subseteq Requests /\ Raising' \subseteq Requests
        /\ escrow.deposits \subseteq Requests /\ DOMAIN investments \subseteq Requests
    BY DEF IInv, Recorded, Locking, Raising, TypeOK, EscrowTypeOK
  <2>1. /\ IsFiniteSet(Recorded) /\ Cardinality(Recorded) \in Nat
        /\ IsFiniteSet(Recorded') /\ Cardinality(Recorded') \in Nat
        /\ IsFiniteSet(Locking) /\ Cardinality(Locking) \in Nat
        /\ IsFiniteSet(Locking') /\ Cardinality(Locking') \in Nat
        /\ IsFiniteSet(Raising) /\ Cardinality(Raising) \in Nat
        /\ IsFiniteSet(Raising') /\ Cardinality(Raising') \in Nat
    BY <2>0, Finite
  <2>2. /\ IsFiniteSet(escrow.deposits) /\ Cardinality(escrow.deposits) \in Nat
        /\ IsFiniteSet(DOMAIN investments) /\ Cardinality(DOMAIN investments) \in Nat
        /\ escrow.locked \in Nat /\ raised \in Nat
    BY <2>0, Finite DEF IInv, TypeOK, EscrowTypeOK
  <2>4. /\ Recorded' = Recorded /\ Locking' = Locking
        /\ Raising = Raising' \cup {r} /\ r \notin Raising'
    BY DEF IInv, TypeOK, EscrowTypeOK, Recorded, Locking, Raising
  <2>5. Cardinality(Raising) = Cardinality(Raising') + 1
    BY <2>1, <2>4, FS_AddElement
  <2> QED BY <2>1, <2>2, <2>4, <2>5 DEF IInv, CountsOK
<1> QED BY <1>1, <1>2, <1>3, <1>4, <1>5, <1>6, <1>7, <1>8, <1>9 DEF IInv

LEMMA StatusArrivesInv ==
    ASSUME IInv, NEW r \in StatusCalls, NEW i \in Creates, NEW to \in InvestmentStatus, StatusArrives(r, i, to)
    PROVE  IInv'
<1> USE RequestKinds DEF StatusArrives, Arrives, InProgress, At, Goto, escrowVars, investmentVars
<1>1. TypeOK'
  BY DEF IInv, TypeOK, EscrowTypeOK, Steps, DepositStatus, InvestmentStatus
<1>2. Stages'
  BY DEF IInv, TypeOK, EscrowTypeOK, Stages, Unstored, ChangesOK, MarksOK
<1>3. UniqueHashes'
  BY DEF IInv, TypeOK, EscrowTypeOK, UniqueHashes
<1>4. CreatesOK'
  BY DEF IInv, TypeOK, EscrowTypeOK, CreatesOK, Stages, Unstored
<1>5. MarksOK'
  BY DEF IInv, TypeOK, EscrowTypeOK, MarksOK
<1>6. ChangesOK'
  BY DEF IInv, TypeOK, EscrowTypeOK, ChangesOK, Changing, ValidTransitions
<1>7. OneChange'
  BY DEF IInv, TypeOK, EscrowTypeOK, OneChange, Changing
<1>8. RefundsOK'
  BY DEF IInv, TypeOK, EscrowTypeOK, RefundsOK
<1>9. CountsOK'
  BY CountsStay DEF IInv, TypeOK, EscrowTypeOK, Recorded, Locking, Raising
<1> QED BY <1>1, <1>2, <1>3, <1>4, <1>5, <1>6, <1>7, <1>8, <1>9 DEF IInv

LEMMA SaveStatusInv ==
    ASSUME IInv, NEW r \in StatusCalls, SaveStatus(r)
    PROVE  IInv'
<1> USE RequestKinds DEF SaveStatus, At, Goto, escrowVars, investmentVars
<1>1. TypeOK'
  BY DEF IInv, TypeOK, EscrowTypeOK, Steps, DepositStatus, InvestmentStatus
<1>2. Stages'
  BY DEF IInv, TypeOK, EscrowTypeOK, Stages, Unstored, ChangesOK, MarksOK
<1>3. UniqueHashes'
  BY DEF IInv, TypeOK, EscrowTypeOK, UniqueHashes
<1>4. CreatesOK'
  BY DEF IInv, TypeOK, EscrowTypeOK, CreatesOK, Stages, Unstored
<1>5. MarksOK'
  BY DEF IInv, TypeOK, EscrowTypeOK, MarksOK
<1>6. ChangesOK'
  <2> SUFFICES ASSUME NEW s \in StatusCalls
               PROVE  /\ pc'[s] \in {"new", "saveStatus", "refund", "done", "failed"}
                      /\ s \in Changing' => change[s].of \in DOMAIN investments
                      /\ s \in Changing' /\ change[s].of \notin shared =>
                           /\ pc'[s] = "saveStatus" =>
                                <<investments'[change[s].of], change[s].to>> \in ValidTransitions
                           /\ pc'[s] = "refund" =>
                                /\ investments'[change[s].of] = "refunded"
                                /\ refunds[change[s].of] = 0
    BY DEF ChangesOK
  <2>1. s \in Changing' => s \in Changing /\ change[s].of \in DOMAIN investments
    BY DEF IInv, TypeOK, EscrowTypeOK, ChangesOK, Changing
  <2>2. pc'[s] \in {"new", "saveStatus", "refund", "done", "failed"}
    BY DEF IInv, TypeOK, EscrowTypeOK, ChangesOK
  <2>3. CASE s = r /\ change[r].of \notin shared
    <3>1. r \in Changing /\ change[r].of \in DOMAIN investments /\ change[r].of \in Creates
      BY DEF IInv, TypeOK, ChangesOK, Changing
    <3>2. investments[change[r].of] # "refunded"
      BY <3>1, <2>3 DEF IInv, ChangesOK, ValidTransitions
    <3>3. refunds[change[r].of] = 0
      BY <3>1, <3>2, <2>3 DEF IInv, RefundsOK
    <3>4. pc'[r] = "refund" => investments'[change[r].of] = "refunded"
      BY <3>1 DEF IInv, TypeOK, EscrowTypeOK
    <3>5. pc'[r] # "saveStatus"
      BY DEF IInv, TypeOK, EscrowTypeOK
    <3> QED BY <3>3, <3>4, <3>5, <2>1, <2>2, <2>3
  <2>4. CASE s # r /\ s \in Changing' /\ change[s].of \notin shared
    <3>1. r \in Changing /\ pc'[s] = pc[s]
      BY <2>4 DEF IInv, TypeOK, EscrowTypeOK, Changing
    <3>2. change[s].of # change[r].of
      BY <3>1, <2>1, <2>4 DEF IInv, OneChange
    <3>3. investments'[change[s].of] = investments[change[s].of]
      BY <3>2, <2>1, <2>4
    <3> QED BY <3>1, <3>3, <2>1, <2>2, <2>4 DEF IInv, ChangesOK
  <2> QED BY <2>1, <2>2, <2>3, <2>4
<1>7. OneChange'
  BY DEF IInv, TypeOK, EscrowTypeOK, OneChange, Changing
<1>8. RefundsOK'
  <2> SUFFICES ASSUME NEW i \in Creates, i \notin shared
               PROVE  /\ refunds[i] <= 1
                      /\ refunds[i] # 0 =>
                           i \in DOMAIN investments' /\ investments'[i] = "refunded"
    BY DEF RefundsOK
  <2>1. refunds[i] <= 1 /\ (refunds[i] # 0 => i \in DOMAIN investments /\ investments[i] = "refunded")
    BY DEF IInv, RefundsOK
  <2>2. CASE i = change[r].of
    <3>1. r \in Changing /\ i \in DOMAIN investments
      BY <2>2 DEF IInv, ChangesOK, Changing
    <3>2. investments[i] # "refunded"
      BY <3>1, <2>2 DEF IInv, ChangesOK, ValidTransitions
    <3> QED BY <3>2, <2>1
  <2>3. CASE i # change[r].of
    BY <2>1, <2>3
  <2> QED BY <2>2, <2>3
<1>9. CountsOK'
  BY CountsStay DEF IInv, TypeOK, EscrowTypeOK, Recorded, Locking, Raising
<1> QED BY <1>1, <1>2, <1>3, <1>4, <1>5, <1>6, <1>7, <1>8, <1>9 DEF IInv

LEMMA RefundInv ==
    ASSUME IInv, NEW r \in StatusCalls, Refund(r)
    PROVE  IInv'
<1> USE RequestKinds DEF Refund, At, Goto, escrowVars, investmentVars
<1>1. TypeOK'
  <2>1. change[r].of \in Creates
    BY DEF IInv, TypeOK, ChangesOK, Changing
  <2>2. refunds' \in [Creates -> Nat]
    BY <2>1 DEF IInv, TypeOK
  <2> QED BY <2>2 DEF IInv, TypeOK, EscrowTypeOK, Steps
<1>2. Stages'
  BY DEF IInv, TypeOK, EscrowTypeOK, Stages, Unstored, ChangesOK, MarksOK
<1>3. UniqueHashes'
  BY DEF IInv, TypeOK, EscrowTypeOK, UniqueHashes
<1>4. CreatesOK'
  BY DEF IInv, TypeOK, EscrowTypeOK, CreatesOK, Stages, Unstored
<1>5. MarksOK'
  BY DEF IInv, TypeOK, EscrowTypeOK, MarksOK
<1>6. ChangesOK'
  <2> SUFFICES ASSUME NEW s \in StatusCalls
               PROVE  /\ pc'[s] \in {"new", "saveStatus", "refund", "done", "failed"}
                      /\ s \in Changing' => change[s].of \in DOMAIN investments
                      /\ s \in Changing' /\ change[s].of \notin shared =>
                           /\ pc'[s] = "saveStatus" =>
                                <<investments[change[s].of], change[s].to>> \in ValidTransitions
                           /\ pc'[s] = "refund" =>
                                /\ investments[change[s].of] = "refunded"
                                /\ refunds'[change[s].of] = 0
    BY DEF ChangesOK
  <2>1. s \in Changing' => s \in Changing /\ s # r /\ pc'[s] = pc[s]
    BY DEF IInv, TypeOK, EscrowTypeOK, Changing
  <2>2. pc'[s] \in {"new", "saveStatus", "refund", "done", "failed"}
    BY DEF IInv, TypeOK, EscrowTypeOK, ChangesOK
  <2>3. s \in Changing' => change[s].of \in DOMAIN investments /\ change[s].of \in Creates
    BY <2>1 DEF IInv, TypeOK, ChangesOK
  <2>4. CASE s \in Changing' /\ change[s].of \notin shared
    <3>1. r \in Changing
      BY DEF Changing
    <3>2. change[s].of # change[r].of
      BY <3>1, <2>1, <2>4 DEF IInv, OneChange
    <3>3. refunds'[change[s].of] = refunds[change[s].of]
      BY <3>2, <2>3, <2>4 DEF IInv, TypeOK
    <3> QED BY <3>3, <2>1, <2>2, <2>3, <2>4 DEF IInv, ChangesOK
  <2> QED BY <2>2, <2>3, <2>4
<1>7. OneChange'
  BY DEF IInv, TypeOK, EscrowTypeOK, OneChange, Changing
<1>8. RefundsOK'
  <2> SUFFICES ASSUME NEW i \in Creates, i \notin shared
               PROVE  /\ refunds'[i] <= 1
                      /\ refunds'[i] # 0 => i \in DOMAIN investments /\ investments[i] = "refunded"
    BY DEF RefundsOK
  <2>1. refunds[i] <= 1 /\ (refunds[i] # 0 => i \in DOMAIN investments /\ investments[i] = "refunded")
    BY DEF IInv, RefundsOK
  <2>2. CASE i = change[r].of
    <3>1. i \in DOMAIN investments /\ investments[i] = "refunded" /\ refunds[i] = 0
      BY <2>2 DEF IInv, ChangesOK, Changing
    <3>2. refunds'[i] = 1
      BY <3>1, <2>2 DEF IInv, TypeOK
    <3> QED BY <3>1, <3>2
  <2>3. CASE i # change[r].of
    <3>1. refunds'[i] = refunds[i]
      BY <2>3 DEF IInv, TypeOK
    <3> QED BY <3>1, <2>1
  <2> QED BY <2>2, <2>3
<1>9. CountsOK'
  BY CountsStay DEF IInv, TypeOK, EscrowTypeOK, Recorded, Locking, Raising
<1> QED BY <1>1, <1>2, <1>3, <1>4, <1>5, <1>6, <1>7, <1>8, <1>9 DEF IInv

LEMMA ThrowsInv ==
    ASSUME IInv, NEW r \in Requests, Throws(r)
    PROVE  IInv'
<1> USE RequestKinds DEF Throws, InProgress, At, Goto, escrowVars, investmentVars
<1>1. TypeOK'
  BY DEF IInv, TypeOK, EscrowTypeOK, Steps, DepositStatus, InvestmentStatus
<1>2. Stages'
  BY DEF IInv, TypeOK, EscrowTypeOK, Stages, Unstored, ChangesOK, MarksOK
<1>3. UniqueHashes'
  BY DEF IInv, TypeOK, EscrowTypeOK, UniqueHashes
<1>4. CreatesOK'
  BY DEF IInv, TypeOK, EscrowTypeOK, CreatesOK, Stages, Unstored
<1>5. MarksOK'
  BY DEF IInv, TypeOK, EscrowTypeOK, MarksOK
<1>6. ChangesOK'
  BY DEF IInv, TypeOK, EscrowTypeOK, ChangesOK, Changing, ValidTransitions
<1>7. OneChange'
  BY DEF IInv, TypeOK, EscrowTypeOK, OneChange, Changing
<1>8. RefundsOK'
  BY DEF IInv, TypeOK, EscrowTypeOK, RefundsOK
<1>9. CountsOK'
  BY CountsStay DEF IInv, TypeOK, EscrowTypeOK, Recorded, Locking, Raising
<1> QED BY <1>1, <1>2, <1>3, <1>4, <1>5, <1>6, <1>7, <1>8, <1>9 DEF IInv

LEMMA InitInv == Init => IInv
<1> SUFFICES ASSUME Init PROVE IInv
  OBVIOUS
<1> USE RequestKinds DEF Init, EscrowInit
<1>1. TypeOK
  BY DEF TypeOK, EscrowTypeOK, Steps, DepositStatus, InvestmentStatus
<1>2. Stages /\ UniqueHashes /\ CreatesOK /\ MarksOK
  BY DEF Stages, Unstored, UniqueHashes, CreatesOK, MarksOK
<1>3. ChangesOK /\ OneChange /\ RefundsOK
  BY DEF ChangesOK, OneChange, RefundsOK, Changing
<1>4. Recorded = {} /\ Locking = {} /\ Raising = {}
  BY DEF Recorded, Locking, Raising
<1>5. CountsOK
  BY <1>4, FS_EmptySet DEF CountsOK
<1> QED BY <1>1, <1>2, <1>3, <1>5 DEF IInv

LEMMA StepInv == IInv /\ [Next]_vars => IInv'
<1> SUFFICES ASSUME IInv, [Next]_vars PROVE IInv'
  OBVIOUS
<1>1. CASE Reopen /\ UNCHANGED investmentVars
  BY <1>1, ReopenInv
<1>2. ASSUME NEW r \in Directs, NEW h \in Hashes \cup {NoHash},
             DepositArrives(r, h) /\ UNCHANGED investmentVars
      PROVE  IInv'
  BY <1>2, DepositArrivesInv
<1>3. ASSUME NEW r \in Depositing, EscrowStep(r), UNCHANGED investmentVars
      PROVE  IInv'
  BY <1>3, DepositAdmittedInv, FindEscrowInv, CreateEscrowInv, InsertDepositInv,
     AttachDepositInv, LockDepositInv, LogDepositInv DEF EscrowStep
<1>4. ASSUME NEW m \in Marks, MarkStep(m), UNCHANGED investmentVars
      PROVE  IInv'
  BY <1>4, RequestReleaseInv, MarkDepositStatusInv, LogMarkInv, MarkArrivesInv DEF MarkStep
<1>5. ASSUME NEW r \in Creates, CreateStep(r) PROVE IInv'
  BY <1>5, CreateArrivesInv, CreateRowInv, RaiseCheckInv, RaiseInv DEF CreateStep
<1>6. ASSUME NEW s \in StatusCalls, StatusStep(s) PROVE IInv'
  BY <1>6, StatusArrivesInv, SaveStatusInv, RefundInv DEF StatusStep
<1>7. ASSUME NEW r \in Requests, Throws(r) PROVE IInv'
  BY <1>7, ThrowsInv
<1>8. CASE UNCHANGED vars
  <2>1. UNCHANGED <<testMode, open, escrow, deposits, logged, pc, hash, mark,
                    investments, raised, change, refunds, shared>>
    BY <1>8 DEF vars
  <2>2. TypeOK' /\ Stages' /\ UniqueHashes' /\ CreatesOK' /\ MarksOK'
    BY <2>1 DEF IInv, TypeOK, EscrowTypeOK, Stages, UniqueHashes, CreatesOK, MarksOK
  <2>3. ChangesOK' /\ OneChange' /\ RefundsOK'
    BY <2>1 DEF IInv, ChangesOK, OneChange, RefundsOK, Changing
  <2>4. CountsOK'
    BY <2>1 DEF IInv, CountsOK, Recorded, Locking, Raising
  <2> QED BY <2>2, <2>3, <2>4 DEF IInv
<1> QED BY <1>1, <1>2, <1>3, <1>4, <1>5, <1>6, <1>7, <1>8 DEF Next

-----------------------------------------------------------------------------

\* What a request has stored, and what it is about to be counted in, at every step of
\* deposits, investments, refunds and disputes.
THEOREM InvestmentsInvariant == Spec => []IInv
BY InitInv, StepInv, PTL DEF Spec

\* Type correctness of the escrow, its deposits, the investments and the requests.
THEOREM InvestmentsTyped == Spec => []TypeOK
<1>1. IInv => TypeOK
  BY DEF IInv
<1> QED BY <1>1, InvestmentsInvariant, PTL

\* Wherever requests stop, the event log, the locked total, the escrow's deposits, the
\* stored deposits and the project's total stay in their order.
THEOREM RecordsStayInOrder == Spec => []RecordsInOrder
<1>1. IInv => RecordsInOrder
  <2> SUFFICES ASSUME IInv PROVE RecordsInOrder
    OBVIOUS
  <2>1. /\ Recorded \subseteq Requests /\ Locking \subseteq Requests /\ Raising \subseteq Requests
        /\ escrow.deposits \subseteq Requests /\ DOMAIN investments \subseteq Requests
    BY RequestKinds DEF IInv, Recorded, Locking, Raising, TypeOK, EscrowTypeOK
  <2>2. /\ Cardinality(Locking) \in Nat /\ Cardinality(Raising) \in Nat
        /\ Cardinality(escrow.deposits) \in Nat /\ Cardinality(DOMAIN investments) \in Nat
        /\ IsFiniteSet(Recorded) /\ Cardinality(Recorded) \in Nat
    BY <2>1, Finite
  <2>3. Cardinality(logged \cap Depositing) \in Nat
        /\ Cardinality(logged \cap Depositing) <= Cardinality(Recorded)
    BY <2>2, FS_Subset, FS_CardinalityType DEF Recorded
  <2>4. escrow.locked \in Nat /\ raised \in Nat
    BY DEF IInv, TypeOK, EscrowTypeOK
  <2>5. \A m \in logged \cap Marks, d \in Depositing :
          d \in mark[m].of => deposits[d].status # "PENDING"
    BY DEF IInv, MarksOK
  <2> QED BY <2>2, <2>3, <2>4, <2>5 DEF IInv, CountsOK, RecordsInOrder
<1> QED BY <1>1, InvestmentsInvariant, PTL

\* Outside the test modes every investment has its deposit; and there is one at most.
THEOREM InvestmentsAreDeposited == Spec => []InvestedIsDeposited
<1>1. IInv => InvestedIsDeposited
  <2> SUFFICES ASSUME IInv, ~ testMode PROVE InvestedIsDeposited
    BY DEF InvestedIsDeposited
  <2>1. \A i \in DOMAIN investments :
          /\ i \in logged /\ i \in escrow.deposits /\ i \in DOMAIN deposits
          /\ deposits[i].txHash = ZeroHash
    BY RequestKinds DEF IInv, TypeOK, CreatesOK, Stages, CountsOK, Unstored
  <2>2. \A i, j \in DOMAIN investments : i = j
    BY <2>1, HashesAssumption DEF IInv, UniqueHashes
  <2>3. Cardinality(DOMAIN investments) <= 1
    <3>1. CASE DOMAIN investments = {}
      BY <3>1, FS_EmptySet
    <3>2. CASE DOMAIN investments # {}
      <4>1. PICK i : i \in DOMAIN investments
        BY <3>2
      <4>2. DOMAIN investments = {i}
        BY <4>1, <2>2
      <4>3. Cardinality({i}) = 1
        BY FS_Singleton
      <4> QED BY <4>2, <4>3
    <3> QED BY <3>1, <3>2
  <2> QED BY <2>1, <2>3 DEF InvestedIsDeposited
<1> QED BY <1>1, InvestmentsInvariant, PTL

\* An investment whose status changes never overlapped is refunded once at most.
THEOREM RefundsAreSentOnce == Spec => []RefundedOnce
<1>1. IInv => RefundedOnce
  BY DEF IInv, RefundsOK, RefundedOnce
<1> QED BY <1>1, InvestmentsInvariant, PTL

\* Completed and refunded are final, unless two status changes overlapped.
THEOREM FinalStatusStays == Spec => FinalStays
<1> DEFINE Kept == \A i \in DOMAIN investments \ shared' :
                     investments[i] \in {"completed", "refunded"} =>
                       i \in DOMAIN investments' /\ investments'[i] = investments[i]
<1>1. IInv /\ [Next]_vars => Kept
  <2> SUFFICES ASSUME IInv, [Next]_vars, NEW i \in DOMAIN investments, i \notin shared',
                      investments[i] \in {"completed", "refunded"}
               PROVE  i \in DOMAIN investments' /\ investments'[i] = investments[i]
    OBVIOUS
  <2>1. CASE UNCHANGED investments
    BY <2>1
  <2>2. ASSUME NEW r \in Creates, CreateRow(r)
        PROVE  i \in DOMAIN investments' /\ investments'[i] = investments[i]
    <3>1. r # i
      BY <2>2 DEF IInv, CreatesOK, CreateRow, At
    <3> QED BY <3>1, <2>2 DEF CreateRow
  <2>3. ASSUME NEW s \in StatusCalls, SaveStatus(s)
        PROVE  i \in DOMAIN investments' /\ investments'[i] = investments[i]
    <3>1. s \in Changing /\ i \notin shared
      BY <2>3 DEF SaveStatus, At, Changing
    <3>2. change[s].of # i
      BY <3>1, <2>3 DEF IInv, ChangesOK, ValidTransitions, SaveStatus, At
    <3> QED BY <3>2, <2>3 DEF SaveStatus
  <2>4. [Next]_vars =>
          \/ UNCHANGED investments
          \/ \E r \in Creates : CreateRow(r)
          \/ \E s \in StatusCalls : SaveStatus(s)
    BY DEF Next, vars, investmentVars, CreateStep, StatusStep, CreateArrives, RaiseCheck, Raise,
           StatusArrives, Refund, Throws
  <2> QED BY <2>1, <2>2, <2>3, <2>4
<1>2. IInv /\ [Next]_vars => [Kept]_vars
  BY <1>1
<1> QED BY <1>2, InvestmentsInvariant, PTL DEF Spec, FinalStays

=============================================================================
