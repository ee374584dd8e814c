-------------------------- MODULE SettlementProofs --------------------------
(***************************************************************************)
(* Proofs that Settlement keeps its safety properties and implements       *)
(* PaymentLedger, for every set of transactions and workers.               *)
(***************************************************************************)
EXTENDS MCSettlementScenes, FiniteSetTheorems, TLAPS

-----------------------------------------------------------------------------
(* Counting listener runs.                                                 *)

In(r, t, P) == IF r.tx = t /\ r.pc \in P THEN 1 ELSE 0

\* A count of runs is a number, no larger than the number of workers.
LEMMA RunsAtType ==
    ASSUME NEW R, NEW t, NEW P
    PROVE  /\ RunsAt(R, t, P) \in Nat
           /\ Cardinality(Workers) \in Nat
           /\ RunsAt(R, t, P) <= Cardinality(Workers)
<1> DEFINE S == {w \in Workers : R[w].tx = t /\ R[w].pc \in P}
<1>1. S \in SUBSET Workers
  OBVIOUS
<1>2. IsFiniteSet(S) /\ Cardinality(S) <= Cardinality(Workers)
  BY <1>1, WorkersAssumption, FS_Subset
<1>3. Cardinality(S) \in Nat /\ Cardinality(Workers) \in Nat
  BY <1>2, WorkersAssumption, FS_CardinalityType
<1> QED
  BY <1>2, <1>3 DEF RunsAt

OthersStay(R, Q, w) == \A v \in Workers : v # w => Q[v] = R[v]

\* Moving one run from step to step changes each count by that run alone.
LEMMA RunsAtMove ==
    ASSUME NEW R, NEW Q, NEW w \in Workers, NEW t, NEW P, OthersStay(R, Q, w)
    PROVE  RunsAt(Q, t, P) = RunsAt(R, t, P) + In(Q[w], t, P) - In(R[w], t, P)
<1> DEFINE S == {v \in Workers : R[v].tx = t /\ R[v].pc \in P}
           T == {v \in Workers : Q[v].tx = t /\ Q[v].pc \in P}
<1>2. S \in SUBSET Workers /\ T \in SUBSET Workers
  OBVIOUS
<1>3. IsFiniteSet(S) /\ IsFiniteSet(T)
  BY <1>2, WorkersAssumption, FS_Subset
<1>4. Cardinality(S) \in Nat /\ Cardinality(T) \in Nat
  BY <1>3, FS_CardinalityType
<1>a. RunsAt(R, t, P) = Cardinality(S) /\ RunsAt(Q, t, P) = Cardinality(T)
  BY DEF RunsAt
<1>b. In(R[w], t, P) = (IF w \in S THEN 1 ELSE 0) /\ In(Q[w], t, P) = (IF w \in T THEN 1 ELSE 0)
  BY DEF In
<1> HIDE DEF S, T
<1>5. CASE w \in S /\ w \notin T
  <2>1. T = S \ {w}
    BY <1>5 DEF S, T, OthersStay
  <2>2. Cardinality(T) = Cardinality(S) - 1
    BY <2>1, <1>3, <1>5, FS_RemoveElement
  <2> QED
    BY <2>2, <1>a, <1>b, <1>4, <1>5
<1>6. CASE w \notin S /\ w \in T
  <2>1. T = S \cup {w}
    BY <1>6 DEF S, T, OthersStay
  <2>2. Cardinality(T) = Cardinality(S) + 1
    BY <2>1, <1>3, <1>6, FS_AddElement
  <2> QED
    BY <2>2, <1>a, <1>b, <1>4, <1>6
<1>7. CASE w \in S <=> w \in T
  <2>1. T = S
    BY <1>7 DEF S, T, OthersStay
  <2> QED
    BY <2>1, <1>a, <1>b, <1>4, <1>7
<1> QED
  BY <1>5, <1>6, <1>7

\* With every run idle nothing is counted.
LEMMA RunsAtIdle ==
    ASSUME NEW R, R = [w \in Workers |-> NoRun], NEW t, NEW P, "idle" \notin P
    PROVE  RunsAt(R, t, P) = 0
<1>1. {w \in Workers : R[w].tx = t /\ R[w].pc \in P} = {}
  BY DEF NoRun
<1> QED
  BY <1>1, FS_EmptySet DEF RunsAt

-----------------------------------------------------------------------------
(* Type correctness.                                                       *)

LEMMA NoRunType == NoRun \in Run
  BY DEF NoRun, Run, RunPc, Addresses

LEMMA NoRequestType == NoRequest \in Request
  BY DEF NoRequest, Request, ReqPc, Status

LEMMA InitType == Init => TypeOK
  BY NoRunType, NoRequestType DEF Init, PayInit, LisInit, TypeOK, PayTypeOK, LisTypeOK,
     Status, Gateway, ProjectStatuses, Addresses

\* The bookkeeping operators keep the types of `req' and `run'.
LEMMA RequestType ==
    ASSUME TypeOK, NEW w \in Workers
    PROVE  /\ Return(w) => req' \in [Workers -> Request]
           /\ \A s \in Status, b \in BOOLEAN : Saving(w, s, b) => req' \in [Workers -> Request]
           /\ \A t \in Tx, pc \in ReqPc : Await(w, pc, t) => req' \in [Workers -> Request]
           /\ \A pc \in ReqPc :
                req' = [req EXCEPT ![w].pc = pc] => req' \in [Workers -> Request]
<1> USE DEF TypeOK, PayTypeOK
<1>1. Return(w) => req' \in [Workers -> Request]
  BY NoRequestType DEF Return
<1>2. ASSUME NEW s \in Status, NEW b \in BOOLEAN, Saving(w, s, b)
      PROVE  req' \in [Workers -> Request]
  <2>1. req[w] \in Request
    OBVIOUS
  <2>2. [pc |-> "save", tx |-> req[w].tx, seen |-> req[w].seen, write |-> s, then |-> b] \in Request
    BY <2>1 DEF Request, ReqPc
  <2> QED
    BY <1>2, <2>2 DEF Saving
<1>3. ASSUME NEW t \in Tx, NEW pc \in ReqPc, Await(w, pc, t)
      PROVE  req' \in [Workers -> Request]
  <2>1. [pc |-> pc, tx |-> t, seen |-> status[t], write |-> status[t], then |-> FALSE] \in Request
    BY DEF Request
  <2> QED
    BY <1>3, <2>1 DEF Await
<1>4. ASSUME NEW pc \in ReqPc, req' = [req EXCEPT ![w].pc = pc]
      PROVE  req' \in [Workers -> Request]
  <2>1. req[w] \in Request
    OBVIOUS
  <2>2. [req[w] EXCEPT !.pc = pc] \in Request
    BY <2>1 DEF Request
  <2> QED
    BY <1>4, <2>2
<1> QED
  BY <1>1, <1>2, <1>3, <1>4

LEMMA RunType ==
    ASSUME TypeOK, NEW w \in Workers
    PROVE  /\ Finish(w) => run' \in [Workers -> Run]
           /\ \A t \in Tx : Emit(w, t) => run' \in [Workers -> Run]
           /\ \A pc \in RunPc : Goto(w, pc) => run' \in [Workers -> Run]
           /\ \A pc \in RunPc, a \in Addresses : Hold(w, pc, a) => run' \in [Workers -> Run]
<1> USE DEF TypeOK, LisTypeOK
<1>1. run[w] \in Run
  OBVIOUS
<1>2. \A pc \in RunPc, a \in Addresses :
        [pc |-> pc, tx |-> run[w].tx, addr |-> a] \in Run /\ run[w].addr \in Addresses
  BY <1>1 DEF Run
<1>3. \A t \in Tx : [pc |-> "check", tx |-> t, addr |-> NoAddress] \in Run
  BY DEF Run, RunPc, Addresses
<1>4. \A r \in Run : [run EXCEPT ![w] = r] \in [Workers -> Run]
  <2>1. run \in [Workers -> Run]
    OBVIOUS
  <2> QED BY <2>1
<1>5. Finish(w) => run' \in [Workers -> Run]
  BY <1>4, NoRunType DEF Finish
<1>6. \A t \in Tx : Emit(w, t) => run' \in [Workers -> Run]
  BY <1>3, <1>4 DEF Emit
<1>7. \A pc \in RunPc : Goto(w, pc) => run' \in [Workers -> Run]
  BY <1>2, <1>4 DEF Goto
<1>8. \A pc \in RunPc, a \in Addresses : Hold(w, pc, a) => run' \in [Workers -> Run]
  BY <1>2, <1>4 DEF Hold
<1> QED
  BY <1>5, <1>6, <1>7, <1>8

LEMMA BumpType ==
    ASSUME NEW f \in [Tx -> Nat], NEW w
    PROVE  Bump(f, w) \in [Tx -> Nat]
<1> DEFINE x == run[w].tx
           g == [f EXCEPT ![x] = f[x] + 1]
<1>1. \A t \in Tx : g[t] \in Nat
  OBVIOUS
<1>2. g \in [Tx -> Nat]
  BY <1>1, Zenon
<1> QED BY <1>2 DEF Bump

\* Every step of a payment handler keeps the types, where it works on a
\* transaction that exists.
LEMMA PayType ==
    ASSUME TypeOK, PayNext, UNCHANGED dbVars,
           \A w \in Workers : req[w].pc # "idle" => req[w].tx \in Tx
    PROVE  TypeOK'
<1> USE DEF TypeOK, PayTypeOK, LisTypeOK, dbVars
<1>1. ASSUME NEW w \in Workers, HandlerStep(w) PROVE TypeOK'
  <2>0. req[w] \in Request /\ req[w].write \in Status
    BY DEF Request
  <2> USE <2>0, RequestType, RunType DEF ReqPc, Status, Gateway
  <2>1. CASE FlwInitAccepted(w) BY <2>1 DEF FlwInitAccepted
  <2>2. CASE DpoInitCreate(w) BY <2>2 DEF DpoInitCreate
  <2>3. CASE FlwVerifyPaid(w) BY <2>3 DEF FlwVerifyPaid
  <2>4. CASE FlwVerifyFailed(w) BY <2>4 DEF FlwVerifyFailed
  <2>5. CASE FlwVerifyOther(w) BY <2>5 DEF FlwVerifyOther
  <2>6. CASE DpoVerifyPaid(w) BY <2>6 DEF DpoVerifyPaid
  <2>7. CASE DpoVerifyOther(w) BY <2>7 DEF DpoVerifyOther
  <2>8. CASE DpoWebhookAnswer(w) BY <2>8 DEF DpoWebhookAnswer
  <2>9. CASE Save(w) BY <2>9 DEF Save
  <2>10. CASE Publish(w) BY <2>10 DEF Publish
  <2>11. CASE WalletRow(w) BY <2>11 DEF WalletRow
  <2> QED BY <1>1, <2>1, <2>2, <2>3, <2>4, <2>5, <2>6, <2>7, <2>8, <2>9, <2>10, <2>11
          DEF HandlerStep
<1>2. ASSUME NEW w \in Workers, RequestThrows(w) PROVE TypeOK'
  BY <1>2, RequestType DEF RequestThrows
<1>3. ASSUME NEW w \in Workers, NEW t \in Tx, ClientStep(w, t) PROVE TypeOK'
  <2> USE RequestType DEF ReqPc, Status, Gateway
  <2>1. CASE FlwInitCreate(w, t)
    <3>1. [NoRequest EXCEPT !.pc = "flwInit", !.tx = t] \in Request
      BY DEF NoRequest, Request
    <3> QED BY <2>1, <3>1 DEF FlwInitCreate
  <2>2. CASE DpoInitToken(w, t) BY <2>2 DEF DpoInitToken
  <2>3. CASE WalletDebit(w, t) BY <2>3 DEF WalletDebit
  <2>4. CASE RequestVerify(w, t) BY <2>4 DEF RequestVerify
  <2>5. CASE FlwWebhookPaid(w, t)
    <3>1. [pc |-> "save", tx |-> t, seen |-> status[t], write |-> "successful", then |-> TRUE] \in Request
      BY DEF Request
    <3> QED BY <2>5, <3>1 DEF FlwWebhookPaid
  <2>6. CASE FlwWebhookFailed(w, t)
    <3>1. [pc |-> "save", tx |-> t, seen |-> status[t], write |-> "failed", then |-> FALSE] \in Request
      BY DEF Request
    <3> QED BY <2>6, <3>1 DEF FlwWebhookFailed
  <2>7. CASE DpoWebhook(w, t) BY <2>7 DEF DpoWebhook
  <2> QED BY <1>3, <2>1, <2>2, <2>3, <2>4, <2>5, <2>6, <2>7 DEF ClientStep
<1>4. ASSUME NEW t \in Tx, Charge(t) \/ Decline(t) PROVE TypeOK'
  BY <1>4 DEF Charge, Decline, Gateway
<1> QED BY <1>1, <1>2, <1>3, <1>4 DEF PayNext

\* Every step of a listener run, and of the project's status, keeps the types.
LEMMA LisType ==
    ASSUME TypeOK, LisNext, UNCHANGED payVars
    PROVE  TypeOK'
<1> USE DEF TypeOK, PayTypeOK, LisTypeOK, payVars
<1>1. ASSUME NEW w \in Workers, RunStep(w) PROVE TypeOK'
  <2> USE RunType, BumpType DEF RunPc, Addresses
  <2>1. CASE RunCheck(w) BY <2>1 DEF RunCheck
  <2>2. CASE RunCreate(w) BY <2>2 DEF RunCreate
  <2>3. CASE RunFund(w) BY <2>3 DEF RunFund
  <2>4. CASE RunIncrement(w) BY <2>4 DEF RunIncrement
  <2>5. CASE RunDonor(w) BY <2>5 DEF RunDonor
  <2>6. CASE RunCredit(w) BY <2>6 DEF RunCredit
  <2>7. CASE RunCustody(w) BY <2>7 DEF RunCustody
  <2>8. CASE RunKeygen(w) BY <2>8 DEF RunKeygen
  <2>9. CASE RunMint(w)
    <3>1. run[w].addr \in Addresses BY DEF Run
    <3> QED BY <2>9, <3>1 DEF RunMint
  <2>10. CASE RunRecord(w) BY <2>10 DEF RunRecord
  <2>11. CASE RunStamp(w) BY <2>11 DEF RunStamp
  <2> QED BY <1>1, <2>1, <2>2, <2>3, <2>4, <2>5, <2>6, <2>7, <2>8, <2>9, <2>10, <2>11
          DEF RunStep
<1>2. ASSUME NEW w \in Workers, RunThrows(w) PROVE TypeOK'
  BY <1>2, RunType DEF RunThrows, RunPc
<1>3. ASSUME ProjectStep PROVE TypeOK'
  BY <1>3 DEF ProjectStep, Decide, OpenFunding, ProjectStatuses
<1> QED BY <1>1, <1>2, <1>3 DEF LisNext

LEMMA NextType ==
    ASSUME TypeOK, Backed, [Next]_vars
    PROVE  TypeOK'
<1>1. CASE PayNext /\ UNCHANGED dbVars BY <1>1, PayType DEF Backed
<1>2. CASE LisNext /\ UNCHANGED payVars BY <1>2, LisType
<1>3. CASE Crash
  BY <1>3, NoRunType, NoRequestType DEF Crash, TypeOK, PayTypeOK, LisTypeOK, dbVars
<1>4. CASE UNCHANGED vars
  BY <1>4 DEF vars, TypeOK, PayTypeOK, LisTypeOK
<1> QED BY <1>1, <1>2, <1>3, <1>4 DEF Next

\* What Save does to the requests and to the statuses.
LEMMA SaveRequests ==
    ASSUME TypeOK, NEW w \in Workers, Save(w)
    PROVE  /\ \A v \in Workers \ {w} : req'[v] = req[v]
           /\ req'[w].pc \in {"emit", "idle"}
           /\ req'[w].pc = "emit" => req[w].then /\ req'[w].tx = req[w].tx
           /\ \A t \in Tx : status'[t] # status[t] => t = req[w].tx /\ status'[t] = req[w].write
<1>1. req \in [Workers -> Request] /\ req[w] \in Request /\ status \in [Tx -> Status]
  BY DEF TypeOK, PayTypeOK
<1>2. CASE req[w].then
  <2>1. req' = [req EXCEPT ![w] = [req[w] EXCEPT !.pc = "emit"]]
    BY <1>2 DEF Save
  <2>2. req'[w].pc = "emit" /\ req'[w].tx = req[w].tx
    BY <1>1, <2>1 DEF Request
  <2> QED BY <1>1, <1>2, <2>1, <2>2 DEF Save
<1>3. CASE ~ req[w].then
  BY <1>1, <1>3 DEF Save, Return, NoRequest
<1> QED BY <1>2, <1>3

-----------------------------------------------------------------------------
(* A gateway entry is opened once, so paid money stays paid.               *)

LEMMA OpenedOnceStep ==
    ASSUME TypeOK, OpenedOnce, Backed, [Next]_vars
    PROVE  OpenedOnce'
<1> USE TxAssumption DEF TypeOK, PayTypeOK, OpenedOnce, Tx
<1>1. ASSUME NEW w \in Workers, HandlerStep(w) PROVE OpenedOnce'
  <2> USE DEF Saving, Return, NoRequest
  <2>1. CASE FlwInitAccepted(w) BY <2>1 DEF FlwInitAccepted
  <2>2. CASE DpoInitCreate(w) BY <2>2 DEF DpoInitCreate
  <2>3. CASE FlwVerifyPaid(w) BY <2>3 DEF FlwVerifyPaid
  <2>4. CASE FlwVerifyFailed(w) BY <2>4 DEF FlwVerifyFailed
  <2>5. CASE FlwVerifyOther(w) BY <2>5 DEF FlwVerifyOther
  <2>6. CASE DpoVerifyPaid(w) BY <2>6 DEF DpoVerifyPaid
  <2>7. CASE DpoVerifyOther(w) BY <2>7 DEF DpoVerifyOther
  <2>8. CASE DpoWebhookAnswer(w) BY <2>8 DEF DpoWebhookAnswer
  <2>9. CASE Save(w)
    <3>1. \A t \in Tx : status'[t] = "none" => status[t] = "none"
      BY <2>9 DEF Save, Backed
    <3>2. \A v \in Workers : req'[v].pc \in {"flwInit", "dpoInit"} => req'[v] = req[v]
      BY <2>9, SaveRequests
    <3> QED BY <2>9, <3>1, <3>2 DEF Save
  <2>10. CASE Publish(w) BY <2>10 DEF Publish
  <2>11. CASE WalletRow(w) BY <2>11 DEF WalletRow
  <2> QED BY <1>1, <2>1, <2>2, <2>3, <2>4, <2>5, <2>6, <2>7, <2>8, <2>9, <2>10, <2>11
          DEF HandlerStep
<1>2. ASSUME NEW w \in Workers, RequestThrows(w) PROVE OpenedOnce'
  BY <1>2 DEF RequestThrows, Return, NoRequest
<1>3. ASSUME NEW w \in Workers, NEW t \in Tx, ClientStep(w, t) PROVE OpenedOnce'
  <2> USE DEF Await, Free, NoRequest
  <2>1. CASE FlwInitCreate(w, t) BY <2>1 DEF FlwInitCreate
  <2>2. CASE DpoInitToken(w, t) BY <2>2 DEF DpoInitToken
  <2>3. CASE WalletDebit(w, t) BY <2>3 DEF WalletDebit
  <2>4. CASE RequestVerify(w, t) BY <2>4 DEF RequestVerify
  <2>5. CASE FlwWebhookPaid(w, t) BY <2>5 DEF FlwWebhookPaid
  <2>6. CASE FlwWebhookFailed(w, t) BY <2>6 DEF FlwWebhookFailed
  <2>7. CASE DpoWebhook(w, t) BY <2>7 DEF DpoWebhook
  <2> QED BY <1>3, <2>1, <2>2, <2>3, <2>4, <2>5, <2>6, <2>7 DEF ClientStep
<1>4. ASSUME NEW t \in Tx, Charge(t) \/ Decline(t) PROVE OpenedOnce'
  BY <1>4 DEF Charge, Decline
<1>5. CASE LisNext /\ UNCHANGED payVars BY <1>5 DEF payVars
<1>6. CASE Crash BY <1>6 DEF Crash, NoRequest
<1>7. CASE UNCHANGED vars BY <1>7 DEF vars
<1> QED BY <1>1, <1>2, <1>3, <1>4, <1>5, <1>6, <1>7 DEF Next, PayNext

\* Money that was taken is never forgotten by the gateway.
LEMMA PaidIsFinal ==
    ASSUME TypeOK, OpenedOnce, [Next]_vars, NEW t \in Tx, Paid(t)
    PROVE  Paid(t)'
<1> USE DEF TypeOK, PayTypeOK, OpenedOnce, Paid
<1>1. ASSUME NEW w \in Workers, HandlerStep(w) PROVE Paid(t)'
  BY <1>1 DEF HandlerStep, FlwInitAccepted, DpoInitCreate, FlwVerifyPaid, FlwVerifyFailed,
     FlwVerifyOther, DpoVerifyPaid, DpoVerifyOther, DpoWebhookAnswer, Save, Publish, WalletRow
<1>2. ASSUME NEW w \in Workers, RequestThrows(w) PROVE Paid(t)'
  BY <1>2 DEF RequestThrows
<1>3. ASSUME NEW w \in Workers, NEW u \in Tx, ClientStep(w, u) PROVE Paid(t)'
  BY <1>3 DEF ClientStep, FlwInitCreate, DpoInitToken, WalletDebit, RequestVerify,
     FlwWebhookPaid, FlwWebhookFailed, DpoWebhook
<1>4. ASSUME NEW u \in Tx, Charge(u) \/ Decline(u) PROVE Paid(t)'
  BY <1>4 DEF Charge, Decline
<1>5. CASE LisNext /\ UNCHANGED payVars BY <1>5 DEF payVars
<1>6. CASE Crash BY <1>6 DEF Crash
<1>7. CASE UNCHANGED vars BY <1>7 DEF vars
<1> QED BY <1>1, <1>2, <1>3, <1>4, <1>5, <1>6, <1>7 DEF Next, PayNext
-----------------------------------------------------------------------------
(* Success always stands for money that was taken.                         *)

LEMMA BackedStep ==
    ASSUME TypeOK, OpenedOnce, Backed, [Next]_vars
    PROVE  Backed'
<1>0. \A t \in Tx : Paid(t) => Paid(t)'
  BY PaidIsFinal
<1> USE <1>0 DEF TypeOK, PayTypeOK, LisTypeOK, Backed
<1>1. ASSUME NEW w \in Workers, HandlerStep(w), UNCHANGED dbVars PROVE Backed'
  <2> USE <1>1 DEF Saving, Return, NoRequest, Emit, dbVars
  <2>1. CASE FlwInitAccepted(w) BY <2>1 DEF FlwInitAccepted
  <2>2. CASE DpoInitCreate(w) BY <2>2 DEF DpoInitCreate
  <2>3. CASE FlwVerifyPaid(w) BY <2>3 DEF FlwVerifyPaid, Paid
  <2>4. CASE FlwVerifyFailed(w) BY <2>4 DEF FlwVerifyFailed
  <2>5. CASE FlwVerifyOther(w) BY <2>5 DEF FlwVerifyOther
  <2>6. CASE DpoVerifyPaid(w) BY <2>6 DEF DpoVerifyPaid, Paid
  <2>7. CASE DpoVerifyOther(w) BY <2>7 DEF DpoVerifyOther
  <2>8. CASE DpoWebhookAnswer(w) BY <2>8 DEF DpoWebhookAnswer, Paid
  <2>9. CASE Save(w)
    <3>1. run' = run /\ notices' = notices /\ req[w].pc = "save"
      BY <2>9 DEF Save
    <3>2. req[w].tx \in Tx
      BY <3>1
    <3> HIDE DEF Saving, Return, NoRequest, Emit
    <3>3. \A v \in Workers : req'[v].pc # "idle" => req'[v].tx \in Tx
      BY <2>9, <3>2, SaveRequests
    <3>4. \A v \in Workers : req'[v].pc = "save" => v # w /\ req'[v] = req[v]
      BY <2>9, SaveRequests
    <3>5. req[w].then \/ req[w].write = "successful" => gateway'[req[w].tx] = "paid"
      BY <3>1, <3>2, <2>9 DEF Save, Paid
    <3>6. \A v \in Workers : req'[v].pc \in {"emit", "walletRow"} => gateway'[req'[v].tx] = "paid"
      <4>1. CASE req'[w].pc = "emit"
        <5>1. gateway'[req'[w].tx] = "paid"
          BY <2>9, <3>5, <4>1, SaveRequests
        <5>2. gateway' = gateway BY <2>9 DEF Save
        <5> QED BY <2>9, <5>1, <5>2, SaveRequests DEF Paid
      <4>2. CASE req'[w].pc # "emit"
        <5>1. gateway' = gateway BY <2>9 DEF Save
        <5> QED BY <2>9, <4>2, <5>1, SaveRequests DEF Paid
      <4> QED BY <4>1, <4>2
    <3>7. \A t \in Tx : status'[t] = "successful" => gateway'[t] = "paid"
      <4> SUFFICES ASSUME NEW t \in Tx, status'[t] = "successful" PROVE gateway'[t] = "paid"
        OBVIOUS
      <4>1. CASE status'[t] = status[t] BY <4>1, <2>9 DEF Save, Paid
      <4>2. CASE status'[t] # status[t]
        <5>1. t = req[w].tx /\ req[w].write = "successful"
          BY <2>9, <4>2, SaveRequests
        <5> QED BY <3>5, <5>1
      <4> QED BY <4>1, <4>2
    <3>8. gateway' = gateway BY <2>9 DEF Save
    <3> QED BY <3>1, <3>3, <3>4, <3>6, <3>7, <3>8, <2>9 DEF Paid
  <2>10. CASE Publish(w) BY <2>10 DEF Publish
  <2>11. CASE WalletRow(w) BY <2>11 DEF WalletRow
  <2> QED BY <2>1, <2>2, <2>3, <2>4, <2>5, <2>6, <2>7, <2>8, <2>9, <2>10, <2>11
          DEF HandlerStep
<1>2. ASSUME NEW w \in Workers, RequestThrows(w), UNCHANGED dbVars PROVE Backed'
  BY <1>2 DEF RequestThrows, Return, NoRequest, dbVars
<1>3. ASSUME NEW w \in Workers, NEW t \in Tx, ClientStep(w, t), UNCHANGED dbVars PROVE Backed'
  <2> USE <1>3 DEF Await, NoRequest, dbVars
  <2>1. CASE FlwInitCreate(w, t) BY <2>1 DEF FlwInitCreate
  <2>2. CASE DpoInitToken(w, t) BY <2>2 DEF DpoInitToken
  <2>3. CASE WalletDebit(w, t) BY <2>3 DEF WalletDebit, Paid
  <2>4. CASE RequestVerify(w, t) BY <2>4 DEF RequestVerify
  <2>5. CASE FlwWebhookPaid(w, t) BY <2>5 DEF FlwWebhookPaid
  <2>6. CASE FlwWebhookFailed(w, t) BY <2>6 DEF FlwWebhookFailed
  <2>7. CASE DpoWebhook(w, t) BY <2>7 DEF DpoWebhook
  <2> QED BY <2>1, <2>2, <2>3, <2>4, <2>5, <2>6, <2>7 DEF ClientStep
<1>4. ASSUME NEW t \in Tx, Charge(t) \/ Decline(t), UNCHANGED dbVars PROVE Backed'
  BY <1>4 DEF Charge, Decline, Paid, dbVars
<1>5. ASSUME NEW w \in Workers, RunStep(w), UNCHANGED payVars PROVE Backed'
  <2> USE <1>5 DEF Goto, Hold, Finish, Bump, NoRun, payVars
  <2>1. CASE RunCheck(w) BY <2>1 DEF RunCheck
  <2>2. CASE RunCreate(w) BY <2>2 DEF RunCreate
  <2>3. CASE RunFund(w) BY <2>3 DEF RunFund
  <2>4. CASE RunIncrement(w) BY <2>4 DEF RunIncrement
  <2>5. CASE RunDonor(w) BY <2>5 DEF RunDonor
  <2>6. CASE RunCredit(w) BY <2>6 DEF RunCredit
  <2>7. CASE RunCustody(w)
    <3>1. CASE address = NoAddress BY <2>7, <3>1 DEF RunCustody
    <3>2. CASE address # NoAddress BY <2>7, <3>2 DEF RunCustody
    <3> QED BY <3>1, <3>2
  <2>8. CASE RunKeygen(w) BY <2>8 DEF RunKeygen
  <2>9. CASE RunMint(w) BY <2>9 DEF RunMint
  <2>10. CASE RunRecord(w) BY <2>10 DEF RunRecord
  <2>11. CASE RunStamp(w) BY <2>11 DEF RunStamp
  <2> QED BY <2>1, <2>2, <2>3, <2>4, <2>5, <2>6, <2>7, <2>8, <2>9, <2>10, <2>11 DEF RunStep
<1>6. ASSUME NEW w \in Workers, RunThrows(w), UNCHANGED payVars PROVE Backed'
  BY <1>6 DEF RunThrows, Goto, Finish, NoRun, payVars
<1>7. CASE ProjectStep /\ UNCHANGED payVars
  BY <1>7 DEF ProjectStep, Decide, OpenFunding, payVars
<1>8. CASE Crash BY <1>8 DEF Crash, NoRequest, NoRun, dbVars
<1>9. CASE UNCHANGED vars BY <1>9 DEF vars
<1> QED BY <1>1, <1>2, <1>3, <1>4, <1>5, <1>6, <1>7, <1>8, <1>9 DEF Next, PayNext, LisNext

-----------------------------------------------------------------------------
(* The counts agree.                                                       *)

Counts(t, inv, don, rai, cre, min, rec, R) ==
    /\ rai[t] + RunsAt(R, t, ToRaise) <= inv[t]
    /\ don[t] + RunsAt(R, t, {"donor"}) <= rai[t]
    /\ cre[t] + RunsAt(R, t, {"credit"}) <= don[t]
    /\ min[t] + RunsAt(R, t, ToMint) <= inv[t]
    /\ rec[t] + RunsAt(R, t, {"record"}) <= min[t]
    /\ inv[t] = 0 \/ inv[t] + RunsAt(R, t, {"create"}) <= Cardinality(Workers)

\* CountsAgree, its primed form written out.
LEMMA CountsWritten ==
    /\ CountsAgree <=> \A t \in Tx : Counts(t, investments, donorRecords, raised, credited,
                                            minted, recorded, run)
    /\ CountsAgree' <=> \A t \in Tx : Counts(t, investments', donorRecords', raised', credited',
                                             minted', recorded', run')
  BY DEF CountsAgree, Counts

LEMMA StepMoves ==
    ASSUME NEW w \in Workers, NEW t, NEW P, OthersStay(run, run', w)
    PROVE  RunsAt(run', t, P) = RunsAt(run, t, P) + In(run'[w], t, P) - In(run[w], t, P)
  BY RunsAtMove

\* Worker w's run moves from run[w] to run'[w]: every count moves with it.
LEMMA RunMoves ==
    ASSUME NEW w \in Workers, OthersStay(run, run', w), NEW t, NEW P
    PROVE  /\ RunsAt(run', t, P) = RunsAt(run, t, P) + In(run'[w], t, P) - In(run[w], t, P)
           /\ RunsAt(run, t, P) \in Nat /\ RunsAt(run', t, P) \in Nat
           /\ In(run[w], t, P) \in {0, 1} /\ In(run'[w], t, P) \in {0, 1}
<1>1. RunsAt(run, t, P) \in Nat /\ RunsAt(run', t, P) \in Nat
  BY RunsAtType
<1>2. In(run[w], t, P) \in {0, 1} /\ In(run'[w], t, P) \in {0, 1}
  BY DEF In
<1> QED BY <1>1, <1>2, StepMoves, Zenon

\* A step of worker w's run that adds to a count what it takes from the runs
\* about to add to it.
Balanced(w) ==
    \A t \in Tx :
        /\ raised'[t] + In(run'[w], t, ToRaise) + investments[t]
             <= raised[t] + In(run[w], t, ToRaise) + investments'[t]
        /\ donorRecords'[t] + In(run'[w], t, {"donor"}) + raised[t]
             <= donorRecords[t] + In(run[w], t, {"donor"}) + raised'[t]
        /\ credited'[t] + In(run'[w], t, {"credit"}) + donorRecords[t]
             <= credited[t] + In(run[w], t, {"credit"}) + donorRecords'[t]
        /\ minted'[t] + In(run'[w], t, ToMint) + investments[t]
             <= minted[t] + In(run[w], t, ToMint) + investments'[t]
        /\ recorded'[t] + In(run'[w], t, {"record"}) + minted[t]
             <= recorded[t] + In(run[w], t, {"record"}) + minted'[t]
        /\ investments'[t] = 0
             \/ investments'[t] + In(run'[w], t, {"create"})
                  <= investments[t] + In(run[w], t, {"create"})

LEMMA BalancedKeepsCounts ==
    ASSUME TypeOK, TypeOK', CountsAgree, NEW w \in Workers, OthersStay(run, run', w), Balanced(w)
    PROVE  CountsAgree'
<1> SUFFICES ASSUME NEW t \in Tx
             PROVE  Counts(t, investments', donorRecords', raised', credited',
                           minted', recorded', run')
  BY CountsWritten
<1>1. Counts(t, investments, donorRecords, raised, credited, minted, recorded, run)
  BY CountsWritten
<1>2. /\ investments[t] \in Nat /\ donorRecords[t] \in Nat /\ raised[t] \in Nat
      /\ credited[t] \in Nat /\ minted[t] \in Nat /\ recorded[t] \in Nat
      /\ investments'[t] \in Nat /\ donorRecords'[t] \in Nat /\ raised'[t] \in Nat
      /\ credited'[t] \in Nat /\ minted'[t] \in Nat /\ recorded'[t] \in Nat
  BY DEF TypeOK, LisTypeOK
<1>3. raised'[t] + RunsAt(run', t, ToRaise) <= investments'[t]
  <2>1. /\ RunsAt(run', t, ToRaise) = RunsAt(run, t, ToRaise)
                 + In(run'[w], t, ToRaise) - In(run[w], t, ToRaise)
        /\ RunsAt(run, t, ToRaise) \in Nat /\ RunsAt(run', t, ToRaise) \in Nat
        /\ In(run[w], t, ToRaise) \in {0, 1} /\ In(run'[w], t, ToRaise) \in {0, 1}
    BY RunMoves
  <2> QED BY <2>1, <1>1, <1>2 DEF Balanced, Counts
<1>4. donorRecords'[t] + RunsAt(run', t, {"donor"}) <= raised'[t]
  <2>1. /\ RunsAt(run', t, {"donor"}) = RunsAt(run, t, {"donor"})
                 + In(run'[w], t, {"donor"}) - In(run[w], t, {"donor"})
        /\ RunsAt(run, t, {"donor"}) \in Nat /\ RunsAt(run', t, {"donor"}) \in Nat
        /\ In(run[w], t, {"donor"}) \in {0, 1} /\ In(run'[w], t, {"donor"}) \in {0, 1}
    BY RunMoves
  <2> QED BY <2>1, <1>1, <1>2 DEF Balanced, Counts
<1>5. credited'[t] + RunsAt(run', t, {"credit"}) <= donorRecords'[t]
  <2>1. /\ RunsAt(run', t, {"credit"}) = RunsAt(run, t, {"credit"})
                 + In(run'[w], t, {"credit"}) - In(run[w], t, {"credit"})
        /\ RunsAt(run, t, {"credit"}) \in Nat /\ RunsAt(run', t, {"credit"}) \in Nat
        /\ In(run[w], t, {"credit"}) \in {0, 1} /\ In(run'[w], t, {"credit"}) \in {0, 1}
    BY RunMoves
  <2> QED BY <2>1, <1>1, <1>2 DEF Balanced, Counts
<1>6. minted'[t] + RunsAt(run', t, ToMint) <= investments'[t]
  <2>1. /\ RunsAt(run', t, ToMint) = RunsAt(run, t, ToMint)
                 + In(run'[w], t, ToMint) - In(run[w], t, ToMint)
        /\ RunsAt(run, t, ToMint) \in Nat /\ RunsAt(run', t, ToMint) \in Nat
        /\ In(run[w], t, ToMint) \in {0, 1} /\ In(run'[w], t, ToMint) \in {0, 1}
    BY RunMoves
  <2> QED BY <2>1, <1>1, <1>2 DEF Balanced, Counts
<1>7. recorded'[t] + RunsAt(run', t, {"record"}) <= minted'[t]
  <2>1. /\ RunsAt(run', t, {"record"}) = RunsAt(run, t, {"record"})
                 + In(run'[w], t, {"record"}) - In(run[w], t, {"record"})
        /\ RunsAt(run, t, {"record"}) \in Nat /\ RunsAt(run', t, {"record"}) \in Nat
        /\ In(run[w], t, {"record"}) \in {0, 1} /\ In(run'[w], t, {"record"}) \in {0, 1}
    BY RunMoves
  <2> QED BY <2>1, <1>1, <1>2 DEF Balanced, Counts
<1>8. investments'[t] = 0
        \/ investments'[t] + RunsAt(run', t, {"create"}) <= Cardinality(Workers)
  <2>1. /\ RunsAt(run', t, {"create"}) = RunsAt(run, t, {"create"})
                 + In(run'[w], t, {"create"}) - In(run[w], t, {"create"})
        /\ RunsAt(run, t, {"create"}) \in Nat /\ RunsAt(run', t, {"create"}) \in Nat
        /\ In(run[w], t, {"create"}) \in {0, 1} /\ In(run'[w], t, {"create"}) \in {0, 1}
    BY RunMoves
  <2>2. RunsAt(run, t, {"create"}) <= Cardinality(Workers) /\ Cardinality(Workers) \in Nat
    BY RunsAtType
  <2> QED BY <2>1, <2>2, <1>1, <1>2 DEF Balanced, Counts
<1> QED BY <1>3, <1>4, <1>5, <1>6, <1>7, <1>8 DEF Counts

\* Every step of a listener run is balanced: it moves a run on by adding to the
\* count it was about to add to, and starts no run.
LEMMA RunBalanced ==
    ASSUME TypeOK, NEW w \in Workers, RunStep(w) \/ RunThrows(w)
    PROVE  OthersStay(run, run', w) /\ Balanced(w)
<1>1. OthersStay(run, run', w)
  BY DEF TypeOK, LisTypeOK, OthersStay, RunStep, RunThrows, Goto, Hold, Finish, RunCheck, RunCreate,
     RunFund, RunIncrement, RunDonor, RunCredit, RunCustody, RunKeygen, RunMint, RunRecord, RunStamp
<1>2. SUFFICES ASSUME NEW t \in Tx
      PROVE  /\ raised'[t] + In(run'[w], t, ToRaise) + investments[t]
                  <= raised[t] + In(run[w], t, ToRaise) + investments'[t]
             /\ donorRecords'[t] + In(run'[w], t, {"donor"}) + raised[t]
                  <= donorRecords[t] + In(run[w], t, {"donor"}) + raised'[t]
             /\ credited'[t] + In(run'[w], t, {"credit"}) + donorRecords[t]
                  <= credited[t] + In(run[w], t, {"credit"}) + donorRecords'[t]
             /\ minted'[t] + In(run'[w], t, ToMint) + investments[t]
                  <= minted[t] + In(run[w], t, ToMint) + investments'[t]
             /\ recorded'[t] + In(run'[w], t, {"record"}) + minted[t]
                  <= recorded[t] + In(run[w], t, {"record"}) + minted'[t]
             /\ investments'[t] = 0
                  \/ investments'[t] + In(run'[w], t, {"create"})
                       <= investments[t] + In(run[w], t, {"create"})
  BY <1>1 DEF Balanced
<1>3. /\ investments \in [Tx -> Nat] /\ donorRecords \in [Tx -> Nat] /\ raised \in [Tx -> Nat]
      /\ credited \in [Tx -> Nat] /\ minted \in [Tx -> Nat] /\ recorded \in [Tx -> Nat]
      /\ run \in [Workers -> Run]
  BY DEF TypeOK, LisTypeOK
<1> USE <1>3 DEF In, ToRaise, ToMint, Goto, Hold, Finish, Bump, NoRun
<1>4. CASE RunCheck(w) BY <1>4 DEF RunCheck
<1>5. CASE RunCreate(w) BY <1>5 DEF RunCreate
<1>6. CASE RunFund(w) BY <1>6 DEF RunFund
<1>7. CASE RunIncrement(w) BY <1>7 DEF RunIncrement
<1>8. CASE RunDonor(w) BY <1>8 DEF RunDonor
<1>9. CASE RunCredit(w) BY <1>9 DEF RunCredit
<1>10. CASE RunCustody(w) BY <1>10 DEF RunCustody
<1>11. CASE RunKeygen(w) BY <1>11 DEF RunKeygen
<1>12. CASE RunMint(w) BY <1>12 DEF RunMint
<1>13. CASE RunRecord(w) BY <1>13 DEF RunRecord
<1>14. CASE RunStamp(w) BY <1>14 DEF RunStamp
<1>15. CASE RunThrows(w) BY <1>15 DEF RunThrows
<1> QED BY <1>4, <1>5, <1>6, <1>7, <1>8, <1>9, <1>10, <1>11, <1>12, <1>13, <1>14, <1>15 DEF RunStep

\* All a payment handler does to a listener run is to start one.
LEMMA OnlyEmits ==
    ASSUME PayNext
    PROVE  run' = run \/ \E w \in Workers : Emit(w, req[w].tx)
  BY DEF PayNext, HandlerStep, RequestThrows, ClientStep, Charge, Decline, FlwInitAccepted,
     DpoInitCreate, FlwVerifyPaid, FlwVerifyFailed, FlwVerifyOther, DpoVerifyPaid,
     DpoVerifyOther, DpoWebhookAnswer, Save, Publish, WalletRow, FlwInitCreate, DpoInitToken,
     WalletDebit, RequestVerify, FlwWebhookPaid, FlwWebhookFailed, DpoWebhook

LEMMA CountsAgreeStep ==
    ASSUME TypeOK, TypeOK', CountsAgree, [Next]_vars
    PROVE  CountsAgree'
<1>1. \A w \in Workers : OthersStay(run, run', w) /\ Balanced(w) => CountsAgree'
  BY BalancedKeepsCounts
<1>2. CASE run' = run /\ UNCHANGED dbVars
  BY <1>2 DEF CountsAgree, RunsAt, dbVars
<1>3. ASSUME NEW w \in Workers, NEW t, Emit(w, t), UNCHANGED dbVars PROVE CountsAgree'
  <2>1. OthersStay(run, run', w) /\ run'[w].pc = "check"
    BY <1>3 DEF Emit, OthersStay, TypeOK, LisTypeOK
  <2>2. /\ investments \in [Tx -> Nat] /\ donorRecords \in [Tx -> Nat] /\ raised \in [Tx -> Nat]
        /\ credited \in [Tx -> Nat] /\ minted \in [Tx -> Nat] /\ recorded \in [Tx -> Nat]
    BY DEF TypeOK, LisTypeOK
  <2>3. Balanced(w)
    BY <1>3, <2>1, <2>2 DEF Balanced, In, ToRaise, ToMint, dbVars
  <2> QED BY <1>1, <2>1, <2>3
<1>4. CASE PayNext /\ UNCHANGED dbVars
  BY <1>2, <1>3, <1>4, OnlyEmits
<1>5. ASSUME NEW w \in Workers, RunStep(w) \/ RunThrows(w) PROVE CountsAgree'
  BY <1>1, <1>5, RunBalanced
<1>6. CASE ProjectStep
  BY <1>6 DEF ProjectStep, Decide, OpenFunding, CountsAgree, RunsAt
<1>7. CASE Crash
  <2>1. \A t, P : "idle" \notin P => RunsAt(run', t, P) = 0
    BY <1>7, RunsAtIdle DEF Crash
  <2>2. "idle" \notin ToRaise /\ "idle" \notin ToMint
    BY DEF ToRaise, ToMint
  <2> QED BY <1>7, <2>1, <2>2, CountsWritten, RunsAtType DEF Crash, Counts, dbVars, TypeOK, LisTypeOK
<1>8. CASE UNCHANGED vars BY <1>2, <1>8 DEF vars, dbVars
<1> QED BY <1>4, <1>5, <1>6, <1>7, <1>8 DEF Next, LisNext

LEMMA StampsFollowStep ==
    ASSUME TypeOK, StampsFollow, Backed, [Next]_vars
    PROVE  StampsFollow'
<1> USE DEF TypeOK, LisTypeOK, StampsFollow
<1>1. CASE PayNext /\ UNCHANGED dbVars
  BY <1>1, OnlyEmits DEF Emit, dbVars
<1>2. ASSUME NEW w \in Workers, RunStep(w) PROVE StampsFollow'
  <2> USE <1>2 DEF Goto, Hold, Finish, Bump, NoRun
  <2>1. CASE RunCheck(w) BY <2>1 DEF RunCheck
  <2>2. CASE RunCreate(w) BY <2>2 DEF RunCreate
  <2>3. CASE RunFund(w) BY <2>3 DEF RunFund
  <2>4. CASE RunIncrement(w) BY <2>4 DEF RunIncrement
  <2>5. CASE RunDonor(w) BY <2>5 DEF RunDonor
  <2>6. CASE RunCredit(w) BY <2>6 DEF RunCredit
  <2>7. CASE RunCustody(w) BY <2>7 DEF RunCustody
  <2>8. CASE RunKeygen(w) BY <2>8 DEF RunKeygen
  <2>9. CASE RunMint(w) BY <2>9 DEF RunMint
  <2>10. CASE RunRecord(w)
    <3>1. run[w].tx \in Tx
      BY <2>10 DEF RunRecord, Backed
    <3>2. \A t \in Tx : recorded[t] > 0 => recorded'[t] > 0
      BY <2>10, <3>1 DEF RunRecord
    <3>3. recorded'[run[w].tx] > 0
      BY <2>10, <3>1 DEF RunRecord
    <3>4. \A v \in Workers : run'[v].pc = "stamp" => run'[v].tx = run[v].tx /\ run[v].pc \in {"stamp", "record"}
      BY <2>10 DEF RunRecord
    <3>5. \A v \in Workers : run[v].pc # "idle" => run[v].tx \in Tx
      BY DEF Backed
    <3>6. \A v \in Workers : run'[v].pc = "stamp" => recorded'[run'[v].tx] > 0
      <4> SUFFICES ASSUME NEW v \in Workers, run'[v].pc = "stamp" PROVE recorded'[run'[v].tx] > 0
        OBVIOUS
      <4>1. CASE v = w BY <3>3, <3>4, <4>1
      <4>2. CASE v # w
        <5>1. run'[v] = run[v] BY <2>10, <4>2 DEF RunRecord
        <5> QED BY <3>2, <3>5, <5>1
      <4> QED BY <4>1, <4>2
    <3> QED BY <2>10, <3>2, <3>6 DEF RunRecord
  <2>11. CASE RunStamp(w) BY <2>11 DEF RunStamp
  <2> QED BY <2>1, <2>2, <2>3, <2>4, <2>5, <2>6, <2>7, <2>8, <2>9, <2>10, <2>11 DEF RunStep
<1>3. ASSUME NEW w \in Workers, RunThrows(w) PROVE StampsFollow'
  BY <1>3 DEF RunThrows, Goto, Finish, NoRun
<1>4. CASE ProjectStep BY <1>4 DEF ProjectStep, Decide, OpenFunding
<1>5. CASE Crash BY <1>5 DEF Crash, NoRun, dbVars
<1>6. CASE UNCHANGED vars BY <1>6 DEF vars
<1> QED BY <1>1, <1>2, <1>3, <1>4, <1>5, <1>6 DEF Next, LisNext

-----------------------------------------------------------------------------
(* The theorems.                                                           *)

LEMMA InitInv == Init => IInv
<1> SUFFICES ASSUME Init PROVE IInv
  OBVIOUS
<1>1. TypeOK
  BY InitType
<1>2. \A t, P : "idle" \notin P => RunsAt(run, t, P) = 0
  BY RunsAtIdle DEF Init, LisInit
<1>3. CountsAgree
  BY <1>2 DEF CountsAgree, Init, LisInit, ToRaise, ToMint
<1>4. OpenedOnce /\ Backed
  BY DEF Init, PayInit, LisInit, OpenedOnce, Backed, NoRequest, NoRun, Tx
<1>5. StampsFollow
  BY DEF Init, LisInit, StampsFollow, NoRun
<1> QED BY <1>1, <1>3, <1>4, <1>5 DEF IInv

LEMMA NextInv == IInv /\ [Next]_vars => IInv'
<1> SUFFICES ASSUME IInv, [Next]_vars PROVE IInv'
  OBVIOUS
<1>1. TypeOK'
  BY NextType DEF IInv
<1> QED
  BY <1>1, OpenedOnceStep, BackedStep, CountsAgreeStep, StampsFollowStep DEF IInv

\* The inductive invariant holds in every state of the server.
THEOREM Invariance == Spec => []IInv
  BY InitInv, NextInv, PTL DEF Spec

\* Every variable of the handlers and of the listener keeps its type: the
\* in-memory states a handler leaves behind at an await are ones it can resume.
THEOREM TypeCorrect == Spec => []TypeOK
<1>1. IInv => TypeOK
  BY DEF IInv
<1> QED BY <1>1, Invariance, PTL

\* No transaction is stored as successful, and no investment exists for it,
\* unless its money was taken, for any number of concurrent handlers,
\* transactions, late and repeated webhooks, throws and crashes.
THEOREM MoneyIsBehind == Spec => []MoneyBehindEverything
<1>1. IInv => MoneyBehindEverything
  BY DEF IInv, Backed, MoneyBehindEverything
<1> QED BY <1>1, Invariance, PTL

\* Project funding, donor records, creator credits, NFT mints and NFT records
\* never run ahead of the investments they stand for.
THEOREM BooksAlwaysAgree == Spec => []BooksAgree
<1>1. IInv => BooksAgree
  <2> SUFFICES ASSUME IInv PROVE BooksAgree
    OBVIOUS
  <2>1. \A t \in Tx :
          /\ investments[t] \in Nat /\ donorRecords[t] \in Nat /\ raised[t] \in Nat
          /\ credited[t] \in Nat /\ minted[t] \in Nat /\ recorded[t] \in Nat
    BY DEF IInv, TypeOK, LisTypeOK
  <2>2. \A t \in Tx :
          /\ raised[t] <= investments[t] /\ donorRecords[t] <= raised[t]
          /\ credited[t] <= donorRecords[t] /\ minted[t] <= investments[t]
          /\ recorded[t] <= minted[t]
    <3> SUFFICES ASSUME NEW t \in Tx
                 PROVE  /\ raised[t] <= investments[t] /\ donorRecords[t] <= raised[t]
                        /\ credited[t] <= donorRecords[t] /\ minted[t] <= investments[t]
                        /\ recorded[t] <= minted[t]
      OBVIOUS
    <3>1. /\ RunsAt(run, t, ToRaise) \in Nat /\ RunsAt(run, t, {"donor"}) \in Nat
          /\ RunsAt(run, t, {"credit"}) \in Nat /\ RunsAt(run, t, ToMint) \in Nat
          /\ RunsAt(run, t, {"record"}) \in Nat
      BY RunsAtType
    <3> QED BY <2>1, <3>1 DEF IInv, CountsAgree
  <2> QED BY <2>2 DEF IInv, StampsFollow, BooksAgree
<1> QED BY <1>1, Invariance, PTL

\* One payment never becomes more investments than there are requests in
\* progress at a time, however often its event is emitted.
THEOREM CopiesAreBounded == Spec => []CopiesBounded
<1>1. IInv => CopiesBounded
  <2> SUFFICES ASSUME IInv, NEW t \in Tx PROVE investments[t] <= Cardinality(Workers)
    BY DEF CopiesBounded
  <2>1. investments[t] \in Nat /\ Cardinality(Workers) \in Nat /\ RunsAt(run, t, {"create"}) \in Nat
    BY RunsAtType DEF IInv, TypeOK, LisTypeOK
  <2> QED BY <2>1 DEF IInv, CountsAgree
<1> QED BY <1>1, Invariance, PTL

-----------------------------------------------------------------------------
(* The server implements the abstract ledger.                              *)

LEMMA LedgerInit == Init => Ledger!Init
  BY DEF Init, PayInit, LisInit, Ledger!Init, Paid

\* What a step does to the money: nothing, or one payment is taken.
LEMMA MoneyStep ==
    ASSUME TypeOK, OpenedOnce, Backed, [Next]_vars
    PROVE  \/ \A t \in Tx : Paid(t)' = Paid(t)
           \/ \E u \in Tx : /\ ~ Paid(u) /\ Paid(u)'
                            /\ \A t \in Tx : t # u => Paid(t)' = Paid(t)
                            /\ UNCHANGED dbVars
<1> USE TxAssumption DEF TypeOK, PayTypeOK, OpenedOnce, Backed, Paid
<1>1. ASSUME NEW w \in Workers, HandlerStep(w) PROVE \A t \in Tx : Paid(t)' = Paid(t)
  BY <1>1 DEF HandlerStep, FlwInitAccepted, DpoInitCreate, FlwVerifyPaid, FlwVerifyFailed,
     FlwVerifyOther, DpoVerifyPaid, DpoVerifyOther, DpoWebhookAnswer, Save, Publish, WalletRow
<1>2. ASSUME NEW w \in Workers, RequestThrows(w) PROVE \A t \in Tx : Paid(t)' = Paid(t)
  BY <1>2 DEF RequestThrows
<1>3. ASSUME NEW w \in Workers, NEW u \in Tx, ClientStep(w, u), UNCHANGED dbVars
      PROVE  \/ \A t \in Tx : Paid(t)' = Paid(t)
             \/ /\ ~ Paid(u) /\ Paid(u)'
                /\ \A t \in Tx : t # u => Paid(t)' = Paid(t)
                /\ UNCHANGED dbVars
  BY <1>3 DEF ClientStep, FlwInitCreate, DpoInitToken, WalletDebit, RequestVerify,
     FlwWebhookPaid, FlwWebhookFailed, DpoWebhook
<1>4. ASSUME NEW u \in Tx, Charge(u) \/ Decline(u), UNCHANGED dbVars
      PROVE  \/ \A t \in Tx : Paid(t)' = Paid(t)
             \/ /\ ~ Paid(u) /\ Paid(u)'
                /\ \A t \in Tx : t # u => Paid(t)' = Paid(t)
                /\ UNCHANGED dbVars
  BY <1>4 DEF Charge, Decline
<1>5. CASE LisNext /\ UNCHANGED payVars BY <1>5 DEF payVars
<1>6. CASE Crash BY <1>6 DEF Crash
<1>7. CASE UNCHANGED vars BY <1>7 DEF vars
<1> QED BY <1>1, <1>2, <1>3, <1>4, <1>5, <1>6, <1>7 DEF Next, PayNext

\* What a step does to the books: nothing, one investment or one increment of
\* the project's total.
LEMMA BooksStep ==
    ASSUME TypeOK, Backed, [Next]_vars
    PROVE  \/ UNCHANGED <<investments, raised>>
           \/ \E u \in Tx : /\ Paid(u) /\ UNCHANGED <<gateway, raised>>
                            /\ investments' = [investments EXCEPT ![u] = @ + 1]
           \/ \E w \in Workers : /\ run[w].tx \in Tx /\ run[w].pc = "increment"
                                 /\ UNCHANGED <<gateway, investments>>
                                 /\ raised' = [raised EXCEPT ![run[w].tx] = @ + 1]
<1>1. CASE PayNext /\ UNCHANGED dbVars BY <1>1 DEF dbVars
<1>2. ASSUME NEW w \in Workers, RunStep(w) \/ RunThrows(w), UNCHANGED payVars
      PROVE  \/ UNCHANGED <<investments, raised>>
             \/ /\ Paid(run[w].tx) /\ run[w].tx \in Tx /\ UNCHANGED <<gateway, raised>>
                /\ investments' = [investments EXCEPT ![run[w].tx] = @ + 1]
             \/ /\ run[w].tx \in Tx /\ run[w].pc = "increment"
                /\ UNCHANGED <<gateway, investments>>
                /\ raised' = [raised EXCEPT ![run[w].tx] = @ + 1]
  BY <1>2 DEF RunStep, RunThrows, RunCheck, RunCreate, RunFund, RunIncrement, RunDonor, RunCredit,
     RunCustody, RunKeygen, RunMint, RunRecord, RunStamp, Bump, Backed, payVars
<1>3. CASE ProjectStep BY <1>3 DEF ProjectStep, Decide, OpenFunding
<1>4. CASE Crash BY <1>4 DEF Crash, dbVars
<1>5. CASE UNCHANGED vars BY <1>5 DEF vars
<1> QED BY <1>1, <1>2, <1>3, <1>4, <1>5 DEF Next, LisNext

LEMMA LedgerStep ==
    ASSUME IInv, IInv', [Next]_vars
    PROVE  [Ledger!Next]_Ledger!vars
<1> DEFINE money == {t \in Tx : Paid(t)}
<1>0. TypeOK /\ OpenedOnce /\ Backed /\ CountsAgree /\ CountsAgree' /\ TypeOK'
  BY DEF IInv
<1>1. ASSUME NEW u \in Tx, ~ Paid(u), Paid(u)', UNCHANGED dbVars,
             \A t \in Tx : t # u => Paid(t)' = Paid(t)
      PROVE  Ledger!Pay(u)
  BY <1>1 DEF Ledger!Pay, dbVars
<1>2. ASSUME \A t \in Tx : Paid(t)' = Paid(t), UNCHANGED <<investments, raised>>
      PROVE  UNCHANGED Ledger!vars
  BY <1>2 DEF Ledger!vars
<1>3. ASSUME NEW u \in Tx, Paid(u), UNCHANGED <<gateway, raised>>,
             investments' = [investments EXCEPT ![u] = @ + 1]
      PROVE  Ledger!Invest(u)
  <2>1. investments[u] \in Nat /\ investments'[u] = investments[u] + 1
    BY <1>0, <1>3 DEF TypeOK, LisTypeOK
  <2>2. /\ RunsAt(run', u, {"create"}) \in Nat /\ Cardinality(Workers) \in Nat
        /\ investments'[u] = 0
             \/ investments'[u] + RunsAt(run', u, {"create"}) <= Cardinality(Workers)
    BY <1>0, RunsAtType, CountsWritten DEF Counts
  <2>3. investments[u] < Cardinality(Workers)
    BY <2>1, <2>2
  <2> QED BY <1>3, <2>3 DEF Ledger!Invest, Paid
<1>4. ASSUME NEW w \in Workers, run[w].tx \in Tx, run[w].pc = "increment",
             UNCHANGED <<gateway, investments>>,
             raised' = [raised EXCEPT ![run[w].tx] = @ + 1]
      PROVE  Ledger!Raise(run[w].tx)
  <2> DEFINE u == run[w].tx
  <2>1. raised[u] \in Nat /\ investments[u] \in Nat /\ RunsAt(run, u, ToRaise) \in Nat
    BY <1>0, <1>4, RunsAtType DEF TypeOK, LisTypeOK
  <2>2. raised'[u] = raised[u] + 1 /\ raised'[u] \in Nat /\ RunsAt(run', u, ToRaise) \in Nat
    BY <1>0, <1>4, RunsAtType DEF TypeOK, LisTypeOK
  <2>3. raised'[u] + RunsAt(run', u, ToRaise) <= investments'[u]
    BY <1>0, <1>4, CountsWritten DEF Counts
  <2>4. raised[u] < investments[u]
    BY <2>1, <2>2, <2>3, <1>4
  <2> QED BY <1>4, <2>4 DEF Ledger!Raise, Paid
<1>5. CASE \A t \in Tx : Paid(t)' = Paid(t)
  BY <1>0, <1>2, <1>3, <1>4, <1>5, BooksStep DEF Ledger!Next
<1>6. CASE \E u \in Tx : /\ ~ Paid(u) /\ Paid(u)'
                         /\ \A t \in Tx : t # u => Paid(t)' = Paid(t)
                         /\ UNCHANGED dbVars
  BY <1>1, <1>6 DEF Ledger!Next
<1> QED BY <1>0, <1>5, <1>6, MoneyStep

\* Handlers, listener, gateways and crashes together implement the ledger: each
\* of their steps pays, invests paid money within the bound, raises invested
\* money, or changes nothing the ledger sees.
THEOREM ImplementsLedger == Spec => MeetsLedger
<1>1. IInv /\ IInv' /\ [Next]_vars => [Ledger!Next]_Ledger!vars
  BY LedgerStep
<1> QED BY <1>1, LedgerInit, Invariance, PTL DEF Spec, MeetsLedger, Ledger!Spec

-----------------------------------------------------------------------------
(* What exactly must not overlap.                                          *)

\* A run about to create an investment is for a payment that has none.
ChecksOK ==
    /\ InvestedOnce
    /\ \A w \in Workers : run[w].pc = "create" => investments[run[w].tx] = 0

\* A run is about to mint to the address that is stored, and generates a key only
\* when none is.
KeyOK ==
    /\ HoldersKeepTheirKey
    /\ NoAddress \notin holders
    /\ \A w \in Workers :
         /\ run[w].pc = "keygen" => address = NoAddress
         /\ run[w].pc = "mint" => run[w].addr = address /\ address # NoAddress

LEMMA ApartInit == Init => ChecksOK /\ KeyOK
<1>1. Init => ChecksOK
  BY DEF Init, LisInit, ChecksOK, InvestedOnce, NoRun
<1>2. Init => KeyOK
  BY DEF Init, LisInit, KeyOK, HoldersKeepTheirKey, NoRun
<1> QED BY <1>1, <1>2

\* How a step changes the runs: an event starts one, a run moves or ends, or a
\* crash ends them all.
Started(w) == \E t : run' = [run EXCEPT ![w] = [pc |-> "check", tx |-> t, addr |-> NoAddress]]

LEMMA RunsOfHandlers ==
    ASSUME PayNext
    PROVE  run' = run \/ \E w \in Workers : Started(w)
<1>1. ASSUME NEW w \in Workers, HandlerStep(w) \/ RequestThrows(w)
      PROVE  run' = run \/ Started(w)
  BY <1>1 DEF HandlerStep, RequestThrows, FlwInitAccepted, DpoInitCreate, FlwVerifyPaid,
     FlwVerifyFailed, FlwVerifyOther, DpoVerifyPaid, DpoVerifyOther, DpoWebhookAnswer, Save,
     Publish, WalletRow, Emit, Started
<1>2. ASSUME NEW w \in Workers, NEW t \in Tx, ClientStep(w, t) PROVE run' = run
  BY <1>2 DEF ClientStep, FlwInitCreate, DpoInitToken, WalletDebit, RequestVerify,
     FlwWebhookPaid, FlwWebhookFailed, DpoWebhook
<1>3. ASSUME NEW t \in Tx, Charge(t) \/ Decline(t) PROVE run' = run
  BY <1>3 DEF Charge, Decline
<1> QED BY <1>1, <1>2, <1>3 DEF PayNext

LEMMA ChecksStep ==
    ASSUME IInv, ChecksOK, RunsApart, [Next]_vars
    PROVE  ChecksOK'
<1>1. /\ run \in [Workers -> Run] /\ investments \in [Tx -> Nat]
      /\ \A w \in Workers : run[w].pc # "idle" => run[w].tx \in Tx
  BY DEF IInv, TypeOK, LisTypeOK, Backed
<1>2. ASSUME investments' = investments,
             \A w \in Workers : run'[w] = run[w] \/ run'[w].pc # "create"
      PROVE  ChecksOK'
  BY <1>2 DEF ChecksOK, InvestedOnce
<1>3. CASE PayNext /\ UNCHANGED dbVars
  BY <1>1, <1>2, <1>3, RunsOfHandlers DEF Started, dbVars
<1>4. ASSUME NEW w \in Workers, RunStep(w) PROVE ChecksOK'
  <2>1. CASE RunCheck(w)
    <3>1. investments' = investments
      BY <2>1 DEF RunCheck
    <3>2. \A v \in Workers : run'[v] = run[v] \/ run'[v].pc = "idle"
                            \/ (run'[v].pc = "create" /\ investments[run'[v].tx] = 0)
      BY <1>1, <2>1 DEF RunCheck, Goto, Finish, NoRun
    <3> QED BY <3>1, <3>2 DEF ChecksOK, InvestedOnce
  <2>2. CASE RunCreate(w)
    <3> DEFINE t == run[w].tx
    <3>1. /\ t \in Tx /\ investments[t] = 0
          /\ investments' = [investments EXCEPT ![t] = @ + 1]
          /\ run' = [run EXCEPT ![w] = [pc |-> "fund", tx |-> t, addr |-> run[w].addr]]
      BY <1>1, <2>2 DEF RunCreate, Bump, Goto, ChecksOK
    <3>2. InvestedOnce'
      BY <1>1, <3>1 DEF ChecksOK, InvestedOnce
    <3>3. \A v \in Workers \ {w} : run[v].pc = "create" => run[v].tx # t
      BY <2>2 DEF RunsApart, RunCreate
    <3>4. \A v \in Workers : run'[v].pc = "create" => v # w /\ run'[v] = run[v]
      BY <1>1, <3>1
    <3>5. \A v \in Workers : run[v].pc = "create" => run[v].tx \in Tx /\ investments[run[v].tx] = 0
      BY <1>1 DEF ChecksOK
    <3>6. \A v \in Workers : run'[v].pc = "create" => investments'[run'[v].tx] = 0
      <4> HIDE DEF t
      <4> QED BY <1>1, <3>1, <3>3, <3>4, <3>5
    <3> QED BY <3>2, <3>6 DEF ChecksOK
  <2>3. CASE ~ RunCheck(w) /\ ~ RunCreate(w)
    <3>1. investments' = investments
      BY <1>4, <2>3 DEF RunStep, RunFund, RunIncrement, RunDonor, RunCredit, RunCustody, RunKeygen,
         RunMint, RunRecord, RunStamp
    <3>2. \A v \in Workers : run'[v] = run[v] \/ run'[v].pc # "create"
      BY <1>1, <1>4, <2>3 DEF RunStep, RunFund, RunIncrement, RunDonor, RunCredit, RunCustody,
         RunKeygen, RunMint, RunRecord, RunStamp, Goto, Hold, Finish, NoRun
    <3> QED BY <1>2, <3>1, <3>2
  <2> QED BY <2>1, <2>2, <2>3
<1>5. ASSUME NEW w \in Workers, RunThrows(w) PROVE ChecksOK'
  BY <1>1, <1>2, <1>5 DEF RunThrows, Goto, Finish, NoRun
<1>6. CASE ProjectStep
  BY <1>2, <1>6 DEF ProjectStep, Decide, OpenFunding
<1>7. CASE Crash
  BY <1>2, <1>7 DEF Crash, dbVars, NoRun
<1>8. CASE UNCHANGED vars
  BY <1>2, <1>8 DEF vars
<1> QED BY <1>3, <1>4, <1>5, <1>6, <1>7, <1>8 DEF Next, LisNext

LEMMA KeyStep ==
    ASSUME IInv, KeyOK, KeysApart, [Next]_vars
    PROVE  KeyOK'
<1>1. run \in [Workers -> Run] /\ \A w \in Workers : w # NoAddress
  BY WorkersAssumption DEF IInv, TypeOK, LisTypeOK
<1>2. ASSUME UNCHANGED <<address, holders>>,
             \A w \in Workers : run'[w] = run[w] \/ run'[w].pc \notin {"keygen", "mint"}
      PROVE  KeyOK'
  BY <1>2 DEF KeyOK, HoldersKeepTheirKey
<1>3. CASE PayNext /\ UNCHANGED dbVars
  BY <1>1, <1>2, <1>3, RunsOfHandlers DEF Started, dbVars
<1>4. ASSUME NEW w \in Workers, RunStep(w) PROVE KeyOK'
  <2>1. CASE RunCustody(w)
    <3>1. UNCHANGED <<address, holders>>
      BY <2>1 DEF RunCustody
    <3>2. \A v \in Workers :
             \/ run'[v] = run[v]
             \/ run'[v].pc = "keygen" /\ address = NoAddress
             \/ run'[v].pc = "mint" /\ run'[v].addr = address /\ address # NoAddress
      BY <1>1, <2>1 DEF RunCustody, Goto, Hold
    <3> QED BY <3>1, <3>2 DEF KeyOK, HoldersKeepTheirKey
  <2>2. CASE RunKeygen(w)
    <3>1. /\ address = NoAddress /\ address' = w /\ holders' = holders
          /\ run' = [run EXCEPT ![w] = [pc |-> "mint", tx |-> run[w].tx, addr |-> w]]
      BY <2>2 DEF RunKeygen, Hold, KeyOK
    <3>2. holders = {}
      BY <3>1 DEF KeyOK, HoldersKeepTheirKey
    <3>3. \A v \in Workers \ {w} : run[v].pc \notin {"keygen", "mint"} /\ run'[v] = run[v]
      BY <1>1, <2>2, <3>1 DEF KeyOK, KeysApart, RunKeygen
    <3>4. run'[w].pc = "mint" /\ run'[w].addr = w
      BY <1>1, <3>1
    <3> QED BY <1>1, <3>1, <3>2, <3>3, <3>4 DEF KeyOK, HoldersKeepTheirKey
  <2>3. CASE RunMint(w)
    <3>1. address' = address /\ holders' = holders \cup {address} /\ address # NoAddress
      BY <2>3 DEF RunMint, KeyOK
    <3>2. \A v \in Workers : run'[v] = run[v] \/ run'[v].pc = "record"
      BY <1>1, <2>3 DEF RunMint, Goto
    <3> QED BY <3>1, <3>2 DEF KeyOK, HoldersKeepTheirKey
  <2>4. CASE ~ RunCustody(w) /\ ~ RunKeygen(w) /\ ~ RunMint(w)
    <3>1. UNCHANGED <<address, holders>>
      BY <1>4, <2>4 DEF RunStep, RunCheck, RunCreate, RunFund, RunIncrement, RunDonor, RunCredit,
         RunRecord, RunStamp
    <3>2. \A v \in Workers : run'[v] = run[v] \/ run'[v].pc \notin {"keygen", "mint"}
      BY <1>1, <1>4, <2>4 DEF RunStep, RunCheck, RunCreate, RunFund, RunIncrement, RunDonor,
         RunCredit, RunRecord, RunStamp, Goto, Finish, NoRun
    <3> QED BY <1>2, <3>1, <3>2
  <2> QED BY <2>1, <2>2, <2>3, <2>4
<1>5. ASSUME NEW w \in Workers, RunThrows(w) PROVE KeyOK'
  BY <1>1, <1>2, <1>5 DEF RunThrows, Goto, Finish, NoRun
<1>6. CASE ProjectStep
  BY <1>2, <1>6 DEF ProjectStep, Decide, OpenFunding
<1>7. CASE Crash
  BY <1>2, <1>7 DEF Crash, dbVars, NoRun
<1>8. CASE UNCHANGED vars
  BY <1>2, <1>8 DEF vars
<1> QED BY <1>3, <1>4, <1>5, <1>6, <1>7, <1>8 DEF Next, LisNext

\* The check for an existing investment is enough for one payment to become one
\* investment, as long as no two runs for the payment stand between the check and the
\* creation at once; nothing else that overlaps, repeats or crashes matters.
THEOREM ApartInvestsOnce == Spec /\ []RunsApart => []InvestedOnce
<1>1. IInv /\ ChecksOK /\ RunsApart /\ [Next]_vars => ChecksOK'
  BY ChecksStep
<1>2. ChecksOK => InvestedOnce
  BY DEF ChecksOK
<1> QED BY <1>1, <1>2, ApartInit, Invariance, PTL DEF Spec

\* The investor's NFTs are all held by the address the platform keeps the key of, as
\* long as no two runs generate a key at once.
THEOREM ApartKeepsTheKey == Spec /\ []KeysApart => []HoldersKeepTheirKey
<1>1. IInv /\ KeyOK /\ KeysApart /\ [Next]_vars => KeyOK'
  BY KeyStep
<1>2. KeyOK => HoldersKeepTheirKey
  BY DEF KeyOK
<1> QED BY <1>1, <1>2, ApartInit, Invariance, PTL DEF Spec

\* With one request at a time, nothing that matters overlaps.
COROLLARY SerialIsSafe ==
    ASSUME Cardinality(Workers) = 1
    PROVE  Spec => []InvestedOnce /\ []HoldersKeepTheirKey
<1>1. \A v, w \in Workers : v = w
  BY WorkersAssumption, FS_Singleton
<1>2. RunsApart /\ KeysApart
  BY <1>1 DEF RunsApart, KeysApart
<1> QED BY <1>2, ApartInvestsOnce, ApartKeepsTheKey, PTL

-----------------------------------------------------------------------------
(* The scenes.  They remember which of the two meetings has happened, and  *)
(* until it has, its half of the invariant holds.                          *)

SceneInv ==
    /\ IInv
    /\ met.check \/ (RunsApart /\ ChecksOK)
    /\ met.key \/ (KeysApart /\ KeyOK)

LEMMA SceneInit == MCInit => SceneInv
<1>1. ASSUME Init PROVE RunsApart /\ KeysApart
  BY <1>1 DEF Init, LisInit, NoRun, RunsApart, KeysApart
<1> QED BY <1>1, ApartInit, InitInv DEF MCInit, SceneInv

\* What was remembered stays remembered, and what met in a step is.
LEMMA MeetingsAreRemembered ==
    ASSUME SceneInv, [MCNext]_<<vars, scene, met>>
    PROVE  /\ met.check => met'.check
           /\ met.key => met'.key
           /\ met'.check \/ RunsApart'
           /\ met'.key \/ KeysApart'
<1>1. CASE MCNext
  <2> DEFINE C == met.check \/ ~ RunsApart'
             K == met.key \/ ~ KeysApart'
  <2>1. met' = [check |-> C, key |-> K]
    BY <1>1 DEF MCNext, Remember
  <2> HIDE DEF C, K
  <2>2. met'.check = C /\ met'.key = K
    BY <2>1
  <2> USE DEF C, K
  <2> QED BY <2>2, Zenon
<1>2. CASE UNCHANGED <<vars, scene, met>>
  <2>1. run' = run /\ met' = met
    BY <1>2 DEF vars
  <2>2. (RunsApart => RunsApart') /\ (KeysApart => KeysApart')
    BY <2>1 DEF RunsApart, KeysApart
  <2> QED BY <2>1, <2>2 DEF SceneInv
<1> QED BY <1>1, <1>2

LEMMA SceneStep ==
    ASSUME SceneInv, [MCNext]_<<vars, scene, met>>
    PROVE  SceneInv'
<1>1. [Next]_vars
  BY DEF MCNext
<1>2. IInv'
  BY <1>1, NextInv DEF SceneInv
<1>3. ASSUME ~ met'.check PROVE RunsApart' /\ ChecksOK'
  <2>1. ~ met.check /\ RunsApart'
    BY <1>3, MeetingsAreRemembered
  <2> QED BY <1>1, <2>1, ChecksStep DEF SceneInv
<1>4. ASSUME ~ met'.key PROVE KeysApart' /\ KeyOK'
  <2>1. ~ met.key /\ KeysApart'
    BY <1>4, MeetingsAreRemembered
  <2> QED BY <1>1, <2>1, KeyStep DEF SceneInv
<1> QED BY <1>2, <1>3, <1>4 DEF SceneInv

LEMMA SceneInvariance == MCSpec => []SceneInv
<1>1. SceneInv /\ [MCNext]_<<vars, scene, met>> => SceneInv'
  BY SceneStep
<1> QED BY <1>1, SceneInit, PTL DEF MCSpec

\* In every scene, whatever overlaps, repeats or crashes, and however often a poll
\* takes a payment back to be settled again, one payment becomes one investment until
\* two runs have met between the check and the creation.
THEOREM ScenesInvestOnce == MCSpec => []InvestedOnceApart
<1>1. SceneInv => InvestedOnceApart
  BY DEF SceneInv, ChecksOK, InvestedOnceApart
<1> QED BY <1>1, SceneInvariance, PTL

\* In every scene the investor's NFTs are all held by the address the platform keeps
\* the key of, until two runs have generated a key at once.
THEOREM ScenesKeepTheKey == MCSpec => []KeyKeptApart
<1>1. SceneInv => KeyKeptApart
  BY DEF SceneInv, KeyOK, KeyKeptApart
<1> QED BY <1>1, SceneInvariance, PTL

-----------------------------------------------------------------------------
(* While the server stays up, no successful payment is forgotten.          *)

FateInv == IInv /\ EmitsOnce /\ NoneForgotten

\* The worker that carries a payment keeps it until the investment is recorded.
LEMMA FateStays ==
    ASSUME TypeOK, Backed, EmitsOnce, ~ Faults, [Serving]_vars,
           NEW t \in Tx, OnItsWay(t)
    PROVE  OnItsWay(t)'
<1>1. /\ req \in [Workers -> Request] /\ run \in [Workers -> Run]
      /\ investments \in [Tx -> Nat]
  BY DEF TypeOK, PayTypeOK, LisTypeOK
<1>2. ASSUME NEW w \in Workers, Carries(w, t),
             req'[w] = req[w], run'[w] = run[w]
      PROVE  OnItsWay(t)'
  BY <1>2 DEF OnItsWay, Carries
<1>3. ASSUME investments'[t] > 0 PROVE OnItsWay(t)'
  BY <1>3 DEF OnItsWay
<1>4. CASE PayNext /\ UNCHANGED dbVars
  <2>1. investments' = investments
    BY <1>4 DEF dbVars
  <2>2. CASE investments[t] > 0
    BY <2>1, <2>2 DEF OnItsWay
  <2>3. ASSUME NEW w \in Workers, Carries(w, t) PROVE OnItsWay(t)'
    <3>0. /\ run[w].pc # "idle" =>
               req[w].pc = "idle" \/ (req[w].pc = "save" /\ ~ req[w].then)
          /\ req[w] \in Request /\ run[w] \in Run
      BY <1>1 DEF EmitsOnce
    <3>1. ASSUME HandlerStep(w) PROVE Carries(w, t)'
      <4> USE <1>1, <2>3, <3>0 DEF Carries, Return, NoRequest, Saving
      <4>1. CASE FlwInitAccepted(w) BY <4>1 DEF FlwInitAccepted
      <4>2. CASE DpoInitCreate(w) BY <4>2 DEF DpoInitCreate
      <4>3. CASE FlwVerifyPaid(w) BY <4>3 DEF FlwVerifyPaid
      <4>4. CASE FlwVerifyFailed(w) BY <4>4 DEF FlwVerifyFailed
      <4>5. CASE FlwVerifyOther(w) BY <4>5 DEF FlwVerifyOther
      <4>6. CASE DpoVerifyPaid(w) BY <4>6 DEF DpoVerifyPaid
      <4>7. CASE DpoVerifyOther(w) BY <4>7 DEF DpoVerifyOther
      <4>8. CASE DpoWebhookAnswer(w) BY <4>8 DEF DpoWebhookAnswer
      <4>9. CASE Save(w) BY <4>9 DEF Save, Request
      <4>10. CASE Publish(w) BY <4>10 DEF Publish, Emit
      <4>11. CASE WalletRow(w) BY <4>11 DEF WalletRow
      <4> QED BY <3>1, <4>1, <4>2, <4>3, <4>4, <4>5, <4>6, <4>7, <4>8, <4>9, <4>10, <4>11
              DEF HandlerStep
    <3>2. ASSUME NEW v \in Workers, v # w, HandlerStep(v)
          PROVE  req'[w] = req[w] /\ run'[w] = run[w]
      BY <1>1, <3>2 DEF HandlerStep, FlwInitAccepted, DpoInitCreate, FlwVerifyPaid,
         FlwVerifyFailed, FlwVerifyOther, DpoVerifyPaid, DpoVerifyOther, DpoWebhookAnswer,
         Save, Publish, WalletRow, Emit, Return, Saving
    <3>3. ASSUME NEW v \in Workers, NEW u \in Tx, ClientStep(v, u)
          PROVE  req'[w] = req[w] /\ run'[w] = run[w]
      <4>1. v # w
        BY <2>3, <3>3 DEF Carries, ClientStep, FlwInitCreate, DpoInitToken, WalletDebit,
           RequestVerify, FlwWebhookPaid, FlwWebhookFailed, DpoWebhook, Free
      <4> QED BY <1>1, <3>3, <4>1 DEF ClientStep, FlwInitCreate, DpoInitToken, WalletDebit,
           RequestVerify, FlwWebhookPaid, FlwWebhookFailed, DpoWebhook, Await
    <3>4. ASSUME NEW u \in Tx, Charge(u) \/ Decline(u) PROVE req' = req /\ run' = run
      BY <3>4 DEF Charge, Decline
    <3>5. \A v \in Workers : ~ RequestThrows(v)
      BY DEF RequestThrows
    <3> QED BY <1>2, <1>4, <2>3, <3>1, <3>2, <3>3, <3>4, <3>5 DEF PayNext, OnItsWay
  <2> QED BY <2>2, <2>3 DEF OnItsWay
<1>5. CASE LisNext /\ UNCHANGED payVars
  <2>1. req' = req
    BY <1>5 DEF payVars
  <2>2. \A v \in Workers : ~ RunThrows(v)
    BY DEF RunThrows
  <2>3. CASE ProjectStep
    BY <2>1, <2>3 DEF ProjectStep, Decide, OpenFunding, OnItsWay, Carries
  <2>4. ASSUME NEW v \in Workers, RunStep(v) PROVE OnItsWay(t)'
    <3>1. run[v] \in Run /\ run[v].pc # "idle"
      BY <1>1, <2>4 DEF RunStep, RunCheck, RunCreate, RunFund, RunIncrement, RunDonor, RunCredit,
         RunCustody, RunKeygen, RunMint, RunRecord, RunStamp
    <3>2. run[v].tx \in Tx
      BY <3>1 DEF Backed
    <3>3. investments[t] > 0 => investments'[t] > 0
      BY <1>1, <2>4, <3>2 DEF RunStep, RunCheck, RunCreate, RunFund, RunIncrement, RunDonor,
         RunCredit, RunCustody, RunKeygen, RunMint, RunRecord, RunStamp, Bump
    <3>4. \A w \in Workers \ {v} : run'[w] = run[w]
      BY <1>1, <2>4 DEF RunStep, RunCheck, RunCreate, RunFund, RunIncrement, RunDonor,
         RunCredit, RunCustody, RunKeygen, RunMint, RunRecord, RunStamp, Goto, Hold, Finish
    <3>5. CASE run[v].tx = t /\ run[v].pc = "check"
      <4>1. RunCheck(v)
        BY <2>4, <3>5 DEF RunStep, RunCheck, RunCreate, RunFund, RunIncrement, RunDonor,
           RunCredit, RunCustody, RunKeygen, RunMint, RunRecord, RunStamp
      <4>2. investments[t] > 0 \/ Carries(v, t)'
        BY <1>1, <3>5, <4>1 DEF RunCheck, Goto, Carries
      <4> QED BY <1>3, <3>3, <4>2 DEF OnItsWay
    <3>6. CASE run[v].tx = t /\ run[v].pc = "create"
      <4>1. RunCreate(v)
        BY <2>4, <3>6 DEF RunStep, RunCheck, RunCreate, RunFund, RunIncrement, RunDonor,
           RunCredit, RunCustody, RunKeygen, RunMint, RunRecord, RunStamp
      <4> QED BY <1>1, <3>6, <4>1 DEF RunCreate, Bump, OnItsWay
    <3>7. CASE ~ (run[v].tx = t /\ run[v].pc \in {"check", "create"})
      <4>1. ASSUME NEW w \in Workers, Carries(w, t) PROVE Carries(w, t)'
        BY <2>1, <3>4, <3>7, <4>1 DEF Carries
      <4> QED BY <1>3, <3>3, <4>1 DEF OnItsWay
    <3> QED BY <3>5, <3>6, <3>7
  <2> QED BY <1>5, <2>2, <2>3, <2>4 DEF LisNext
<1>6. CASE UNCHANGED vars
  BY <1>6 DEF vars, OnItsWay, Carries
<1> QED BY <1>4, <1>5, <1>6 DEF Serving

LEMMA EmitsOnceStep ==
    ASSUME TypeOK, Backed, EmitsOnce, ~ Faults, [Serving]_vars
    PROVE  EmitsOnce'
<1> DEFINE Order(w) == run[w].pc # "idle" =>
                          req[w].pc = "idle" \/ (req[w].pc = "save" /\ ~ req[w].then)
           Fate(w) == req[w].pc = "save" /\ req[w].write = "successful" => OnItsWay(req[w].tx)
<1>1. /\ req \in [Workers -> Request] /\ run \in [Workers -> Run]
      /\ \A w \in Workers : req[w] \in Request /\ run[w] \in Run
  BY DEF TypeOK, PayTypeOK, LisTypeOK
<1>2. \A w \in Workers : Order(w) /\ Fate(w)
  BY DEF EmitsOnce
<1>3. SUFFICES \A w \in Workers : Order(w)' /\ Fate(w)'
  BY DEF EmitsOnce
<1>4. ASSUME NEW w \in Workers, req'[w] = req[w] PROVE Fate(w)'
  <2>1. CASE req[w].pc = "save" /\ req[w].write = "successful"
    <3>1. PICK t \in Tx : t = req[w].tx /\ OnItsWay(t)
      BY <1>2, <2>1 DEF Backed
    <3>2. OnItsWay(t)'
      BY <3>1, FateStays
    <3> QED BY <1>4, <3>1, <3>2
  <2> QED BY <1>4, <2>1
<1>5. ASSUME NEW w \in Workers, req'[w] = req[w], run'[w] = run[w] \/ run'[w].pc = "idle"
      PROVE  Order(w)' /\ Fate(w)'
  BY <1>2, <1>4, <1>5
<1> DEFINE Sends(w) == req[w].pc = "save" /\ req[w].write = "successful" => Carries(w, req[w].tx)
<1>6. ASSUME NEW w \in Workers, Order(w)', Sends(w)',
             \A v \in Workers \ {w} : req'[v] = req[v] /\ run'[v] = run[v]
      PROVE  \A v \in Workers : Order(v)' /\ Fate(v)'
  <2>1. Fate(w)'
    BY <1>6 DEF OnItsWay
  <2> HIDE DEF Order, Fate
  <2> QED BY <1>5, <1>6, <2>1
<1>7. CASE PayNext /\ UNCHANGED dbVars
  <2>1. ASSUME NEW w \in Workers, HandlerStep(w)
        PROVE  /\ Order(w)' /\ Sends(w)'
               /\ \A v \in Workers \ {w} : req'[v] = req[v] /\ run'[v] = run[v]
    <3>0. Order(w)
      BY <1>2
    <3> USE <1>1, <3>0 DEF Carries, Return, NoRequest, Saving
    <3>1. CASE FlwInitAccepted(w) BY <3>1 DEF FlwInitAccepted
    <3>2. CASE DpoInitCreate(w) BY <3>2 DEF DpoInitCreate
    <3>3. CASE FlwVerifyPaid(w) BY <3>3 DEF FlwVerifyPaid, Emit
    <3>4. CASE FlwVerifyFailed(w) BY <3>4 DEF FlwVerifyFailed
    <3>5. CASE FlwVerifyOther(w) BY <3>5 DEF FlwVerifyOther
    <3>6. CASE DpoVerifyPaid(w) BY <3>6 DEF DpoVerifyPaid
    <3>7. CASE DpoVerifyOther(w) BY <3>7 DEF DpoVerifyOther
    <3>8. CASE DpoWebhookAnswer(w) BY <3>8 DEF DpoWebhookAnswer
    <3>9. CASE Save(w) BY <3>9 DEF Save, Request
    <3>10. CASE Publish(w) BY <3>10 DEF Publish, Emit
    <3>11. CASE WalletRow(w) BY <3>11 DEF WalletRow
    <3> QED BY <2>1, <3>1, <3>2, <3>3, <3>4, <3>5, <3>6, <3>7, <3>8, <3>9, <3>10, <3>11
            DEF HandlerStep
  <2>2. ASSUME NEW w \in Workers, NEW t \in Tx, ClientStep(w, t)
        PROVE  /\ Order(w)' /\ Sends(w)'
               /\ \A v \in Workers \ {w} : req'[v] = req[v] /\ run'[v] = run[v]
    <3> USE <1>1 DEF Carries, Await, NoRequest, Free
    <3>1. CASE FlwInitCreate(w, t) BY <3>1 DEF FlwInitCreate
    <3>2. CASE DpoInitToken(w, t) BY <3>2 DEF DpoInitToken
    <3>3. CASE WalletDebit(w, t) BY <3>3 DEF WalletDebit
    <3>4. CASE RequestVerify(w, t) BY <3>4 DEF RequestVerify
    <3>5. CASE FlwWebhookPaid(w, t) BY <3>5 DEF FlwWebhookPaid
    <3>6. CASE FlwWebhookFailed(w, t) BY <3>6 DEF FlwWebhookFailed
    <3>7. CASE DpoWebhook(w, t) BY <3>7 DEF DpoWebhook
    <3> QED BY <2>2, <3>1, <3>2, <3>3, <3>4, <3>5, <3>6, <3>7 DEF ClientStep
  <2>3. ASSUME NEW t \in Tx, Charge(t) \/ Decline(t) PROVE req' = req /\ run' = run
    BY <2>3 DEF Charge, Decline
  <2>4. \A w \in Workers : ~ RequestThrows(w)
    BY DEF RequestThrows
  <2> HIDE DEF Order, Fate, Sends
  <2> QED BY <1>5, <1>6, <1>7, <2>1, <2>2, <2>3, <2>4 DEF PayNext
<1>8. CASE LisNext /\ UNCHANGED payVars
  <2>1. req' = req
    BY <1>8 DEF payVars
  <2>2. ASSUME NEW v \in Workers, RunStep(v)
        PROVE  /\ run[v].pc # "idle"
               /\ \A w \in Workers \ {v} : run'[w] = run[w]
    BY <1>1, <2>2 DEF RunStep, RunCheck, RunCreate, RunFund, RunIncrement, RunDonor, RunCredit,
       RunCustody, RunKeygen, RunMint, RunRecord, RunStamp, Goto, Hold, Finish
  <2>3. ASSUME NEW v \in Workers, RunStep(v) PROVE Order(v)'
    BY <1>2, <2>1, <2>2, <2>3
  <2>4. CASE ProjectStep
    BY <1>5, <2>1, <2>4 DEF ProjectStep, Decide, OpenFunding
  <2>5. \A w \in Workers : ~ RunThrows(w)
    BY DEF RunThrows
  <2>6. \A w \in Workers : Fate(w)'
    BY <1>4, <2>1
  <2> HIDE DEF Order, Fate
  <2> QED BY <1>5, <1>8, <2>1, <2>2, <2>3, <2>4, <2>5, <2>6 DEF LisNext
<1>9. CASE UNCHANGED vars
  BY <1>5, <1>9 DEF vars
<1> QED BY <1>7, <1>8, <1>9 DEF Serving

LEMMA NoneForgottenStep ==
    ASSUME TypeOK, Backed, EmitsOnce, NoneForgotten, ~ Faults, [Serving]_vars
    PROVE  NoneForgotten'
<1>1. SUFFICES ASSUME NEW t \in Tx, status'[t] = "successful" PROVE OnItsWay(t)'
  BY DEF NoneForgotten
<1>2. CASE status[t] = "successful"
  BY <1>2, FateStays DEF NoneForgotten
<1>3. CASE status[t] # "successful"
  <2>1. /\ req \in [Workers -> Request] /\ status \in [Tx -> Status]
        /\ \A w \in Workers : req[w] \in Request
    BY DEF TypeOK, PayTypeOK
  <2>2. PICK w \in Workers : Save(w) \/ WalletRow(w)
    <3>1. status' # status
      BY <1>1, <1>3
    <3>2. \A w \in Workers, u \in Tx : ClientStep(w, u) =>
             status' = status \/ (status' = [status EXCEPT ![u] = "pending"])
      BY DEF ClientStep, FlwInitCreate, DpoInitToken, WalletDebit, RequestVerify,
         FlwWebhookPaid, FlwWebhookFailed, DpoWebhook
    <3>3. \A w \in Workers, u \in Tx : ~ ClientStep(w, u)
      BY <1>1, <1>3, <2>1, <3>2
    <3>4. \A w \in Workers : ~ DpoInitCreate(w)
      BY <1>1, <1>3, <2>1 DEF DpoInitCreate
    <3>5. \A u \in Tx : ~ Charge(u) /\ ~ Decline(u)
      BY <3>1 DEF Charge, Decline
    <3>6. PICK w \in Workers : HandlerStep(w)
      BY <3>1, <3>3, <3>5 DEF Serving, PayNext, payVars, vars, RequestThrows
    <3> QED BY <3>1, <3>4, <3>6 DEF HandlerStep, FlwInitAccepted, FlwVerifyPaid, FlwVerifyFailed,
            FlwVerifyOther, DpoVerifyPaid, DpoVerifyOther, DpoWebhookAnswer, Publish
  <2>3. CASE WalletRow(w)
    <3>1. req[w].tx = t
      BY <1>1, <1>3, <2>1, <2>3 DEF WalletRow
    <3>2. req'[w].pc = "emit" /\ req'[w].tx = t
      BY <2>1, <2>3, <3>1 DEF WalletRow, Request
    <3> QED BY <3>2 DEF OnItsWay, Carries
  <2>4. CASE Save(w)
    <3>1. t = req[w].tx /\ req[w].write = "successful" /\ req[w].pc = "save"
      BY <1>1, <1>3, <2>1, <2>4 DEF Save
    <3> QED BY <3>1, FateStays DEF EmitsOnce
  <2> QED BY <2>2, <2>3, <2>4
<1> QED BY <1>2, <1>3

\* While the server stays up and nothing throws, a payment stored as successful is
\* never forgotten: its investment is recorded or on its way, however the requests
\* that settle it overlap.  It is the safety half of SuccessIsInvested.
THEOREM NoneIsForgotten ==
    ASSUME ~ Faults
    PROVE  FairSpec => []NoneForgotten
<1>1. Init => FateInv
  <2>1. Init => EmitsOnce
    BY DEF Init, PayInit, LisInit, EmitsOnce, NoRun, NoRequest
  <2>2. Init => NoneForgotten
    BY DEF Init, PayInit, NoneForgotten
  <2> QED BY <2>1, <2>2, InitInv DEF FateInv
<1>2. ASSUME FateInv, [Serving]_vars PROVE FateInv'
  <2>1. IInv /\ TypeOK /\ Backed /\ EmitsOnce /\ NoneForgotten
    BY <1>2 DEF FateInv, IInv
  <2>2. [Next]_vars
    BY <1>2 DEF Serving, Next
  <2>3. IInv'
    BY <2>1, <2>2, NextInv
  <2>4. EmitsOnce' /\ NoneForgotten'
    BY <1>2, <2>1, EmitsOnceStep, NoneForgottenStep
  <2> QED BY <2>3, <2>4 DEF FateInv
<1>3. FateInv => NoneForgotten
  BY DEF FateInv
<1> QED BY <1>1, <1>2, <1>3, PTL DEF FairSpec

=============================================================================
