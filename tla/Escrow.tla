------------------------------- MODULE Escrow -------------------------------
(***************************************************************************)
(* escrow.service.ts and its repository: deposits into the escrow of one   *)
(* project and currency.  Escrows of other projects or currencies share no *)
(* document with it, only the index on txHash.  Every await of a handler   *)
(* ends a step; amounts are one unit each.                                 *)
(***************************************************************************)
EXTENDS Naturals, FiniteSets

CONSTANTS
    Creates,      \* createInvestment requests (module Investments)
    Directs,      \* POST /escrow/deposit requests
    StatusCalls,  \* updateStatus requests (module Investments)
    Marks,        \* POST /escrow/dispute, /refund and /release requests
    Hashes,       \* transaction hashes a client may claim
    ZeroHash,     \* what simulateEscrowDeposit returns
    NoHash,       \* no txHash in the request
    Together,     \* requests in progress at the same time (a bound)
    Faults        \* may calls to the database and the chain throw?

Depositing == Creates \cup Directs

Requests == Depositing \cup StatusCalls \cup Marks

ASSUME RequestsAssumption ==
    /\ IsFiniteSet(Requests)
    /\ Creates \cap (Directs \cup StatusCalls \cup Marks) = {}
    /\ Directs \cap (StatusCalls \cup Marks) = {}
    /\ StatusCalls \cap Marks = {}
ASSUME TogetherAssumption == Together \in Nat \ {0}
ASSUME HashesAssumption == NoHash \notin Hashes \cup {ZeroHash}
ASSUME FaultsAssumption == Faults \in BOOLEAN

VARIABLES
    testMode,    \* INVESTMENTS_TEST_MODE or KYC_BYPASS, fixed when the server starts
    open,        \* is the project's status FUNDING?
    escrow,      \* the Escrow document: there, deposits, totalLocked
    deposits,    \* the Deposit documents: request -> txHash and status
    logged,      \* the requests with an event in the log
    pc,          \* [Requests -> the step it takes next]
    hash,        \* [Requests -> the txHash of its deposit]
    mark         \* [Marks -> the deposits it is about, and their new status]

escrowVars == <<escrow, deposits, logged, hash, mark>>

Steps == {"new", "open", "findEscrow", "createEscrow", "insert", "attach", "lock", "log",
          "row", "check", "raise",
          "saveStatus", "refund", "mark", "logMark", "done", "failed"}

InProgress == {r \in Requests : pc[r] \notin {"new", "done", "failed"}}

DepositStatus == {"PENDING", "DISPUTED", "REFUNDED"}

EscrowTypeOK ==
    /\ testMode \in BOOLEAN /\ open \in BOOLEAN
    /\ escrow \in [there : BOOLEAN, deposits : SUBSET Requests, locked : Nat]
    /\ DOMAIN deposits \subseteq Depositing
    /\ \A r \in DOMAIN deposits :
         deposits[r] \in [txHash : Hashes \cup {ZeroHash, NoHash}, status : DepositStatus]
    /\ logged \subseteq Requests
    /\ pc \in [Requests -> Steps]
    /\ hash \in [Depositing -> Hashes \cup {ZeroHash, NoHash}]
    /\ mark \in [Marks -> [of : SUBSET Depositing, to : DepositStatus]]

EscrowInit ==
    /\ testMode \in BOOLEAN /\ open \in BOOLEAN
    /\ escrow = [there |-> FALSE, deposits |-> {}, locked |-> 0]
    /\ deposits = <<>>
    /\ logged = {}
    /\ pc = [r \in Requests |-> "new"]
    /\ hash = [r \in Depositing |-> NoHash]
    /\ mark = [m \in Marks |-> [of |-> {}, to |-> "PENDING"]]

-----------------------------------------------------------------------------

At(r, step) == pc[r] = step
Goto(r, step) == pc' = [pc EXCEPT ![r] = step]
Arrives(r) == At(r, "new") /\ Cardinality(InProgress) < Together

\* ensureProjectIsOpenForInvestment: the test modes skip the status.
Admitted == testMode \/ open

\* An administrator opens or closes the project for investments.
Reopen ==
    /\ open' = ~ open
    /\ UNCHANGED <<testMode, escrowVars, pc>>

DepositArrives(r, h) ==
    /\ r \in Directs /\ Arrives(r)
    /\ hash' = [hash EXCEPT ![r] = h]
    /\ Goto(r, "open")
    /\ UNCHANGED <<testMode, open, escrow, deposits, logged, mark>>

\* createDeposit reads the project.
DepositAdmitted(r) ==
    /\ At(r, "open")
    /\ Goto(r, IF Admitted THEN "findEscrow" ELSE "failed")
    /\ UNCHANGED <<testMode, open, escrowVars>>

FindEscrow(r) ==
    /\ At(r, "findEscrow")
    /\ Goto(r, IF escrow.there THEN "insert" ELSE "createEscrow")
    /\ UNCHANGED <<testMode, open, escrowVars>>

\* The unique escrowId refuses a second escrow.
CreateEscrow(r) ==
    /\ At(r, "createEscrow")
    /\ escrow' = [escrow EXCEPT !.there = TRUE]
    /\ Goto(r, IF escrow.there THEN "failed" ELSE "insert")
    /\ UNCHANGED <<testMode, open, deposits, logged, hash, mark>>

\* Mutant of Refused: there is no such index.
RefusedNever(r) == FALSE

\* Is r's hash one the unique, sparse index on txHash refuses?
Refused(r) == hash[r] # NoHash /\ \E d \in DOMAIN deposits : deposits[d].txHash = hash[r]

InsertDeposit(r) ==
    /\ At(r, "insert")
    /\ deposits' = IF Refused(r) THEN deposits
                   ELSE [d \in DOMAIN deposits \cup {r} |->
                           IF d = r THEN [txHash |-> hash[r], status |-> "PENDING"]
                           ELSE deposits[d]]
    /\ Goto(r, IF Refused(r) THEN "failed" ELSE "attach")
    /\ UNCHANGED <<testMode, open, escrow, logged, hash, mark>>

\* Mutant of AttachDeposit: the total is incremented with it, and again after.
AttachDepositLocking(r) ==
    /\ At(r, "attach")
    /\ escrow' = [escrow EXCEPT !.deposits = @ \cup {r}, !.locked = @ + 1]
    /\ Goto(r, "lock")
    /\ UNCHANGED <<testMode, open, deposits, logged, hash, mark>>

\* $addToSet, of an id made by the insert.
AttachDeposit(r) ==
    /\ At(r, "attach")
    /\ escrow' = [escrow EXCEPT !.deposits = @ \cup {r}]
    /\ Goto(r, "lock")
    /\ UNCHANGED <<testMode, open, deposits, logged, hash, mark>>

\* incrementEscrowLocked.
LockDeposit(r) ==
    /\ At(r, "lock")
    /\ escrow' = [escrow EXCEPT !.locked = @ + 1]
    /\ Goto(r, "log")
    /\ UNCHANGED <<testMode, open, deposits, logged, hash, mark>>

\* The event, and the return to the controller or to createInvestment.
LogDeposit(r) ==
    /\ At(r, "log")
    /\ logged' = logged \cup {r}
    /\ Goto(r, IF r \in Creates THEN "row" ELSE "done")
    /\ UNCHANGED <<testMode, open, escrow, deposits, hash, mark>>

-----------------------------------------------------------------------------
\* What becomes of a deposit.  No total and no other document follows.

\* requestRelease, about no deposit: it is only logged.
RequestRelease(m) ==
    /\ m \in Marks /\ Arrives(m)
    /\ mark' = [mark EXCEPT ![m].of = {}]
    /\ Goto(m, "logMark")
    /\ UNCHANGED <<testMode, open, escrow, deposits, logged, hash>>

\* raiseDispute and refundDeposit, whatever the deposit's status.
MarkArrives(m, d, to) ==
    /\ m \in Marks /\ Arrives(m)
    /\ d \in DOMAIN deposits /\ to \in {"DISPUTED", "REFUNDED"}
    /\ mark' = [mark EXCEPT ![m] = [of |-> {d}, to |-> to]]
    /\ Goto(m, "mark")
    /\ UNCHANGED <<testMode, open, escrow, deposits, logged, hash>>

MarkDepositStatus(m) ==
    /\ At(m, "mark")
    /\ deposits' = [d \in DOMAIN deposits |->
         IF d \in mark[m].of THEN [deposits[d] EXCEPT !.status = mark[m].to] ELSE deposits[d]]
    /\ Goto(m, "logMark")
    /\ UNCHANGED <<testMode, open, escrow, logged, hash, mark>>

LogMark(m) ==
    /\ At(m, "logMark")
    /\ logged' = logged \cup {m}
    /\ Goto(m, "done")
    /\ UNCHANGED <<testMode, open, escrow, deposits, hash, mark>>

MarkStep(m) ==
    \/ RequestRelease(m) \/ MarkDepositStatus(m) \/ LogMark(m)
    \/ \E d \in Depositing, to \in DepositStatus : MarkArrives(m, d, to)

EscrowStep(r) ==
    \/ DepositAdmitted(r) \/ FindEscrow(r) \/ CreateEscrow(r) \/ InsertDeposit(r)
    \/ AttachDeposit(r) \/ LockDeposit(r) \/ LogDeposit(r)
=============================================================================
