---------------------------- MODULE Investments ----------------------------
(***************************************************************************)
(* investments.service.ts over the escrow: createInvestment, which makes   *)
(* a deposit first and raises the project's total last, and updateStatus   *)
(* with its refund on the chain.                                           *)
(***************************************************************************)
EXTENDS Escrow

VARIABLES
    investments,   \* the Investment documents: request -> status
    raised,        \* the project's raisedAmount
    change,        \* [StatusCalls -> the investment and the status asked for]
    refunds,       \* [Creates -> refunds sent to the chain]
    shared         \* investments with two updateStatus calls in progress at a time, so far

investmentVars == <<investments, raised, change, refunds, shared>>
vars == <<testMode, open, escrow, deposits, logged, pc, hash, mark,
          investments, raised, change, refunds, shared>>

InvestmentStatus == {"pending", "active", "completed", "refunded"}

None == "none"

TypeOK ==
    /\ EscrowTypeOK
    /\ DOMAIN investments \subseteq Creates
    /\ \A i \in DOMAIN investments : investments[i] \in InvestmentStatus
    /\ raised \in Nat
    /\ change \in [StatusCalls -> [of : Creates \cup {None}, to : InvestmentStatus]]
    /\ refunds \in [Creates -> Nat]
    /\ shared \subseteq Creates

Init ==
    /\ EscrowInit
    /\ investments = <<>> /\ raised = 0
    /\ change = [s \in StatusCalls |-> [of |-> None, to |-> "pending"]]
    /\ refunds = [i \in Creates |-> 0]
    /\ shared = {}

-----------------------------------------------------------------------------

\* createInvestment, up to the awaits on the investor and the project; the
\* deposit and the mint it simulates return the same hash every time.
CreateArrives(r) ==
    /\ r \in Creates /\ Arrives(r) /\ Admitted
    /\ hash' = [hash EXCEPT ![r] = ZeroHash]
    /\ Goto(r, IF testMode THEN "row" ELSE "open")
    /\ UNCHANGED <<testMode, open, escrow, deposits, logged, mark, investmentVars>>

CreateRow(r) ==
    /\ At(r, "row")
    /\ investments' = [i \in DOMAIN investments \cup {r} |->
                         IF i = r THEN "pending" ELSE investments[i]]
    /\ Goto(r, "check")
    /\ UNCHANGED <<testMode, open, escrowVars, raised, change, refunds, shared>>

\* incrementFunding reads the project once more.
RaiseCheck(r) ==
    /\ At(r, "check")
    /\ Goto(r, IF Admitted THEN "raise" ELSE "failed")
    /\ UNCHANGED <<testMode, open, escrowVars, investmentVars>>

Raise(r) ==
    /\ At(r, "raise")
    /\ raised' = raised + 1
    /\ Goto(r, "done")
    /\ UNCHANGED <<testMode, open, escrowVars, investments, change, refunds, shared>>

-----------------------------------------------------------------------------

\* Mutant of ValidTransitions: a refunded investment can be made active.
ValidTransitionsBack ==
    {<<"pending", "active">>, <<"pending", "refunded">>, <<"refunded", "active">>,
     <<"active", "completed">>, <<"active", "refunded">>}

\* isValidTransition.
ValidTransitions ==
    {<<"pending", "active">>, <<"pending", "refunded">>,
     <<"active", "completed">>, <<"active", "refunded">>}

\* updateStatus reads the investment; a transition that is not valid ends it there.
StatusArrives(s, i, to) ==
    /\ s \in StatusCalls /\ Arrives(s)
    /\ i \in DOMAIN investments /\ <<investments[i], to>> \in ValidTransitions
    /\ change' = [change EXCEPT ![s] = [of |-> i, to |-> to]]
    /\ shared' = IF \E o \in StatusCalls \cap InProgress : change[o].of = i
                 THEN shared \cup {i} ELSE shared
    /\ Goto(s, "saveStatus")
    /\ UNCHANGED <<testMode, open, escrowVars, investments, raised, refunds>>

\* Mutant of SaveStatus: the refund comes before the save.
SaveStatusLast(s) ==
    /\ At(s, "saveStatus")
    /\ investments' = IF change[s].to = "refunded" THEN investments
                      ELSE [investments EXCEPT ![change[s].of] = change[s].to]
    /\ Goto(s, IF change[s].to = "refunded" THEN "refund" ELSE "done")
    /\ UNCHANGED <<testMode, open, escrowVars, raised, change, refunds, shared>>

SaveStatus(s) ==
    /\ At(s, "saveStatus")
    /\ investments' = [investments EXCEPT ![change[s].of] = change[s].to]
    /\ Goto(s, IF change[s].to = "refunded" THEN "refund" ELSE "done")
    /\ UNCHANGED <<testMode, open, escrowVars, raised, change, refunds, shared>>

\* Mutant of Refund: the project's total is lowered as well.
RefundLowering(s) ==
    /\ At(s, "refund")
    /\ refunds' = [refunds EXCEPT ![change[s].of] = @ + 1]
    /\ raised' = raised - 1
    /\ Goto(s, "done")
    /\ UNCHANGED <<testMode, open, escrowVars, investments, change, shared>>

\* simulateEscrowRefund.  Its answer may be lost, which changes only the reply.
Refund(s) ==
    /\ At(s, "refund")
    /\ refunds' = [refunds EXCEPT ![change[s].of] = @ + 1]
    /\ Goto(s, "done")
    /\ UNCHANGED <<testMode, open, escrowVars, investments, raised, change, shared>>

-----------------------------------------------------------------------------

\* A call throws, or the server stops: the request goes no further.
Throws(r) ==
    /\ Faults /\ r \in InProgress
    /\ Goto(r, "failed")
    /\ UNCHANGED <<testMode, open, escrowVars, investmentVars>>

CreateStep(r) == CreateArrives(r) \/ CreateRow(r) \/ RaiseCheck(r) \/ Raise(r)

StatusStep(s) ==
    \/ \E i \in Creates, to \in InvestmentStatus : StatusArrives(s, i, to)
    \/ SaveStatus(s) \/ Refund(s)

Next ==
    \/ Reopen /\ UNCHANGED investmentVars
    \/ \E r \in Directs, h \in Hashes \cup {NoHash} :
         DepositArrives(r, h) /\ UNCHANGED investmentVars
    \/ \E r \in Depositing : EscrowStep(r) /\ UNCHANGED investmentVars
    \/ \E m \in Marks : MarkStep(m) /\ UNCHANGED investmentVars
    \/ \E r \in Creates : CreateStep(r)
    \/ \E s \in StatusCalls : StatusStep(s)
    \/ \E r \in Requests : Throws(r)

Spec == Init /\ [][Next]_vars

-----------------------------------------------------------------------------

\* Every record is behind the one it stands for, wherever requests stop: the
\* events behind the locked total, the total behind the escrow's deposits, these
\* behind the deposits stored; the event of a dispute or a refund behind the
\* deposit's status; the project's total behind the investments.
RecordsInOrder ==
    /\ Cardinality(logged \cap Depositing) <= escrow.locked
    /\ \A m \in logged \cap Marks, d \in Depositing :
         d \in mark[m].of => deposits[d].status # "PENDING"
    /\ escrow.locked <= Cardinality(escrow.deposits)
    /\ escrow.deposits \subseteq DOMAIN deposits
    /\ raised <= Cardinality(DOMAIN investments)

\* Outside the test modes an investment has its deposit, locked in the escrow
\* and in the event log; and since every investment claims the same transaction
\* and a transaction is one deposit, the collection holds one at most.
InvestedIsDeposited ==
    ~ testMode =>
        /\ \A i \in DOMAIN investments : i \in logged /\ i \in escrow.deposits
        /\ Cardinality(DOMAIN investments) <= 1

\* An investment whose updateStatus calls never overlapped is refunded on the
\* chain once at most, and then its status says so.
RefundedOnce ==
    \A i \in Creates \ shared :
        /\ refunds[i] <= 1
        /\ refunds[i] = 1 => i \in DOMAIN investments /\ investments[i] = "refunded"

\* Completed and refunded are final, under the same condition.
FinalStays ==
    [][\A i \in DOMAIN investments \ shared' :
         investments[i] \in {"completed", "refunded"} =>
             i \in DOMAIN investments' /\ investments'[i] = investments[i]]_vars
=============================================================================
