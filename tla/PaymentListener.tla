-------------------------- MODULE PaymentListener --------------------------
(***************************************************************************)
(* PaymentInvestmentListener.handlePaymentSuccessful and what it calls:    *)
(* ProjectsService.incrementFunding and incrementCharityDonation,          *)
(* CustodialWalletService.getOrCreateWallet, InvestmentNFTService          *)
(* .mintForUser.  The runs of one project and one investor: runs of        *)
(* different investors share nothing but the project's $inc.               *)
(*                                                                         *)
(* Amounts are left out: $inc commutes, so the project's raisedAmount is   *)
(* the sum over t of raised[t] times the amount of t.                      *)
(***************************************************************************)
EXTENDS PaymentEvents, Naturals

CONSTANTS
    IsCharity,         \* projectType of the project is CHARITY
    CreatorIdReadable, \* String(project.creatorId) is an id after populate()
    TestMode           \* INVESTMENTS_TEST_MODE or KYC_BYPASS is set

ASSUME ListenerAssumption ==
    IsCharity \in BOOLEAN /\ CreatorIdReadable \in BOOLEAN /\ TestMode \in BOOLEAN

VARIABLES
    projectStatus,
    investments,   \* [Tx -> number of investments with txHash = the transaction]
    donorRecords,  \* [Tx -> number of investments with txHash = null made for it]
    raised,        \* [Tx -> times its amount was added to raisedAmount]
    credited,      \* [Tx -> times its amount was credited to the creator's wallet]
    address,       \* the investor's stored custodial address
    minted,        \* [Tx -> NFT mints sent for it]
    holders,       \* the addresses NFTs were minted to
    recorded,      \* [Tx -> its investments that carry their NFT]
    stamped        \* [Tx -> is the transaction marked nftMinted?]

lisVars == <<projectStatus, investments, donorRecords, raised, credited,
             address, minted, holders, recorded, stamped, run>>

ProjectStatuses == {"PENDING_REVIEW", "APPROVED", "REJECTED", "CHANGES_REQUESTED", "FUNDING"}

PublicStatuses == {"APPROVED", "FUNDING", "FUNDED", "FUNDING_FAILED"}

LisTypeOK ==
    /\ projectStatus \in ProjectStatuses
    /\ investments \in [Tx -> Nat] /\ donorRecords \in [Tx -> Nat]
    /\ raised \in [Tx -> Nat] /\ credited \in [Tx -> Nat]
    /\ address \in Addresses /\ holders \subseteq Addresses
    /\ minted \in [Tx -> Nat] /\ recorded \in [Tx -> Nat]
    /\ stamped \in [Tx -> BOOLEAN]
    /\ run \in [Workers -> Run]

LisInit ==
    /\ projectStatus = "PENDING_REVIEW"
    /\ investments = [t \in Tx |-> 0] /\ donorRecords = [t \in Tx |-> 0]
    /\ raised = [t \in Tx |-> 0] /\ credited = [t \in Tx |-> 0]
    /\ address = NoAddress /\ holders = {}
    /\ minted = [t \in Tx |-> 0] /\ recorded = [t \in Tx |-> 0]
    /\ stamped = [t \in Tx |-> FALSE]
    /\ run = [w \in Workers |-> NoRun]

-----------------------------------------------------------------------------

Goto(w, pc) ==
    run' = [run EXCEPT ![w] = [pc |-> pc, tx |-> run[w].tx, addr |-> run[w].addr]]

Hold(w, pc, a) ==
    run' = [run EXCEPT ![w] = [pc |-> pc, tx |-> run[w].tx, addr |-> a]]

Finish(w) == run' = [run EXCEPT ![w] = NoRun]

\* One more for the transaction of worker w's run.
Bump(f, w) == [f EXCEPT ![run[w].tx] = @ + 1]

\* Mutant of RunCheck: no check for an existing investment.
RunCheckNothing(w) ==
    /\ run[w].pc = "check"
    /\ Goto(w, "create")
    /\ UNCHANGED <<projectStatus, investments, donorRecords, raised, credited,
                   address, minted, holders, recorded, stamped>>

\* Mutant of RunCheck: the project is funded before the record is made.
RunCheckFundFirst(w) ==
    /\ run[w].pc = "check"
    /\ IF investments[run[w].tx] > 0 THEN Finish(w) ELSE Goto(w, "fund")
    /\ UNCHANGED <<projectStatus, investments, donorRecords, raised, credited,
                   address, minted, holders, recorded, stamped>>

\* 1. "Check for existing investment to avoid duplicates".
RunCheck(w) ==
    /\ run[w].pc = "check"
    /\ IF investments[run[w].tx] > 0 THEN Finish(w) ELSE Goto(w, "create")
    /\ UNCHANGED <<projectStatus, investments, donorRecords, raised, credited,
                   address, minted, holders, recorded, stamped>>

\* 2. Create the investment record; no index forbids a second one.
RunCreate(w) ==
    /\ run[w].pc = "create"
    /\ investments' = Bump(investments, w)
    /\ Goto(w, "fund")
    /\ UNCHANGED <<projectStatus, donorRecords, raised, credited,
                   address, minted, holders, recorded, stamped>>

\* 3. The project is read, and its status decides whether it is funded:
\* ensureProjectIsOpenForInvestment, or the checks of incrementCharityDonation.
Admits(t) ==
    IF t \in Donations
    THEN IsCharity /\ projectStatus \in PublicStatuses
    ELSE TestMode \/ projectStatus = "FUNDING"

RunFund(w) ==
    /\ run[w].pc = "fund"
    /\ Goto(w, IF Admits(run[w].tx) THEN "increment" ELSE "custody")
    /\ UNCHANGED <<projectStatus, investments, donorRecords, raised, credited,
                   address, minted, holders, recorded, stamped>>

RunIncrement(w) ==
    /\ run[w].pc = "increment"
    /\ raised' = Bump(raised, w)
    /\ Goto(w, IF run[w].tx \in Donations THEN "donor" ELSE "custody")
    /\ UNCHANGED <<projectStatus, investments, donorRecords, credited,
                   address, minted, holders, recorded, stamped>>

\* incrementCharityDonation stores an investment of its own for the donor.
RunDonor(w) ==
    /\ run[w].pc = "donor"
    /\ donorRecords' = Bump(donorRecords, w)
    /\ Goto(w, "credit")
    /\ UNCHANGED <<projectStatus, investments, raised, credited,
                   address, minted, holders, recorded, stamped>>

\* The creator's wallet is looked up by String(project.creatorId), which throws
\* when that is not an id; the error is logged.
RunCredit(w) ==
    /\ run[w].pc = "credit"
    /\ credited' = IF CreatorIdReadable THEN Bump(credited, w) ELSE credited
    /\ Goto(w, "custody")
    /\ UNCHANGED <<projectStatus, investments, donorRecords, raised,
                   address, minted, holders, recorded, stamped>>

\* 4. Get or create the investor's custodial wallet.
RunCustody(w) ==
    /\ run[w].pc = "custody"
    /\ IF address = NoAddress THEN Goto(w, "keygen") ELSE Hold(w, "mint", address)
    /\ UNCHANGED <<projectStatus, investments, donorRecords, raised, credited,
                   address, minted, holders, recorded, stamped>>

\* Mutant of RunKeygen: the generated key is used and not saved.
RunKeygenUnsaved(w) ==
    /\ run[w].pc = "keygen"
    /\ Hold(w, "mint", w)
    /\ UNCHANGED <<projectStatus, investments, donorRecords, raised, credited,
                   address, minted, holders, recorded, stamped>>

RunKeygen(w) ==
    /\ run[w].pc = "keygen"
    /\ address' = w
    /\ Hold(w, "mint", w)
    /\ UNCHANGED <<projectStatus, investments, donorRecords, raised, credited,
                   minted, holders, recorded, stamped>>

\* 5. Mint the NFT to the address found or generated.
RunMint(w) ==
    /\ run[w].pc = "mint"
    /\ minted' = Bump(minted, w)
    /\ holders' = holders \cup {run[w].addr}
    /\ Goto(w, "record")
    /\ UNCHANGED <<projectStatus, investments, donorRecords, raised, credited,
                   address, recorded, stamped>>

\* 6. and 7. Save the NFT on the investment, then on the transaction.
RunRecord(w) ==
    /\ run[w].pc = "record"
    /\ recorded' = Bump(recorded, w)
    /\ Goto(w, "stamp")
    /\ UNCHANGED <<projectStatus, investments, donorRecords, raised, credited,
                   address, minted, holders, stamped>>

RunStamp(w) ==
    /\ run[w].pc = "stamp"
    /\ stamped' = [stamped EXCEPT ![run[w].tx] = TRUE]
    /\ Finish(w)
    /\ UNCHANGED <<projectStatus, investments, donorRecords, raised, credited,
                   address, minted, holders, recorded>>

\* An awaited call throws.  The inner try of step 3 carries on with step 4,
\* every other catch ends the run.
RunThrows(w) ==
    /\ Faults /\ run[w].pc # "idle"
    /\ IF run[w].pc \in {"fund", "increment", "donor", "credit"}
       THEN Goto(w, "custody") ELSE Finish(w)
    /\ UNCHANGED <<projectStatus, investments, donorRecords, raised, credited,
                   address, minted, holders, recorded, stamped>>

-----------------------------------------------------------------------------
(* The administrator's decide() takes any project to one of three statuses, *)
(* the operator's deployment script to FUNDING.                             *)

Decide(s) ==
    /\ projectStatus' = s
    /\ UNCHANGED <<investments, donorRecords, raised, credited,
                   address, minted, holders, recorded, stamped, run>>

OpenFunding ==
    /\ projectStatus' = "FUNDING"
    /\ UNCHANGED <<investments, donorRecords, raised, credited,
                   address, minted, holders, recorded, stamped, run>>

RunStep(w) ==
    \/ RunCheck(w) \/ RunCreate(w) \/ RunFund(w) \/ RunIncrement(w) \/ RunDonor(w)
    \/ RunCredit(w) \/ RunCustody(w) \/ RunKeygen(w) \/ RunMint(w) \/ RunRecord(w)
    \/ RunStamp(w)

ProjectStep ==
    \/ \E s \in {"APPROVED", "REJECTED", "CHANGES_REQUESTED"} : Decide(s)
    \/ OpenFunding

LisNext ==
    \/ \E w \in Workers : RunStep(w) \/ RunThrows(w)
    \/ ProjectStep
=============================================================================
