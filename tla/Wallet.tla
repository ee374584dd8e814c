------------------------------- MODULE Wallet -------------------------------
(***************************************************************************)
(* The in-app wallets of PaymentsService, in one currency: getOrCreateWallet, *)
(* processWalletInvestment, withdrawFromWallet with its platform fee, and  *)
(* the credit of a donation by PaymentInvestmentListener.  depositToWallet *)
(* never moves money: it passes 'wallet-deposit' where an ObjectId is      *)
(* built, which throws.                                                    *)
(*                                                                         *)
(* Each request is made once.  It reads the wallet, may await the gateway, *)
(* and saves an absolute balance computed from what it had read.           *)
(***************************************************************************)
EXTENDS Naturals, FiniteSets

CONSTANTS
    Owners,         \* the users with a wallet
    Treasury,       \* KEIBO_TREASURY_USER_ID
    Visits,         \* requests that only get or create the wallet (deposits, balance)
    Credits,        \* donations to be credited to their owner
    Investments,    \* wallet investments
    Withdrawals,    \* withdrawals
    Owner, Amount,  \* whose wallet a request is for, and how much
    Parallel,       \* requests in progress at the same time (a bound)
    Faults          \* may awaited calls throw?

Requests == Visits \cup Credits \cup Investments \cup Withdrawals

ASSUME OwnersAssumption == Treasury \in Owners
ASSUME RequestsAssumption ==
    /\ IsFiniteSet(Requests)
    /\ Credits \cap (Visits \cup Investments \cup Withdrawals) = {}
    /\ Visits \cap (Investments \cup Withdrawals) = {}
    /\ Investments \cap Withdrawals = {}
    /\ Owner \in [Requests -> Owners] /\ Amount \in [Requests -> Nat \ {0}]
ASSUME ParallelAssumption == Parallel \in Nat \ {0}
ASSUME WalletFaultsAssumption == Faults \in BOOLEAN

VARIABLES
    opened,    \* owners whose wallet document exists
    balance,   \* [Owners -> fiatBalance stored]
    pc, seen,  \* [Requests -> where the handler is, and the balance it read]
    credited,  \* [Owners -> what was ever credited by a save]
    spent,     \* [Owners -> what was really invested or paid out, fee included]
    charged    \* the platform fees really kept from payouts

vars == <<opened, balance, pc, seen, credited, spent, charged>>

Pc == {"new", "find", "create", "payout", "save",
       "feeFind", "feeCreate", "feeSave", "row", "done"}

TypeOK ==
    /\ opened \subseteq Owners
    /\ balance \in [Owners -> Nat]
    /\ pc \in [Requests -> Pc] /\ seen \in [Requests -> Nat]
    /\ credited \in [Owners -> Nat] /\ spent \in [Owners -> Nat] /\ charged \in Nat

Init ==
    /\ opened = {}
    /\ balance = [o \in Owners |-> 0]
    /\ pc = [r \in Requests |-> "new"] /\ seen = [r \in Requests |-> 0]
    /\ credited = [o \in Owners |-> 0] /\ spent = [o \in Owners |-> 0] /\ charged = 0

-----------------------------------------------------------------------------

Active == {r \in Requests : pc[r] \notin {"new", "done"}}

Goto(r, p) == pc' = [pc EXCEPT ![r] = p]

Read(r, b) == seen' = [seen EXCEPT ![r] = b]

\* Math.ceil(amount * 0.02)
Fee(a) == (2 * a + 99) \div 100

Request(r) ==
    /\ pc[r] = "new" /\ Cardinality(Active) < Parallel
    /\ Goto(r, "find")
    /\ UNCHANGED <<opened, balance, seen, credited, spent, charged>>

\* Mutant of With: the balance is not looked at.
WithUnchecked(r, b) ==
    CASE r \in Visits -> "done"
      [] r \in Credits \cup Investments -> "save"
      [] r \in Withdrawals -> "payout"

\* Where a handler goes with the wallet it got: the balance it read has to
\* cover an investment or a withdrawal.  (A withdrawal without a valid method
\* ends here too; it is as if it was never requested.)
With(r, b) ==
    CASE r \in Visits -> "done"
      [] r \in Credits -> "save"
      [] r \in Investments -> IF b >= Amount[r] THEN "save" ELSE "done"
      [] r \in Withdrawals -> IF b >= Amount[r] THEN "payout" ELSE "done"

\* getOrCreateWallet: findOne ...
Find(r) ==
    /\ pc[r] = "find"
    /\ IF Owner[r] \in opened
       THEN Read(r, balance[Owner[r]]) /\ Goto(r, With(r, balance[Owner[r]]))
       ELSE seen' = seen /\ Goto(r, "create")
    /\ UNCHANGED <<opened, balance, credited, spent, charged>>

\* ... then create, which the unique index on userId refuses the second time.
Create(r) ==
    /\ pc[r] = "create"
    /\ IF Owner[r] \in opened
       THEN opened' = opened /\ seen' = seen /\ Goto(r, "done")
       ELSE /\ opened' = opened \cup {Owner[r]}
            /\ Read(r, 0) /\ Goto(r, With(r, 0))
    /\ UNCHANGED <<balance, credited, spent, charged>>

\* processPayout: Flutterwave sends the amount less the fee.
Payout(r) ==
    /\ pc[r] = "payout"
    /\ spent' = [spent EXCEPT ![Owner[r]] = @ + Amount[r]]
    /\ charged' = charged + Fee(Amount[r])
    /\ Goto(r, "save")
    /\ UNCHANGED <<opened, balance, seen, credited>>

\* Mutant of PayoutLost: a failed payout is refunded, though nothing was debited.
PayoutLostRefunded(r) ==
    /\ Faults /\ pc[r] = "payout"
    /\ spent' = [spent EXCEPT ![Owner[r]] = @ + Amount[r]]
    /\ charged' = charged + Fee(Amount[r])
    /\ balance' = [balance EXCEPT ![Owner[r]] = seen[r] + Amount[r]]
    /\ Goto(r, "done")
    /\ UNCHANGED <<opened, seen, credited>>

\* Flutterwave sends the money and its answer is lost: processPayout throws.
PayoutLost(r) ==
    /\ Faults /\ pc[r] = "payout"
    /\ spent' = [spent EXCEPT ![Owner[r]] = @ + Amount[r]]
    /\ charged' = charged + Fee(Amount[r])
    /\ Goto(r, "done")
    /\ UNCHANGED <<opened, balance, seen, credited>>

\* The listener credits a donation.
SaveCredit(r) ==
    /\ r \in Credits /\ pc[r] = "save"
    /\ balance' = [balance EXCEPT ![Owner[r]] = seen[r] + Amount[r]]
    /\ credited' = [credited EXCEPT ![Owner[r]] = @ + Amount[r]]
    /\ Goto(r, "done")
    /\ UNCHANGED <<opened, seen, spent, charged>>

\* Mutant of SaveDebit: only the payout is deducted, not the fee.
SaveDebitNet(r) ==
    /\ r \in Investments \cup Withdrawals /\ pc[r] = "save"
    /\ balance' = [balance EXCEPT ![Owner[r]] = seen[r] - (Amount[r] - Fee(Amount[r]))]
    /\ Goto(r, IF r \in Withdrawals THEN "feeFind" ELSE "row")
    /\ UNCHANGED <<opened, seen, credited, spent, charged>>

\* An investment is debited before its row exists, a withdrawal after its payout.
SaveDebit(r) ==
    /\ r \in Investments \cup Withdrawals /\ pc[r] = "save"
    /\ balance' = [balance EXCEPT ![Owner[r]] = seen[r] - Amount[r]]
    /\ Goto(r, IF r \in Withdrawals THEN "feeFind" ELSE "row")
    /\ UNCHANGED <<opened, seen, credited, spent, charged>>

\* The fee is credited to the treasury's wallet the same way.
FeeFind(r) ==
    /\ pc[r] = "feeFind"
    /\ IF Treasury \in opened
       THEN Read(r, balance[Treasury]) /\ Goto(r, "feeSave")
       ELSE seen' = seen /\ Goto(r, "feeCreate")
    /\ UNCHANGED <<opened, balance, credited, spent, charged>>

\* A second create throws, and the fee is given up.
FeeCreate(r) ==
    /\ pc[r] = "feeCreate"
    /\ IF Treasury \in opened
       THEN opened' = opened /\ seen' = seen /\ Goto(r, "row")
       ELSE opened' = opened \cup {Treasury} /\ Read(r, 0) /\ Goto(r, "feeSave")
    /\ UNCHANGED <<balance, credited, spent, charged>>

\* Mutant of FeeSave: the fee replaces the treasury's balance.
FeeSaveAlone(r) ==
    /\ pc[r] = "feeSave"
    /\ balance' = [balance EXCEPT ![Treasury] = Fee(Amount[r])]
    /\ credited' = [credited EXCEPT ![Treasury] = @ + Fee(Amount[r])]
    /\ Goto(r, "row")
    /\ UNCHANGED <<opened, seen, spent, charged>>

FeeSave(r) ==
    /\ pc[r] = "feeSave"
    /\ balance' = [balance EXCEPT ![Treasury] = seen[r] + Fee(Amount[r])]
    /\ credited' = [credited EXCEPT ![Treasury] = @ + Fee(Amount[r])]
    /\ Goto(r, "row")
    /\ UNCHANGED <<opened, seen, spent, charged>>

\* The transaction row; with it an investment takes effect.
Row(r) ==
    /\ pc[r] = "row"
    /\ spent' = IF r \in Investments THEN [spent EXCEPT ![Owner[r]] = @ + Amount[r]] ELSE spent
    /\ Goto(r, "done")
    /\ UNCHANGED <<opened, balance, seen, credited, charged>>

\* An awaited call throws; only the treasury's credit is inside a try.  A crash
\* is the same for every request in progress.
Throws(r) ==
    /\ Faults /\ r \in Active
    /\ Goto(r, IF pc[r] \in {"feeFind", "feeCreate", "feeSave"} THEN "row" ELSE "done")
    /\ UNCHANGED <<opened, balance, seen, credited, spent, charged>>

Step(r) ==
    \/ Find(r) \/ Create(r) \/ Payout(r) \/ SaveCredit(r) \/ SaveDebit(r)
    \/ FeeFind(r) \/ FeeCreate(r) \/ FeeSave(r) \/ Row(r)

Next == \E r \in Requests : Request(r) \/ Step(r) \/ PayoutLost(r) \/ Throws(r)

Spec == Init /\ [][Next]_vars

-----------------------------------------------------------------------------

\* However requests interleave, overwrite each other's balance or fail, no
\* wallet ever holds more than was credited to it.
HeldWasCredited == \A o \in Owners : balance[o] <= credited[o]

\* "Check balance", "Deduct full requested amount": no more is invested and paid
\* out than was credited.
NeverOverdrawn == \A o \in Owners : spent[o] <= credited[o]

\* "The fee goes to the Keibo Treasury wallet".
FeesArrive ==
    Active = {} => balance[Treasury] + spent[Treasury] >= charged

\* Between requests every balance is what came in less what went out.
BalancesExact ==
    Active = {} => \A o \in Owners : balance[o] + spent[o] = credited[o]

\* The wallets are the accounts they promise to be.
Acc == INSTANCE Account WITH
    Sums <- {Amount[r] : r \in Requests} \cup {Fee(Amount[r]) : r \in Requests},
    funds <- [o \in Owners |-> credited[o] - spent[o]]

MeetsAccount == Acc!Spec

-----------------------------------------------------------------------------
(* The inductive strengthening of the safety properties.                   *)

\* Each request is where its kind may be, and a debit is covered by what was read.
PlacesOK ==
    \A r \in Requests :
        /\ pc[r] = "payout" => r \in Withdrawals
        /\ pc[r] = "save" => r \notin Visits
        /\ pc[r] \in {"feeFind", "feeCreate", "feeSave"} => r \in Withdrawals
        /\ pc[r] = "row" => r \in Investments \cup Withdrawals
        /\ pc[r] \in {"payout", "save"} /\ r \notin Credits => seen[r] >= Amount[r]

\* What a request has read was credited before.
ReadWasCredited ==
    \A r \in Requests :
        /\ pc[r] \in {"payout", "save"} => seen[r] <= credited[Owner[r]]
        /\ pc[r] = "feeSave" => seen[r] <= credited[Treasury]

\* A wallet is opened before it is read or saved.
OpenedFirst ==
    /\ \A o \in Owners \ opened : balance[o] = 0
    /\ \A r \in Requests :
         /\ pc[r] \in {"payout", "save"} => Owner[r] \in opened
         /\ pc[r] = "feeSave" => Treasury \in opened

HeldInv == TypeOK /\ PlacesOK /\ OpenedFirst /\ ReadWasCredited /\ HeldWasCredited

\* With one request at a time, or with requests that never meet at a wallet, what
\* a request read is what is stored.
OneActive == \A q, r \in Active : q = r

AtTheFee(r) == pc[r] \in {"feeFind", "feeCreate", "feeSave"}

WalletsApart ==
    \A q, r \in Active : q # r =>
        /\ Owner[q] # Owner[r]
        /\ AtTheFee(q) => ~ AtTheFee(r) /\ Owner[r] # Treasury

ReadIsStored ==
    \A r \in Requests :
        /\ pc[r] \in {"payout", "save"} => seen[r] = balance[Owner[r]]
        /\ pc[r] = "feeSave" => seen[r] = balance[Treasury]

PaidNotDebited(r, o) == r \in Withdrawals /\ pc[r] = "save" /\ Owner[r] = o

DebitedNotInvested(r, o) == r \in Investments /\ pc[r] = "row" /\ Owner[r] = o

\* The stored balance is really there, but for the request about to settle it.
BalanceIsThere ==
    \A o \in Owners :
        /\ \/ balance[o] + spent[o] <= credited[o]
           \/ \E r \in Requests :
                PaidNotDebited(r, o) /\ balance[o] + spent[o] <= credited[o] + Amount[r]
        /\ \A r \in Requests :
             DebitedNotInvested(r, o) => balance[o] + Amount[r] + spent[o] <= credited[o]

ApartInv == HeldInv /\ ReadIsStored /\ BalanceIsThere
\* Every balance is what came in less what went out, but for the request about to
\* settle it.
Exact ==
    \A o \in Owners :
        /\ (\A r \in Requests : ~PaidNotDebited(r, o) /\ ~DebitedNotInvested(r, o)) =>
             balance[o] + spent[o] = credited[o]
        /\ \A r \in Requests : PaidNotDebited(r, o) =>
             balance[o] + spent[o] = credited[o] + Amount[r]
        /\ \A r \in Requests : DebitedNotInvested(r, o) =>
             balance[o] + Amount[r] + spent[o] = credited[o]

\* The fees of the requests R together: the number of their units.
FeesOf(R) == Cardinality(UNION {{r} \X (1..Fee(Amount[r])) : r \in R})

Owing == {r \in Withdrawals : pc[r] = "save" \/ AtTheFee(r)}

\* The fees kept have reached the treasury, but for those on their way; such a fee
\* finds a wallet or opens one.
FeesOK ==
    /\ charged <= credited[Treasury] + FeesOf(Owing)
    /\ \A r \in Requests : pc[r] = "feeCreate" => Treasury \notin opened

ExactInv == ApartInv /\ Exact /\ FeesOK
=============================================================================
