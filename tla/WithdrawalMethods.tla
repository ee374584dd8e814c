-------------------------- MODULE WithdrawalMethods --------------------------
(***************************************************************************)
(* The withdrawal methods of one wallet: addWithdrawalMethod calls, which  *)
(* read the wallet, change its array and save it, and withdrawals, which   *)
(* name a method by its index in the array the user saw.                   *)
(*                                                                         *)
(* What save() sends is Mongoose's: a push alone goes out as $push and     *)
(* increments the document's version; a push next to a change of an older  *)
(* element goes out as $set of the whole array, and only if the version is *)
(* the one that was read.                                                  *)
(***************************************************************************)
EXTENDS Naturals, Sequences, FiniteSets

CONSTANTS
    Adders,         \* addWithdrawalMethod calls, each with an account of its own
    AsDefault,      \* those with dto.isDefault
    Payers,         \* withdrawals
    CallsTogether   \* addWithdrawalMethod calls in progress at a time (a bound)

ASSUME AddersAssumption == IsFiniteSet(Adders) /\ AsDefault \subseteq Adders
ASSUME CallsTogetherAssumption == CallsTogether \in Nat \ {0}

VARIABLES
    methods,          \* withdrawalMethods
    methodsVersion,   \* __v
    adding,           \* [Adders -> progress, and the array and version read]
    paying            \* [Payers -> progress, the index sent, the accounts wanted and paid]

withdrawalMethods == <<methods, methodsVersion, adding, paying>>

\* isActive is TRUE for good, and type and provider go with the account.
WithdrawalMethod == [account : Adders, isDefault : BOOLEAN]

WithdrawalMethodsTypeOK ==
    /\ methods \in Seq(WithdrawalMethod)
    /\ methodsVersion \in Nat
    /\ adding \in [Adders -> [pc : {"new", "save", "done"},
                              copy : Seq(WithdrawalMethod), version : Nat]]
    /\ paying \in [Payers -> [pc : {"new", "asked", "done"}, index : Nat,
                              wanted : SUBSET Adders, paid : SUBSET Adders]]

WithdrawalMethodsInit ==
    /\ methods = <<>>
    /\ methodsVersion = 0
    /\ adding = [a \in Adders |-> [pc |-> "new", copy |-> <<>>, version |-> 0]]
    /\ paying = [p \in Payers |-> [pc |-> "new", index |-> 0, wanted |-> {}, paid |-> {}]]

-----------------------------------------------------------------------------

ReadWallet(a) ==
    /\ adding[a].pc = "new"
    /\ Cardinality({b \in Adders : adding[b].pc = "save"}) < CallsTogether
    /\ adding' = [adding EXCEPT ![a] = [pc |-> "save", copy |-> methods,
                                        version |-> methodsVersion]]
    /\ UNCHANGED <<methods, methodsVersion, paying>>

\* "If setting as default, unset other defaults".
Unset(s) == [i \in DOMAIN s |-> [s[i] EXCEPT !.isDefault = FALSE]]

Added(a) == [account |-> a, isDefault |-> a \in AsDefault]

\* Does the call change an element it read?
ChangesOlder(a) ==
    a \in AsDefault /\ \E i \in DOMAIN adding[a].copy : adding[a].copy[i].isDefault

Leave(a) == adding' = [adding EXCEPT ![a].pc = "done"]

\* Mutant of SetMethods: the array is written whatever the version.
SetMethodsBlind(a) ==
    /\ adding[a].pc = "save" /\ ChangesOlder(a)
    /\ methods' = Append(Unset(adding[a].copy), Added(a))
    /\ methodsVersion' = methodsVersion + 1
    /\ Leave(a)
    /\ UNCHANGED paying

\* Another version than the one read makes save() throw.
SetMethods(a) ==
    /\ adding[a].pc = "save" /\ ChangesOlder(a)
    /\ IF methodsVersion = adding[a].version
       THEN /\ methods' = Append(Unset(adding[a].copy), Added(a))
            /\ methodsVersion' = methodsVersion + 1
       ELSE UNCHANGED <<methods, methodsVersion>>
    /\ Leave(a)
    /\ UNCHANGED paying

PushMethod(a) ==
    /\ adding[a].pc = "save" /\ ~ChangesOlder(a)
    /\ methods' = Append(methods, Added(a))
    /\ methodsVersion' = methodsVersion + 1
    /\ Leave(a)
    /\ UNCHANGED paying

\* The user chooses a method of those shown.
Choose(p, i) ==
    /\ paying[p].pc = "new" /\ i \in DOMAIN methods
    /\ paying' = [paying EXCEPT ![p].pc = "asked", ![p].index = i,
                                ![p].wanted = {methods[i].account}]
    /\ UNCHANGED <<methods, methodsVersion, adding>>

\* The payout goes to the method now at the index.
PayOut(p) ==
    /\ paying[p].pc = "asked"
    /\ paying' = [paying EXCEPT ![p].pc = "done",
         ![p].paid = {methods[i].account : i \in {paying[p].index} \cap DOMAIN methods}]
    /\ UNCHANGED <<methods, methodsVersion, adding>>

WithdrawalMethodsNext ==
    \/ \E a \in Adders : ReadWallet(a) \/ SetMethods(a) \/ PushMethod(a)
    \/ \E p \in Payers : PayOut(p) \/ \E i \in 1..Cardinality(Adders) : Choose(p, i)

WithdrawalMethodsSpec ==
    WithdrawalMethodsInit /\ [][WithdrawalMethodsNext]_withdrawalMethods

-----------------------------------------------------------------------------

\* However additions overlap, and whichever becomes the default, a withdrawal
\* pays the account the user saw at the index he sent.
ChosenIsPaid == \A p \in Payers : paying[p].pc = "done" => paying[p].paid = paying[p].wanted
=============================================================================
