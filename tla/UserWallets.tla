----------------------------- MODULE UserWallets -----------------------------
(***************************************************************************)
(* users.service.ts: whose wallet is whose.  A user has a primary wallet   *)
(* or none, which a unique index protects, and linked ones, which only the *)
(* service's own lookups protect.  createUser and linkWallet look for each *)
(* wallet first and store it afterwards.                                   *)
(***************************************************************************)
EXTENDS Naturals, FiniteSets

CONSTANTS
    Members,       \* users
    Wallets,
    NoWallet,      \* no primary wallet
    Forms,         \* requests, each used once
    FormsTogether  \* requests in progress at the same time

ASSUME UserWalletsAssumption ==
    /\ IsFiniteSet(Forms) /\ FormsTogether \in Nat
    /\ Members # {} /\ NoWallet \notin Wallets

VARIABLES
    users,   \* [Members -> the stored user, if there is one]
    form     \* [Forms -> the request]

userWallets == <<users, form>>

User == [stored : BOOLEAN, primary : Wallets \cup {NoWallet}, linked : SUBSET Wallets]

\* A request to create the user or to link a wallet; wanted: the wallets still to
\* be looked for; found: those that were free.
Form == [pc : {"new", "check", "done"}, op : {"create", "link"}, member : Members,
         primary : Wallets \cup {NoWallet}, wanted : SUBSET Wallets, free : SUBSET Wallets]

UserWalletsTypeOK == users \in [Members -> User] /\ form \in [Forms -> Form]

NoUser == [stored |-> FALSE, primary |-> NoWallet, linked |-> {}]

NoForm == LET m == CHOOSE m \in Members : TRUE
          IN  [pc |-> "new", op |-> "link", member |-> m, primary |-> NoWallet,
               wanted |-> {}, free |-> {}]

UserWalletsInit ==
    /\ users = [m \in Members |-> NoUser]
    /\ form = [f \in Forms |-> NoForm]

Pending == {f \in Forms : form[f].pc = "check"}

Close(f) == form' = [form EXCEPT ![f] = [NoForm EXCEPT !.pc = "done"]]

Owners(w) == {m \in Members : users[m].primary = w \/ w \in users[m].linked}

-----------------------------------------------------------------------------

\* createUser; normalizeLinkedWallets takes the primary wallet out of the linked
\* ones.
CreateUser(f, m, primary, linked) ==
    /\ form[f].pc = "new" /\ Cardinality(Pending) < FormsTogether
    /\ ~users[m].stored /\ \A g \in Pending : form[g].op = "create" => form[g].member # m
    /\ form' = [form EXCEPT ![f] =
         [pc |-> "check", op |-> "create", member |-> m, primary |-> primary,
          wanted |-> (linked \cup {primary}) \cap Wallets, free |-> {}]]
    /\ UNCHANGED users

\* linkWallet reads the user: the primary wallet is not linked, too.
LinkWallet(f, m, w) ==
    /\ form[f].pc = "new" /\ Cardinality(Pending) < FormsTogether
    /\ users[m].stored /\ users[m].primary # w
    /\ form' = [form EXCEPT ![f] =
         [pc |-> "check", op |-> "link", member |-> m, primary |-> NoWallet,
          wanted |-> {w}, free |-> {}]]
    /\ UNCHANGED users

\* Mutant of Holder: linked wallets are not looked at.
PrimaryHolder(w) == {m \in Members : users[m].primary = w}

\* findByWallet returns one of these users.
Holder(w) == Owners(w)

\* The primary wallet is looked for first.
Wanted(f, w) ==
    /\ form[f].pc = "check" /\ w \in form[f].wanted
    /\ form[f].primary \in form[f].wanted => w = form[f].primary

\* ensureWalletAvailable: the wallet is nobody's, or the user's that was returned.
EnsureWalletAvailable(f, w) ==
    /\ Wanted(f, w)
    /\ \/ Holder(w) = {} \/ (form[f].op = "link" /\ form[f].member \in Holder(w))
    /\ form' = [form EXCEPT ![f].wanted = @ \ {w}, ![f].free = @ \cup {w}]
    /\ UNCHANGED users

WalletIsTaken(f, w) ==
    /\ Wanted(f, w)
    /\ \E m \in Holder(w) : form[f].op = "create" \/ form[f].member # m
    /\ Close(f)
    /\ UNCHANGED users

\* The user is created, unless the index on primaryWallet refuses.
StoreUser(f) ==
    /\ form[f].pc = "check" /\ form[f].op = "create" /\ form[f].wanted = {}
    /\ LET p == form[f].primary
       IN  users' = IF p # NoWallet /\ \E m \in Members : users[m].primary = p THEN users
                    ELSE [users EXCEPT ![form[f].member] =
                            [stored |-> TRUE, primary |-> p, linked |-> form[f].free \ {p}]]
    /\ Close(f)

\* addLinkedWallet.
AddLinkedWallet(f) ==
    /\ form[f].pc = "check" /\ form[f].op = "link" /\ form[f].wanted = {}
    /\ users' = [users EXCEPT ![form[f].member].linked = @ \cup form[f].free]
    /\ Close(f)

\* unlinkWallet is one update.
UnlinkWallet(m, w) ==
    /\ w \in users[m].linked
    /\ users' = [users EXCEPT ![m].linked = @ \ {w}]
    /\ UNCHANGED form

\* A call throws, or the server stops.
Drop(f) == f \in Pending /\ Close(f) /\ UNCHANGED users

UserWalletsNext ==
    \/ \E f \in Forms :
         \/ \E m \in Members, p \in Wallets \cup {NoWallet}, l \in SUBSET Wallets : CreateUser(f, m, p, l)
         \/ \E m \in Members, w \in Wallets : LinkWallet(f, m, w)
         \/ \E w \in Wallets : EnsureWalletAvailable(f, w) \/ WalletIsTaken(f, w)
         \/ StoreUser(f) \/ AddLinkedWallet(f) \/ Drop(f)
    \/ \E m \in Members, w \in Wallets : UnlinkWallet(m, w)

UserWalletsSpec == UserWalletsInit /\ [][UserWalletsNext]_userWallets

-----------------------------------------------------------------------------

\* Requests that look for a wallet at the same time all find it free and store it.
\* So a wallet has as many owners as requests overlap, and no more however many
\* follow.
OwnersBounded == \A w \in Wallets : Cardinality(Owners(w)) <= FormsTogether
=============================================================================
