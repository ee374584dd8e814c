-------------------------- MODULE BackOfficeProofs --------------------------
(***************************************************************************)
(* Proofs about the users' wallets, a document of the deal room, the       *)
(* documents of minted tokens, one wallet's withdrawal methods, the        *)
(* approvals of a milestone and the treasury, for any number of requests.  *)
(***************************************************************************)
EXTENDS MilestoneLocks, Treasury, DealRoom, UserWallets, WithdrawalMethods, NftRecords,
        FiniteSetTheorems, SequenceTheorems, TLAPS

-----------------------------------------------------------------------------
\* The wallets of users.

\* Those who own a wallet or are about to: requests in progress that found it free.
Claimants(w) ==
    Owners(w) \cup {m \in Members : \E f \in Pending : form[f].member = m /\ w \in form[f].free}

\* A primary wallet is looked for before it is stored.
PrimarySought ==
    \A f \in Pending :
        form[f].primary \in Wallets => form[f].primary \in form[f].wanted \cup form[f].free

PendingBounded == Cardinality(Pending) <= FormsTogether

\* Owners alone would not do: the requests that found a wallet free add to them.
ClaimsBounded ==
    \A w \in Wallets :
        IsFiniteSet(Claimants(w)) /\ Cardinality(Claimants(w)) <= FormsTogether

UserWalletsIInv == UserWalletsTypeOK /\ PrimarySought /\ PendingBounded /\ ClaimsBounded

LEMMA PendingFinite ==
    /\ IsFiniteSet(Pending) /\ Cardinality(Pending) \in Nat
    /\ IsFiniteSet(Pending') /\ Cardinality(Pending') \in Nat
<1>1. Pending \subseteq Forms /\ Pending' \subseteq Forms
  BY DEF Pending
<1> QED BY <1>1, UserWalletsAssumption, FS_Subset, FS_CardinalityType

LEMMA NoFormType == NoForm \in Form
<1>1. (CHOOSE m \in Members : TRUE) \in Members
  BY UserWalletsAssumption
<1> QED BY <1>1 DEF NoForm, Form

LEMMA UserWalletsInitInv == UserWalletsInit => UserWalletsIInv
<1> SUFFICES ASSUME UserWalletsInit PROVE UserWalletsIInv
  OBVIOUS
<1>1. UserWalletsTypeOK
  BY NoFormType DEF UserWalletsInit, UserWalletsTypeOK, User, NoUser
<1>2. Pending = {}
  BY DEF UserWalletsInit, Pending, NoForm
<1>3. PrimarySought
  BY <1>2 DEF PrimarySought
<1>4. \A w \in Wallets : Claimants(w) = {}
  BY <1>2, UserWalletsAssumption DEF UserWalletsInit, Claimants, Owners, NoUser
<1> QED BY <1>1, <1>2, <1>3, <1>4, FS_EmptySet, UserWalletsAssumption
        DEF UserWalletsIInv, PendingBounded, ClaimsBounded

\* A step after which nobody new claims a wallet keeps the bound.
LEMMA NobodyNew ==
    ASSUME ClaimsBounded, \A w \in Wallets : Claimants(w)' \subseteq Claimants(w)
    PROVE  ClaimsBounded'
<1> SUFFICES ASSUME NEW w \in Wallets
             PROVE  IsFiniteSet(Claimants(w)') /\ Cardinality(Claimants(w)') <= FormsTogether
  BY DEF ClaimsBounded
<1>1. IsFiniteSet(Claimants(w)) /\ Cardinality(Claimants(w)) <= FormsTogether
  BY DEF ClaimsBounded
<1>2. Claimants(w)' \in SUBSET Claimants(w)
  OBVIOUS
<1>3. IsFiniteSet(Claimants(w)') /\ Cardinality(Claimants(w)') <= Cardinality(Claimants(w))
  BY <1>1, <1>2, FS_Subset
<1>4. Cardinality(Claimants(w)) \in Nat /\ Cardinality(Claimants(w)') \in Nat
  BY <1>1, <1>3, FS_CardinalityType
<1> QED BY <1>1, <1>3, <1>4, UserWalletsAssumption

\* A request begins.
LEMMA OpensForm ==
    ASSUME UserWalletsIInv, NEW f \in Forms, form[f].pc = "new", UNCHANGED users,
           Cardinality(Pending) < FormsTogether, NEW r \in Form, r.pc = "check",
           r.free = {}, r.primary \in Wallets => r.primary \in r.wanted,
           form' = [form EXCEPT ![f] = r]
    PROVE  UserWalletsIInv'
<1>1. UserWalletsTypeOK'
  BY DEF UserWalletsIInv, UserWalletsTypeOK
<1>2. Pending' = Pending \cup {f} /\ f \notin Pending
  BY DEF UserWalletsIInv, UserWalletsTypeOK, Pending
<1>3. form'[f] = r /\ \A g \in Pending : form'[g] = form[g]
  BY <1>2 DEF UserWalletsIInv, UserWalletsTypeOK
<1>4. PrimarySought'
  BY <1>2, <1>3 DEF UserWalletsIInv, PrimarySought
<1>5. PendingBounded'
  <2>1. Cardinality(Pending') = Cardinality(Pending) + 1
    BY <1>2, PendingFinite, FS_AddElement
  <2> QED BY <2>1, PendingFinite, UserWalletsAssumption DEF PendingBounded
<1>6. \A w \in Wallets : Claimants(w)' \subseteq Claimants(w)
  <2> SUFFICES ASSUME NEW w \in Wallets, NEW m \in Claimants(w)' PROVE m \in Claimants(w)
    OBVIOUS
  <2>1. Owners(w)' = Owners(w)
    BY DEF Owners
  <2> QED BY <2>1, <1>2, <1>3 DEF Claimants
<1> QED BY <1>1, <1>4, <1>5, <1>6, NobodyNew DEF UserWalletsIInv

\* A request ends; those who own more than before were claimants already.
LEMMA ClosesForm ==
    ASSUME UserWalletsIInv, NEW f \in Pending, Close(f), users' \in [Members -> User],
           \A w \in Wallets : Owners(w)' \subseteq Claimants(w)
    PROVE  UserWalletsIInv'
<1>0. f \in Forms
  BY DEF Pending
<1>1. UserWalletsTypeOK'
  <2>1. [NoForm EXCEPT !.pc = "done"] \in Form
    BY NoFormType DEF Form
  <2> QED BY <2>1, <1>0 DEF UserWalletsIInv, UserWalletsTypeOK, Close
<1>2. Pending' \subseteq Pending /\ \A g \in Pending' : form'[g] = form[g]
  BY <1>0, NoFormType DEF Pending, Close, UserWalletsIInv, UserWalletsTypeOK, Form
<1>3. PrimarySought'
  BY <1>2 DEF UserWalletsIInv, PrimarySought
<1>4. PendingBounded'
  <2>1. Cardinality(Pending') <= Cardinality(Pending)
    BY <1>2, PendingFinite, FS_Subset
  <2> QED BY <2>1, PendingFinite, UserWalletsAssumption DEF UserWalletsIInv, PendingBounded
<1>5. \A w \in Wallets : Claimants(w)' \subseteq Claimants(w)
  <2> SUFFICES ASSUME NEW w \in Wallets, NEW m \in Claimants(w)' PROVE m \in Claimants(w)
    OBVIOUS
  <2>1. CASE m \in Owners(w)'
    BY <2>1
  <2>2. CASE m \notin Owners(w)'
    <3>1. \E g \in Pending' : form'[g].member = m /\ w \in form'[g].free /\ m \in Members
      BY <2>2 DEF Claimants
    <3> QED BY <3>1, <1>2 DEF Claimants
  <2> QED BY <2>1, <2>2
<1> QED BY <1>1, <1>3, <1>4, <1>5, NobodyNew DEF UserWalletsIInv

LEMMA EnsureInv ==
    ASSUME UserWalletsIInv, NEW f \in Forms, NEW w \in Wallets, EnsureWalletAvailable(f, w)
    PROVE  UserWalletsIInv'
<1> DEFINE r == [form[f] EXCEPT !.wanted = @ \ {w}, !.free = @ \cup {w}]
<1>1. form[f] \in Form /\ form[f].pc = "check" /\ f \in Pending /\ form[f].member \in Members
  BY DEF UserWalletsIInv, UserWalletsTypeOK, EnsureWalletAvailable, Wanted, Pending, Form
<1>2. form' = [form EXCEPT ![f] = r] /\ users' = users
  BY DEF EnsureWalletAvailable
<1>3. /\ r \in Form /\ r.pc = form[f].pc /\ r.member = form[f].member
      /\ r.primary = form[f].primary /\ r.wanted = form[f].wanted \ {w}
      /\ r.free = form[f].free \cup {w}
  BY <1>1 DEF Form
<1> HIDE DEF r
<1>4. UserWalletsTypeOK'
  BY <1>2, <1>3 DEF UserWalletsIInv, UserWalletsTypeOK
<1>5. form'[f] = r /\ \A g \in Forms \ {f} : form'[g] = form[g]
  BY <1>2 DEF UserWalletsIInv, UserWalletsTypeOK
<1>6. Pending' = Pending
  BY <1>1, <1>3, <1>5 DEF Pending
<1>7. PrimarySought'
  BY <1>1, <1>3, <1>5, <1>6 DEF UserWalletsIInv, PrimarySought, Pending
<1>8. \A v \in Wallets : Owners(v)' = Owners(v)
  BY <1>2 DEF Owners
<1>9. ASSUME NEW v \in Wallets, v # w \/ form[f].member \in Owners(w)
      PROVE  Claimants(v)' \subseteq Claimants(v)
  <2> SUFFICES ASSUME NEW m \in Members, NEW g \in Pending, form'[g].member = m,
                      v \in form'[g].free, m \notin Owners(v)
               PROVE  m \in Claimants(v)
    BY <1>6, <1>8 DEF Claimants
  <2>1. CASE g = f
    BY <1>1, <1>3, <1>5, <1>9, <2>1 DEF Claimants
  <2>2. CASE g # f
    BY <1>5, <2>2 DEF Claimants, Pending
  <2> QED BY <2>1, <2>2
<1>10. ASSUME Owners(w) = {}
       PROVE  IsFiniteSet(Claimants(w)') /\ Cardinality(Claimants(w)') <= FormsTogether
  <2> DEFINE S == {g \in Pending : w \in form'[g].free /\ form'[g].member \in Members}
             T == Claimants(w)'
             h == [g \in S |-> form'[g].member]
  <2>1. T = {m \in Members : \E g \in Pending : form'[g].member = m /\ w \in form'[g].free}
    BY <1>6, <1>8, <1>10 DEF Claimants
  <2>2. h \in [S -> T] /\ \A m \in T : \E g \in S : h[g] = m
    <3> HIDE DEF T
    <3> QED BY <2>1
  <2>3. IsFiniteSet(S) /\ Cardinality(S) <= Cardinality(Pending) /\ Cardinality(S) \in Nat
    <3>1. S \in SUBSET Pending
      OBVIOUS
    <3> QED BY <3>1, PendingFinite, FS_Subset, FS_CardinalityType
  <2>4. IsFiniteSet(T) /\ Cardinality(T) <= Cardinality(S)
    <3> HIDE DEF S, T, h
    <3>1. h \in Surjection(S, T)
      BY <2>2 DEF Surjection
    <3> QED BY <3>1, <2>3, FS_Surjection
  <2>5. Cardinality(T) \in Nat
    BY <2>4, FS_CardinalityType
  <2> HIDE DEF S, T, h
  <2>6. Cardinality(T) <= FormsTogether
    BY <2>3, <2>4, <2>5, PendingFinite, UserWalletsAssumption
       DEF UserWalletsIInv, PendingBounded
  <2> QED BY <2>4, <2>6 DEF T
<1>11. ClaimsBounded'
  <2>1. CASE form[f].member \in Owners(w)
    BY <2>1, <1>9, NobodyNew DEF UserWalletsIInv
  <2>2. CASE Owners(w) = {}
    <3> SUFFICES ASSUME NEW v \in Wallets
                 PROVE  IsFiniteSet(Claimants(v)') /\ Cardinality(Claimants(v)') <= FormsTogether
      BY DEF ClaimsBounded
    <3>1. CASE v = w
      BY <3>1, <2>2, <1>10
    <3>2. CASE v # w
      <4>1. Claimants(v)' \in SUBSET Claimants(v)
        BY <3>2, <1>9
      <4>2. IsFiniteSet(Claimants(v)) /\ Cardinality(Claimants(v)) <= FormsTogether
        BY DEF UserWalletsIInv, ClaimsBounded
      <4>3. IsFiniteSet(Claimants(v)') /\ Cardinality(Claimants(v)') <= Cardinality(Claimants(v))
        BY <4>1, <4>2, FS_Subset
      <4>4. Cardinality(Claimants(v)) \in Nat /\ Cardinality(Claimants(v)') \in Nat
        BY <4>2, <4>3, FS_CardinalityType
      <4> QED BY <4>2, <4>3, <4>4, UserWalletsAssumption
    <3> QED BY <3>1, <3>2
  <2> QED BY <2>1, <2>2 DEF EnsureWalletAvailable, Holder
<1> QED BY <1>4, <1>6, <1>7, <1>11 DEF UserWalletsIInv, PendingBounded

LEMMA StoreUserInv ==
    ASSUME UserWalletsIInv, NEW f \in Forms, StoreUser(f)
    PROVE  UserWalletsIInv'
<1> DEFINE m == form[f].member
           p == form[f].primary
           row == [stored |-> TRUE, primary |-> p, linked |-> form[f].free \ {p}]
<1>1. form[f] \in Form /\ f \in Pending /\ Close(f) /\ form[f].wanted = {}
  BY DEF UserWalletsIInv, UserWalletsTypeOK, StoreUser, Pending
<1>2. m \in Members /\ row \in User /\ p \in Wallets \cup {NoWallet}
  BY <1>1 DEF Form, User
<1>3. users' = users \/ users' = [users EXCEPT ![m] = row]
  BY DEF StoreUser
<1>4. p \in Wallets => p \in form[f].free
  BY <1>1 DEF UserWalletsIInv, PrimarySought
<1>5. row.primary = p /\ row.linked \subseteq form[f].free
  OBVIOUS
<1> HIDE DEF row
<1>6. users' \in [Members -> User]
  BY <1>2, <1>3 DEF UserWalletsIInv, UserWalletsTypeOK
<1>7. ASSUME NEW w \in Wallets, NEW n \in Owners(w)'
      PROVE  n \in Claimants(w)
  <2>1. n \in Members /\ (users'[n].primary = w \/ w \in users'[n].linked)
    BY DEF Owners
  <2>2. CASE users'[n] = users[n]
    BY <2>1, <2>2 DEF Owners, Claimants
  <2>3. CASE users'[n] # users[n]
    <3>1. n = m /\ users'[n] = row
      BY <2>1, <2>3, <1>2, <1>3 DEF UserWalletsIInv, UserWalletsTypeOK
    <3>2. w \in form[f].free
      BY <3>1, <2>1, <1>4, <1>5
    <3> QED BY <3>1, <3>2, <1>1, <1>2 DEF Claimants
  <2> QED BY <2>2, <2>3
<1> QED BY <1>1, <1>6, <1>7, ClosesForm

LEMMA AddLinkedWalletInv ==
    ASSUME UserWalletsIInv, NEW f \in Forms, AddLinkedWallet(f)
    PROVE  UserWalletsIInv'
<1> DEFINE m == form[f].member
           row == [users[m] EXCEPT !.linked = @ \cup form[f].free]
<1>1. form[f] \in Form /\ f \in Pending /\ Close(f) /\ m \in Members
  BY DEF UserWalletsIInv, UserWalletsTypeOK, AddLinkedWallet, Pending, Form
<1>2. users[m] \in User /\ users \in [Members -> User]
  BY <1>1 DEF UserWalletsIInv, UserWalletsTypeOK
<1>3. /\ row \in User /\ row.primary = users[m].primary
      /\ row.linked = users[m].linked \cup form[f].free
  BY <1>1, <1>2 DEF User, Form
<1>4. users' = [users EXCEPT ![m] = row]
  BY DEF AddLinkedWallet
<1> HIDE DEF row
<1>5. users' \in [Members -> User] /\ users'[m] = row
  BY <1>1, <1>2, <1>3, <1>4
<1>6. ASSUME NEW w \in Wallets, NEW n \in Owners(w)'
      PROVE  n \in Claimants(w)
  <2>1. n \in Members /\ (users'[n].primary = w \/ w \in users'[n].linked)
    BY DEF Owners
  <2>2. CASE n = m
    BY <2>1, <2>2, <1>1, <1>3, <1>5 DEF Owners, Claimants
  <2>3. CASE n # m
    BY <2>1, <2>3, <1>2, <1>4 DEF Owners, Claimants
  <2> QED BY <2>2, <2>3
<1> QED BY <1>1, <1>5, <1>6, ClosesForm

LEMMA UnlinkWalletInv ==
    ASSUME UserWalletsIInv, NEW m \in Members, NEW w \in Wallets, UnlinkWallet(m, w)
    PROVE  UserWalletsIInv'
<1> DEFINE row == [users[m] EXCEPT !.linked = @ \ {w}]
<1>1. users[m] \in User /\ users \in [Members -> User]
  BY DEF UserWalletsIInv, UserWalletsTypeOK
<1>2. row \in User /\ row.primary = users[m].primary /\ row.linked \subseteq users[m].linked
  BY <1>1 DEF User
<1>3. users' = [users EXCEPT ![m] = row] /\ form' = form
  BY DEF UnlinkWallet
<1> HIDE DEF row
<1>4. UserWalletsTypeOK'
  BY <1>1, <1>2, <1>3 DEF UserWalletsIInv, UserWalletsTypeOK
<1>5. Pending' = Pending
  BY <1>3 DEF Pending
<1>6. PrimarySought' /\ PendingBounded'
  BY <1>3, <1>5 DEF UserWalletsIInv, PrimarySought, PendingBounded
<1>7. \A v \in Wallets : Owners(v)' \subseteq Owners(v)
  BY <1>1, <1>2, <1>3 DEF Owners
<1>8. \A v \in Wallets : Claimants(v)' \subseteq Claimants(v)
  BY <1>3, <1>5, <1>7 DEF Claimants
<1> QED BY <1>4, <1>6, <1>8, NobodyNew DEF UserWalletsIInv

LEMMA UserWalletsStepInv == UserWalletsIInv /\ [UserWalletsNext]_userWallets => UserWalletsIInv'
<1> SUFFICES ASSUME UserWalletsIInv, [UserWalletsNext]_userWallets PROVE UserWalletsIInv'
  OBVIOUS
<1>1. ASSUME NEW f \in Forms, NEW m \in Members, NEW p \in Wallets \cup {NoWallet},
             NEW l \in SUBSET Wallets, CreateUser(f, m, p, l)
      PROVE  UserWalletsIInv'
  <2> DEFINE r == [pc |-> "check", op |-> "create", member |-> m, primary |-> p,
                   wanted |-> (l \cup {p}) \cap Wallets, free |-> {}]
  <2>1. r \in Form
    BY DEF Form
  <2>2. r.pc = "check" /\ r.free = {} /\ (r.primary \in Wallets => r.primary \in r.wanted)
    OBVIOUS
  <2>3. form' = [form EXCEPT ![f] = r]
    BY <1>1 DEF CreateUser
  <2> HIDE DEF r
  <2> QED BY <1>1, <2>1, <2>2, <2>3, OpensForm DEF CreateUser
<1>2. ASSUME NEW f \in Forms, NEW m \in Members, NEW w \in Wallets, LinkWallet(f, m, w)
      PROVE  UserWalletsIInv'
  <2> DEFINE r == [pc |-> "check", op |-> "link", member |-> m, primary |-> NoWallet,
                   wanted |-> {w}, free |-> {}]
  <2>1. r \in Form
    BY DEF Form
  <2>2. r.pc = "check" /\ r.free = {} /\ (r.primary \in Wallets => r.primary \in r.wanted)
    BY UserWalletsAssumption
  <2>3. form' = [form EXCEPT ![f] = r]
    BY <1>2 DEF LinkWallet
  <2> HIDE DEF r
  <2> QED BY <1>2, <2>1, <2>2, <2>3, OpensForm DEF LinkWallet
<1>3. ASSUME NEW f \in Forms, f \in Pending, Close(f), UNCHANGED users
      PROVE  UserWalletsIInv'
  <2>1. users' \in [Members -> User]
    BY <1>3 DEF UserWalletsIInv, UserWalletsTypeOK
  <2>2. \A w \in Wallets : Owners(w)' \subseteq Claimants(w)
    BY <1>3 DEF Owners, Claimants
  <2> QED BY <1>3, <2>1, <2>2, ClosesForm
<1>4. ASSUME NEW f \in Forms, NEW w \in Wallets, WalletIsTaken(f, w)
      PROVE  UserWalletsIInv'
  BY <1>3, <1>4 DEF WalletIsTaken, Wanted, Pending
<1>5. ASSUME NEW f \in Forms, Drop(f)
      PROVE  UserWalletsIInv'
  BY <1>3, <1>5 DEF Drop
<1>6. CASE UNCHANGED userWallets
  <2>1. users' = users /\ form' = form
    BY <1>6 DEF userWallets
  <2>2. Pending' = Pending /\ \A w \in Wallets : Owners(w)' = Owners(w)
    BY <2>1 DEF Pending, Owners
  <2>3. \A w \in Wallets : Claimants(w)' \subseteq Claimants(w)
    BY <2>1, <2>2 DEF Claimants
  <2> QED BY <2>1, <2>2, <2>3, NobodyNew
          DEF UserWalletsIInv, UserWalletsTypeOK, PrimarySought, PendingBounded
<1> QED BY <1>1, <1>2, <1>4, <1>5, <1>6, EnsureInv, StoreUserInv, AddLinkedWalletInv,
           UnlinkWalletInv DEF UserWalletsNext

LEMMA UserWalletsInvariant == UserWalletsSpec => []UserWalletsIInv
  BY UserWalletsInitInv, UserWalletsStepInv, PTL DEF UserWalletsSpec

\* users.service.ts: the types of the stored users and of the requests.
THEOREM UserWalletsTypes == UserWalletsSpec => []UserWalletsTypeOK
<1>1. UserWalletsIInv => UserWalletsTypeOK
  BY DEF UserWalletsIInv
<1> QED BY <1>1, UserWalletsInvariant, PTL

\* A wallet never has more owners than requests may overlap: the lookup before the
\* store limits them, however many requests follow (users.service.ts).
THEOREM OwnersStayFew == UserWalletsSpec => []OwnersBounded
<1>1. UserWalletsIInv => OwnersBounded
  <2> SUFFICES ASSUME UserWalletsIInv, NEW w \in Wallets
               PROVE  Cardinality(Owners(w)) <= FormsTogether
    BY DEF OwnersBounded
  <2>1. IsFiniteSet(Claimants(w)) /\ Cardinality(Claimants(w)) <= FormsTogether
    BY DEF UserWalletsIInv, ClaimsBounded
  <2>2. Owners(w) \in SUBSET Claimants(w)
    BY DEF Claimants
  <2>3. IsFiniteSet(Owners(w)) /\ Cardinality(Owners(w)) <= Cardinality(Claimants(w))
    BY <2>1, <2>2, FS_Subset
  <2>4. Cardinality(Owners(w)) \in Nat /\ Cardinality(Claimants(w)) \in Nat
    BY <2>1, <2>3, FS_CardinalityType
  <2> QED BY <2>1, <2>3, <2>4, UserWalletsAssumption
<1> QED BY <1>1, UserWalletsInvariant, PTL

-----------------------------------------------------------------------------
\* A document of the deal room.

\* What a request is about to write: nobody revoked comes back with it, but for
\* whom it grants; a revocation takes out whom it names.
ListsOK ==
    \A v \in Visits : Writing(v) =>
        /\ \A p \in out \ late : \A e \in visit[v].acl :
             e.who = p => visit[v].op = "grant" /\ visit[v].entry.who = p
        /\ visit[v].op = "revoke" => \A e \in visit[v].acl : e.who # visit[v].entry.who
        /\ visit[v].op = "revokeAll" => visit[v].acl = {}

\* Nobody is revoked before there is a document.
NoneBefore == document.state = "none" => out = {} /\ \A v \in Visits : ~Writing(v)

DealRoomIInv == DealRoomTypeOK /\ ListsOK /\ NoneBefore /\ RevokedStayOut

LEMMA EntryType == \A p \in People : EntryOf(p) \in Entry
  BY DealRoomAssumption DEF EntryOf, Entry, MANAGE

LEMMA UnusedType ==
    /\ Unused \in Visit /\ Unused.pc = "new"
    /\ \A s \in {"done", "over"} :
         [Unused EXCEPT !.pc = s] \in Visit /\ [Unused EXCEPT !.pc = s].pc = s
<1> DEFINE q == CHOOSE p \in People : TRUE
<1>1. q \in People /\ EntryOf(q) \in Entry
  BY DealRoomAssumption, EntryType
<1>2. Unused = [pc |-> "new", op |-> "view", by |-> q, entry |-> EntryOf(q), acl |-> {}]
  BY DEF Unused
<1> HIDE DEF q
<1> QED BY <1>1, <1>2 DEF Visit, Ops

LEMMA DealRoomInitInv == DealRoomInit => DealRoomIInv
<1> SUFFICES ASSUME DealRoomInit PROVE DealRoomIInv
  OBVIOUS
<1>1. DealRoomTypeOK
  BY UnusedType DEF DealRoomInit, DealRoomTypeOK
<1>2. \A v \in Visits : ~Writing(v)
  BY UnusedType DEF DealRoomInit, Writing
<1> QED BY <1>1, <1>2 DEF DealRoomInit, DealRoomIInv, ListsOK, NoneBefore, RevokedStayOut

\* A step after which a request writes nothing, and all else is as it was but for
\* the state, which is not "none" unless it was.
LEMMA QuietVisit ==
    ASSUME DealRoomIInv, NEW v \in Visits, NEW r \in Visit,
           visit' = [visit EXCEPT ![v] = r],
           r.pc = "act" => r.op \notin {"grant", "revoke", "revokeAll"},
           document' \in [state : {"none", "DRAFT", "REVOKED"}, acl : SUBSET Entry],
           document'.acl = document.acl, document'.state = "none" => document.state = "none",
           accessLog' \subseteq Visits, UNCHANGED <<lapsed, out, late>>
    PROVE  DealRoomIInv'
<1>1. DealRoomTypeOK'
  BY DEF DealRoomIInv, DealRoomTypeOK
<1>2. \A w \in Visits : Writing(w)' => Writing(w) /\ visit'[w] = visit[w]
  BY DEF DealRoomIInv, DealRoomTypeOK, Writing
<1>3. ListsOK'
  BY <1>2 DEF DealRoomIInv, ListsOK
<1>4. NoneBefore'
  BY <1>2 DEF DealRoomIInv, NoneBefore
<1>5. RevokedStayOut'
  BY DEF DealRoomIInv, RevokedStayOut
<1> QED BY <1>1, <1>3, <1>4, <1>5 DEF DealRoomIInv

\* A request that leaves, writing nothing.
LEMMA LeavesInv ==
    ASSUME DealRoomIInv, NEW v \in Visits, NEW goal \in {"done", "over"}, Leaves(v, goal),
           accessLog' \subseteq Visits, UNCHANGED <<document, lapsed, out, late>>
    PROVE  DealRoomIInv'
<1>1. [Unused EXCEPT !.pc = goal] \in Visit /\ [Unused EXCEPT !.pc = goal].pc = goal
  BY UnusedType
<1>2. document \in [state : {"none", "DRAFT", "REVOKED"}, acl : SUBSET Entry]
  BY DEF DealRoomIInv, DealRoomTypeOK
<1> QED BY <1>1, <1>2, QuietVisit DEF Leaves

\* A request that goes on to be logged, having written no list.
LEMMA GoesToLogInv ==
    ASSUME DealRoomIInv, NEW v \in Visits, GoesTo(v, "log"),
           document' \in [state : {"none", "DRAFT", "REVOKED"}, acl : SUBSET Entry],
           document'.acl = document.acl, document'.state = "none" => document.state = "none",
           UNCHANGED <<accessLog, lapsed, out, late>>
    PROVE  DealRoomIInv'
<1> DEFINE r == [visit[v] EXCEPT !.pc = "log"]
<1>1. visit[v] \in Visit /\ accessLog' \subseteq Visits
  BY DEF DealRoomIInv, DealRoomTypeOK
<1>2. r \in Visit /\ r.pc = "log" /\ visit' = [visit EXCEPT ![v] = r]
  BY <1>1 DEF GoesTo, Visit
<1> HIDE DEF r
<1> QED BY <1>1, <1>2, QuietVisit

LEMMA AskRoomInv ==
    ASSUME DealRoomIInv, NEW v \in Visits, NEW op \in Ops, NEW by \in People,
           NEW entry \in Entry, AskRoom(v, op, by, entry)
    PROVE  DealRoomIInv'
<1> DEFINE r == [pc |-> IF op = "upload" THEN "act" ELSE "find", op |-> op, by |-> by,
                 entry |-> entry, acl |-> {}]
<1>1. r \in Visit /\ r.op = op /\ (r.pc = "act" => op = "upload")
  BY DEF Visit
<1>2. visit' = [visit EXCEPT ![v] = r]
  BY DEF AskRoom
<1> HIDE DEF r
<1>3. /\ document \in [state : {"none", "DRAFT", "REVOKED"}, acl : SUBSET Entry]
      /\ accessLog \subseteq Visits
  BY DEF DealRoomIInv, DealRoomTypeOK
<1> QED BY <1>1, <1>2, <1>3, QuietVisit DEF AskRoom

LEMMA UploadInv ==
    ASSUME DealRoomIInv, NEW v \in Visits, Upload(v)
    PROVE  DealRoomIInv'
<1>1. CASE document.state # "none"
  <2>1. Leaves(v, "over") /\ UNCHANGED <<document, accessLog, lapsed, out, late>>
    BY <1>1 DEF Upload
  <2>2. accessLog' \subseteq Visits
    BY <2>1 DEF DealRoomIInv, DealRoomTypeOK
  <2> QED BY <2>1, <2>2, LeavesInv
<1>2. CASE document.state = "none"
  <2> DEFINE r == [visit[v] EXCEPT !.pc = "log"]
  <2>1. visit[v] \in Visit /\ out = {} /\ out' = {}
    BY <1>2 DEF DealRoomIInv, DealRoomTypeOK, NoneBefore, Upload
  <2>2. r \in Visit /\ r.pc = "log" /\ visit' = [visit EXCEPT ![v] = r]
    BY <1>2, <2>1 DEF Upload, GoesTo, Visit
  <2> HIDE DEF r
  <2>3. document' \in [state : {"none", "DRAFT", "REVOKED"}, acl : SUBSET Entry]
    BY <1>2, <2>1, EntryType DEF Upload, Visit
  <2>4. DealRoomTypeOK'
    BY <2>2, <2>3 DEF DealRoomIInv, DealRoomTypeOK, Upload
  <2>5. \A w \in Visits : ~Writing(w)
    BY <1>2 DEF DealRoomIInv, NoneBefore
  <2>6. \A w \in Visits : ~Writing(w)'
    BY <2>2, <2>5 DEF DealRoomIInv, DealRoomTypeOK, Writing
  <2> QED BY <2>1, <2>4, <2>6 DEF DealRoomIInv, ListsOK, NoneBefore, RevokedStayOut
<1> QED BY <1>1, <1>2

LEMMA FindDocumentInv ==
    ASSUME DealRoomIInv, NEW v \in Visits, FindDocument(v)
    PROVE  DealRoomIInv'
<1>1. CASE ~HasAccess(visit[v].by, Needed(visit[v].op))
  <2>1. Leaves(v, "over") /\ UNCHANGED <<document, accessLog, lapsed, out, late>>
    BY <1>1 DEF FindDocument
  <2>2. accessLog' \subseteq Visits
    BY <2>1 DEF DealRoomIInv, DealRoomTypeOK
  <2> QED BY <2>1, <2>2, LeavesInv
<1>2. CASE HasAccess(visit[v].by, Needed(visit[v].op))
  <2> DEFINE op == visit[v].op
             list == IF op \in {"grant", "revoke", "revokeAll"}
                     THEN Remaining(op, visit[v].entry) ELSE {}
             r == [visit[v] EXCEPT !.pc = "act", !.acl = list]
  <2>1. visit[v] \in Visit /\ document.acl \subseteq Entry /\ document.state # "none"
    BY <1>2 DEF DealRoomIInv, DealRoomTypeOK, HasAccess
  <2>2. list \subseteq Entry
    BY <2>1 DEF Remaining, Visit
  <2>3. /\ \A e \in list : e \in document.acl \/ (op = "grant" /\ e = visit[v].entry)
        /\ op = "revoke" => \A e \in list : e.who # visit[v].entry.who
        /\ op = "revokeAll" => list = {}
    BY DEF Remaining
  <2>4. visit' = [visit EXCEPT ![v].pc = "act", ![v].acl = list]
    BY <1>2 DEF FindDocument
  <2> HIDE DEF list
  <2>5. /\ r \in Visit /\ r.op = op /\ r.entry = visit[v].entry /\ r.acl = list
        /\ visit' = [visit EXCEPT ![v] = r]
    BY <2>1, <2>2, <2>4 DEF Visit
  <2> HIDE DEF r
  <2>6. DealRoomTypeOK'
    BY <2>5 DEF FindDocument, DealRoomIInv, DealRoomTypeOK
  <2>7. visit'[v] = r /\ \A w \in Visits \ {v} : visit'[w] = visit[w]
    BY <2>5 DEF DealRoomIInv, DealRoomTypeOK
  <2>8. ListsOK'
    <3> SUFFICES ASSUME NEW w \in Visits, Writing(w)'
                 PROVE  /\ \A p \in out \ late : \A e \in visit'[w].acl :
                             e.who = p => visit'[w].op = "grant" /\ visit'[w].entry.who = p
                        /\ visit'[w].op = "revoke" =>
                             \A e \in visit'[w].acl : e.who # visit'[w].entry.who
                        /\ visit'[w].op = "revokeAll" => visit'[w].acl = {}
      BY DEF ListsOK, FindDocument
    <3>1. CASE w = v
      BY <3>1, <2>3, <2>5, <2>7 DEF DealRoomIInv, RevokedStayOut
    <3>2. CASE w # v
      BY <3>2, <2>7 DEF DealRoomIInv, ListsOK, Writing
    <3> QED BY <3>1, <3>2
  <2> QED BY <2>1, <2>6, <2>8 DEF FindDocument, DealRoomIInv, NoneBefore, RevokedStayOut
<1> QED BY <1>1, <1>2

LEMMA WriteAclInv ==
    ASSUME DealRoomIInv, NEW v \in Visits, WriteAcl(v)
    PROVE  DealRoomIInv'
<1> DEFINE r == [visit[v] EXCEPT !.pc = "log"]
           revoked == Revoked(visit[v].op, visit[v].entry.who)
<1>1. visit[v] \in Visit /\ Writing(v) /\ document.state # "none"
  BY DEF DealRoomIInv, DealRoomTypeOK, NoneBefore, WriteAcl
<1>2. r \in Visit /\ r.pc = "log" /\ visit' = [visit EXCEPT ![v] = r]
  BY <1>1 DEF WriteAcl, GoesTo, Visit
<1>3. revoked \subseteq People
  BY DEF Revoked
<1>4. /\ out' = (out \cup revoked) \ (IF visit[v].op = "grant" THEN {visit[v].entry.who} ELSE {})
      /\ late' = IF \E w \in Visits \ {v} : Writing(w) THEN late \cup revoked ELSE late
      /\ document' = [document EXCEPT !.acl = visit[v].acl]
      /\ lapsed' = lapsed /\ accessLog' = accessLog
  BY DEF WriteAcl
<1> HIDE DEF r
<1>5. document'.acl = visit[v].acl /\ document'.state = document.state
  BY <1>4 DEF DealRoomIInv, DealRoomTypeOK
<1>6. DealRoomTypeOK'
  <2> HIDE DEF revoked
  <2>1. document' \in [state : {"none", "DRAFT", "REVOKED"}, acl : SUBSET Entry]
    BY <1>1, <1>4 DEF DealRoomIInv, DealRoomTypeOK, Visit
  <2>2. visit' \in [Visits -> Visit]
    BY <1>2 DEF DealRoomIInv, DealRoomTypeOK
  <2> QED BY <1>3, <1>4, <2>1, <2>2 DEF DealRoomIInv, DealRoomTypeOK
<1>7. \A w \in Visits : Writing(w)' => w # v /\ Writing(w) /\ visit'[w] = visit[w]
  BY <1>2 DEF DealRoomIInv, DealRoomTypeOK, Writing
\* Whoever is out after the write was out before it, or is revoked by it.
<1>8. \A p \in out' \ late' : p \in out \ late \/ p \in revoked
  BY <1>4
<1>9. ListsOK'
  <2> SUFFICES ASSUME NEW w \in Visits, Writing(w)'
               PROVE  /\ \A p \in out' \ late' : \A e \in visit'[w].acl :
                           e.who = p => visit'[w].op = "grant" /\ visit'[w].entry.who = p
                      /\ visit'[w].op = "revoke" =>
                           \A e \in visit'[w].acl : e.who # visit'[w].entry.who
                      /\ visit'[w].op = "revokeAll" => visit'[w].acl = {}
    BY DEF ListsOK
  <2>1. w # v /\ Writing(w) /\ visit'[w] = visit[w]
    BY <1>7
  <2>2. out' \ late' \subseteq out \ late
    BY <2>1, <1>4
  <2> QED BY <2>1, <2>2 DEF DealRoomIInv, ListsOK
<1>10. RevokedStayOut'
  <2> SUFFICES ASSUME NEW p \in out' \ late', NEW e \in visit[v].acl
               PROVE  e.who # p
    BY <1>5 DEF RevokedStayOut
  <2>1. CASE p \in revoked
    BY <2>1, <1>1 DEF Revoked, Writing, DealRoomIInv, ListsOK
  <2>2. CASE p \notin revoked
    BY <2>2, <1>1, <1>4, <1>8 DEF DealRoomIInv, ListsOK
  <2> QED BY <2>1, <2>2
<1> QED BY <1>1, <1>5, <1>6, <1>9, <1>10 DEF DealRoomIInv, NoneBefore

LEMMA DealRoomStepInv == DealRoomIInv /\ [DealRoomNext]_dealRoom => DealRoomIInv'
<1> SUFFICES ASSUME DealRoomIInv, [DealRoomNext]_dealRoom PROVE DealRoomIInv'
  OBVIOUS
<1>0. /\ document \in [state : {"none", "DRAFT", "REVOKED"}, acl : SUBSET Entry]
      /\ accessLog \subseteq Visits
  BY DEF DealRoomIInv, DealRoomTypeOK
<1>1. ASSUME NEW v \in Visits, Presign(v) PROVE DealRoomIInv'
  BY <1>0, <1>1, GoesToLogInv DEF Presign
<1>2. ASSUME NEW v \in Visits, DeleteDocument(v) PROVE DealRoomIInv'
  <2> DEFINE new == [document EXCEPT !.state = "REVOKED"]
  <2>1. /\ new \in [state : {"none", "DRAFT", "REVOKED"}, acl : SUBSET Entry]
        /\ new.acl = document.acl /\ new.state = "REVOKED"
    BY <1>0
  <2>2. document' = new
    BY <1>2 DEF DeleteDocument
  <2> HIDE DEF new
  <2> QED BY <1>2, <2>1, <2>2, GoesToLogInv DEF DeleteDocument
<1>3. ASSUME NEW v \in Visits, LogAccess(v) PROVE DealRoomIInv'
  <2>1. accessLog' \subseteq Visits
    BY <1>0, <1>3 DEF LogAccess
  <2> QED BY <1>3, <2>1, LeavesInv DEF LogAccess
<1>4. ASSUME NEW v \in Visits, Abort(v) PROVE DealRoomIInv'
  <2>1. accessLog' \subseteq Visits
    BY <1>0, <1>4 DEF Abort
  <2> QED BY <1>4, <2>1, LeavesInv DEF Abort
<1>5. CASE UNCHANGED dealRoom \/ Lapse
  <2>1. UNCHANGED <<document, accessLog, visit, out, late>> /\ lapsed' \in BOOLEAN
    BY <1>5 DEF dealRoom, Lapse, DealRoomIInv, DealRoomTypeOK
  <2>2. \A v \in Visits : Writing(v)' = Writing(v)
    BY <2>1 DEF Writing
  <2> QED BY <2>1, <2>2
          DEF DealRoomIInv, DealRoomTypeOK, ListsOK, NoneBefore, RevokedStayOut
<1> QED BY <1>1, <1>2, <1>3, <1>4, <1>5, AskRoomInv, UploadInv, FindDocumentInv, WriteAclInv
        DEF DealRoomNext

LEMMA DealRoomInvariant == DealRoomSpec => []DealRoomIInv
  BY DealRoomInitInv, DealRoomStepInv, PTL DEF DealRoomSpec

\* deal-room.service.ts: the types of a document and of the requests for it.
THEOREM DealRoomTypes == DealRoomSpec => []DealRoomTypeOK
<1>1. DealRoomIInv => DealRoomTypeOK
  BY DEF DealRoomIInv
<1> QED BY <1>1, DealRoomInvariant, PTL

\* Whoever was revoked by name while nobody else was about to write the list, and
\* was not granted anything since, has no entry, whatever requests came between
\* (deal-room.service.ts: grantAccess, revokeAccess, revokeAllAccess).
THEOREM RevokedAreOut == DealRoomSpec => []RevokedStayOut
<1>1. DealRoomIInv => RevokedStayOut
  BY DEF DealRoomIInv
<1> QED BY <1>1, DealRoomInvariant, PTL

-----------------------------------------------------------------------------
\* The documents of minted tokens.

\* What a receipt will be read as is the token its request had minted.
MintsOK ==
    \A r \in Mints :
        /\ minting[r].pc \in {"new", "send"} => minting[r].logs = <<>>
        /\ r \in Mining => minting[r].amount \in Worths
        /\ minting[r].pc = "parse" /\ minting[r].logs # <<>> =>
             /\ ParseMintEvent(minting[r].logs) \in 1 .. Len(chain)
             /\ chain[ParseMintEvent(minting[r].logs)] = r

ValuedAfterwards == \A u \in Valuations : valuation[u].pc = "new" => valuation[u].of = {}

NftRecordsIInv == NftRecordsTypeOK /\ MintsOK /\ ValuedAfterwards /\ DocumentsOfMints

LEMMA MovesAreTransfers ==
    ASSUME NEW tokens \in Seq(Nat \ {0})
    PROVE  /\ Moves(tokens) \in Seq(Transfer) /\ Len(Moves(tokens)) = Len(tokens)
           /\ \A i \in 1 .. Len(tokens) : Moves(tokens)[i].from = "holder"
<1>1. DOMAIN tokens = 1 .. Len(tokens) /\ Len(tokens) \in Nat
  OBVIOUS
<1>2. \A i \in DOMAIN tokens : [from |-> "holder", token |-> tokens[i]] \in Transfer
  <2> SUFFICES ASSUME NEW i \in DOMAIN tokens
               PROVE  [from |-> "holder", token |-> tokens[i]] \in Transfer
    OBVIOUS
  <2>1. tokens[i] \in Nat \ {0}
    BY <1>1
  <2> QED BY <2>1 DEF Transfer
<1>3. Moves(tokens) \in [1 .. Len(tokens) -> Transfer]
  BY <1>1, <1>2 DEF Moves
<1>4. \A i \in 1 .. Len(tokens) : Moves(tokens)[i].from = "holder"
  BY <1>1 DEF Moves
<1>5. Moves(tokens) \in Seq(Transfer)
  BY <1>1, <1>3, SeqDef
<1>6. Len(Moves(tokens)) = Len(tokens)
  BY <1>1, <1>3, <1>5
<1> QED BY <1>4, <1>5, <1>6

Held(events) == \A n \in 1 .. Len(events) : events[n].from = "holder"

\* Whatever moves before and after it, the event from the zero address is found.
LEMMA FirstFromZero ==
    ASSUME NEW e \in Transfer, e.from = "zero",
           NEW b \in Seq(Transfer), Held(b),
           NEW a \in Seq(Transfer), Held(a)
    PROVE  b \o <<e>> \o a \in Seq(Transfer) /\ ParseMintEvent(b \o <<e>> \o a) = e.token
<1> DEFINE n == Len(b) + 1
           be == b \o <<e>>
           logs == be \o a
<1>1. <<e>> \in Seq(Transfer) /\ Len(<<e>>) = 1 /\ <<e>>[1] = e
  OBVIOUS
<1>2. n \in Nat \ {0} /\ Len(b) \in Nat /\ Len(a) \in Nat /\ Len(b) = n - 1
  OBVIOUS
<1>3. be \in Seq(Transfer) /\ Len(be) = n
  BY <1>1, <1>2, ConcatProperties
<1>4. \A i \in 1 .. n : be[i] = IF i = n THEN e ELSE b[i]
  <2> SUFFICES ASSUME NEW i \in 1 .. n PROVE be[i] = IF i = n THEN e ELSE b[i]
    OBVIOUS
  <2>1. i \in 1 .. Len(b) + Len(<<e>>)
    BY <1>1
  <2>2. be[i] = IF i <= Len(b) THEN b[i] ELSE <<e>>[i - Len(b)]
    BY <2>1, <1>1, ConcatProperties
  <2>3. i <= Len(b) <=> i # n
    BY <1>2
  <2>4. i = n => i - Len(b) = 1
    BY <1>2
  <2> QED BY <2>2, <2>3, <2>4, <1>1
<1> HIDE DEF be, n
<1>6. logs \in Seq(Transfer) /\ Len(logs) = n + Len(a)
  BY <1>3, ConcatProperties
<1>7. \A i \in 1 .. n + Len(a) : logs[i] = IF i <= n THEN be[i] ELSE a[i - n]
  BY <1>3, ConcatProperties
<1> HIDE DEF logs
<1>8. n \in 1 .. n + Len(a) /\ n \in 1 .. n /\ n <= n
  BY <1>2
<1>9. logs[n] = e
  BY <1>4, <1>7, <1>8
<1>10. ASSUME NEW i \in 1 .. n + Len(a), i # n PROVE logs[i].from = "holder"
  <2>1. CASE i <= n
    <3>1. i \in 1 .. n /\ i \in 1 .. Len(b)
      BY <2>1, <1>2, <1>10
    <3> QED BY <3>1, <2>1, <1>4, <1>7, <1>10 DEF Held
  <2>2. CASE ~ i <= n
    <3>1. i - n \in 1 .. Len(a)
      BY <2>2, <1>2, <1>10
    <3> QED BY <3>1, <2>2, <1>7, <1>10 DEF Held
  <2> QED BY <2>1, <2>2
<1>11. DOMAIN logs = 1 .. n + Len(a)
  BY <1>6
<1>12. {i \in DOMAIN logs : logs[i].from = "zero"} = {n}
  BY <1>8, <1>9, <1>10, <1>11
<1>13. (CHOOSE i \in {n} : \A j \in {n} : i <= j) = n
  BY <1>2
<1>14. ParseMintEvent(logs) = e.token
  BY <1>9, <1>12, <1>13 DEF ParseMintEvent
<1> QED BY <1>6, <1>14 DEF logs, be

LEMMA EventsOfMint ==
    ASSUME NEW t \in Nat \ {0}, NEW before \in Seq(Nat \ {0}), NEW after \in Seq(Nat \ {0})
    PROVE  /\ Events(before, t, after) \in Seq(Transfer)
           /\ ParseMintEvent(Events(before, t, after)) = t
<1>1. /\ [from |-> "zero", token |-> t] \in Transfer
      /\ [from |-> "zero", token |-> t].from = "zero"
      /\ [from |-> "zero", token |-> t].token = t
  BY DEF Transfer
<1>2. Moves(before) \in Seq(Transfer)
      /\ Held(Moves(before))
  BY MovesAreTransfers DEF Held
<1>3. Moves(after) \in Seq(Transfer)
      /\ Held(Moves(after))
  BY MovesAreTransfers DEF Held
<1> QED BY <1>1, <1>2, <1>3, FirstFromZero DEF Events

LEMMA NftRecordsInitInv == NftRecordsInit => NftRecordsIInv
<1> SUFFICES ASSUME NftRecordsInit PROVE NftRecordsIInv
  OBVIOUS
<1>1. /\ chain = <<>> /\ nfts = <<>> /\ minting = [r \in Mints |-> Untold]
      /\ valuation = [u \in Valuations |-> [pc |-> "new", of |-> {}, value |-> 0]]
  BY DEF NftRecordsInit
<1>2. Untold \in [pc : {"new", "send", "parse", "done", "failed"},
                  amount : Worths \cup {0}, logs : Seq(Transfer)]
      /\ Untold.pc = "new" /\ Untold.logs = <<>>
  BY DEF Untold
<1>3. [pc |-> "new", of |-> {}, value |-> 0]
        \in [pc : {"new", "save", "done"}, of : SUBSET Mints, value : Worths \cup {0}]
  OBVIOUS
<1>4. NftRecordsTypeOK
  BY <1>1, <1>2, <1>3 DEF NftRecordsTypeOK
<1>5. MintsOK
  BY <1>1, <1>2 DEF MintsOK, Mining
<1>6. ValuedAfterwards
  BY <1>1 DEF ValuedAfterwards
<1>7. DocumentsOfMints
  BY <1>1 DEF DocumentsOfMints
<1> QED BY <1>4, <1>5, <1>6, <1>7 DEF NftRecordsIInv

\* The next state of one mint keeps the invariant of the mints, if it keeps its own part
\* and the tokens are only added to.
LEMMA OneMintTurns ==
    ASSUME NftRecordsIInv, NEW r \in Mints,
           NEW m \in [pc : {"new", "send", "parse", "done", "failed"},
                      amount : Worths \cup {0}, logs : Seq(Transfer)],
           minting' = [minting EXCEPT ![r] = m], UNCHANGED <<nfts, valuation>>,
           chain' \in Seq(Mints), Len(chain) <= Len(chain'),
           \A t \in 1 .. Len(chain) : chain'[t] = chain[t],
           m.pc \in {"new", "send"} => m.logs = <<>>,
           m.pc \in {"send", "parse"} => m.amount \in Worths,
           m.pc = "parse" /\ m.logs # <<>> =>
             /\ ParseMintEvent(m.logs) \in 1 .. Len(chain')
             /\ chain'[ParseMintEvent(m.logs)] = r
    PROVE  NftRecordsIInv'
<1>0. /\ Len(chain) \in Nat /\ DOMAIN chain = 1 .. Len(chain)
      /\ Len(chain') \in Nat /\ DOMAIN chain' = 1 .. Len(chain')
  BY DEF NftRecordsIInv, NftRecordsTypeOK
<1>1. minting \in [Mints -> [pc : {"new", "send", "parse", "done", "failed"},
                              amount : Worths \cup {0}, logs : Seq(Transfer)]]
  BY DEF NftRecordsIInv, NftRecordsTypeOK
<1>2. minting' \in [Mints -> [pc : {"new", "send", "parse", "done", "failed"},
                              amount : Worths \cup {0}, logs : Seq(Transfer)]]
  BY <1>1
<1>3. NftRecordsTypeOK'
  BY <1>2 DEF NftRecordsIInv, NftRecordsTypeOK, Nft, Transfer
<1>4. minting'[r] = m /\ \A q \in Mints : q # r => minting'[q] = minting[q]
  BY <1>1
<1>5. MintsOK'
  <2> SUFFICES ASSUME NEW q \in Mints
               PROVE  /\ minting'[q].pc \in {"new", "send"} => minting'[q].logs = <<>>
                      /\ minting'[q].pc \in {"send", "parse"} => minting'[q].amount \in Worths
                      /\ minting'[q].pc = "parse" /\ minting'[q].logs # <<>> =>
                           /\ ParseMintEvent(minting'[q].logs) \in 1 .. Len(chain')
                           /\ chain'[ParseMintEvent(minting'[q].logs)] = q
    BY DEF MintsOK, Mining, ParseMintEvent
  <2>1. CASE q = r
    BY <2>1, <1>4
  <2>2. CASE q # r
    <3>1. minting'[q] = minting[q]
      BY <2>2, <1>4
    <3> QED BY <3>1, <1>0 DEF NftRecordsIInv, MintsOK, Mining
  <2> QED BY <2>1, <2>2
<1>6. DocumentsOfMints'
  BY <1>0 DEF NftRecordsIInv, DocumentsOfMints
<1>7. ValuedAfterwards'
  BY DEF NftRecordsIInv, ValuedAfterwards
<1> QED BY <1>3, <1>5, <1>6, <1>7 DEF NftRecordsIInv

LEMMA MintTurnsOnly ==
    ASSUME NftRecordsIInv, NEW r \in Mints, NEW goal \in {"parse", "failed"}, r \in Mining,
           goal = "parse" => minting[r].pc = "send",
           TurnsTo(r, goal), UNCHANGED <<nfts, valuation>>,
           chain' \in Seq(Mints), Len(chain) <= Len(chain'),
           \A t \in 1 .. Len(chain) : chain'[t] = chain[t]
    PROVE  NftRecordsIInv'
<1> DEFINE m == [minting[r] EXCEPT !.pc = goal]
<1>1. minting[r] \in [pc : {"new", "send", "parse", "done", "failed"},
                       amount : Worths \cup {0}, logs : Seq(Transfer)]
  BY DEF NftRecordsIInv, NftRecordsTypeOK
<1>2. m \in [pc : {"new", "send", "parse", "done", "failed"},
              amount : Worths \cup {0}, logs : Seq(Transfer)]
      /\ m.pc = goal /\ m.logs = minting[r].logs /\ m.amount = minting[r].amount
  BY <1>1
<1>3. minting' = [minting EXCEPT ![r] = m]
  BY DEF TurnsTo
<1>4. (goal = "parse" => m.logs = <<>>) /\ m.amount \in Worths
  BY <1>2 DEF NftRecordsIInv, MintsOK
<1> HIDE DEF m
<1> QED BY <1>2, <1>3, <1>4, OneMintTurns

LEMMA MintedToken ==
    ASSUME NftRecordsIInv, NEW r \in Mints, chain' = Append(chain, r)
    PROVE  /\ chain' \in Seq(Mints) /\ Len(chain') = Len(chain) + 1 /\ Len(chain) \in Nat
           /\ \A t \in 1 .. Len(chain) : chain'[t] = chain[t]
           /\ chain'[Len(chain) + 1] = r
BY AppendProperties DEF NftRecordsIInv, NftRecordsTypeOK

LEMMA MintNftInv ==
    ASSUME NftRecordsIInv, NEW r \in Mints, NEW amount \in Worths, MintNft(r, amount)
    PROVE  NftRecordsIInv'
<1> DEFINE m == [[minting[r] EXCEPT !.pc = "send"] EXCEPT !.amount = amount]
<1>1. minting[r] \in [pc : {"new", "send", "parse", "done", "failed"},
                       amount : Worths \cup {0}, logs : Seq(Transfer)]
  BY DEF NftRecordsIInv, NftRecordsTypeOK
<1>2. m \in [pc : {"new", "send", "parse", "done", "failed"},
              amount : Worths \cup {0}, logs : Seq(Transfer)]
      /\ m.pc = "send" /\ m.logs = minting[r].logs /\ m.amount = amount
  BY <1>1
<1>3. minting' = [minting EXCEPT ![r] = m]
  BY DEF MintNft
<1>4. m.logs = <<>>
  BY <1>2 DEF NftRecordsIInv, MintsOK, MintNft
<1>5. chain' = chain /\ chain \in Seq(Mints) /\ nfts' = nfts /\ valuation' = valuation
  BY DEF MintNft, NftRecordsIInv, NftRecordsTypeOK
<1>6. Len(chain) <= Len(chain') /\ \A t \in 1 .. Len(chain) : chain'[t] = chain[t]
  <2>1. Len(chain) \in Nat
    BY <1>5
  <2> QED BY <2>1, <1>5
<1>7. m.pc # "parse"
  BY <1>2
<1>8. chain' \in Seq(Mints) /\ UNCHANGED <<nfts, valuation>>
  BY <1>5
<1> HIDE DEF m
<1> QED BY <1>2, <1>3, <1>4, <1>6, <1>7, <1>8, OneMintTurns

LEMMA MinedInv ==
    ASSUME NftRecordsIInv, NEW r \in Mints,
           NEW before \in {<<>>} \cup {<<t>> : t \in DOMAIN chain},
           NEW after \in {<<>>} \cup {<<t>> : t \in DOMAIN chain},
           Mined(r, before, after)
    PROVE  NftRecordsIInv'
<1>1. /\ chain' \in Seq(Mints) /\ Len(chain') = Len(chain) + 1 /\ Len(chain) \in Nat
      /\ \A t \in 1 .. Len(chain) : chain'[t] = chain[t]
      /\ chain'[Len(chain) + 1] = r
  BY MintedToken DEF Mined
<1>2. DOMAIN chain \subseteq Nat \ {0}
  BY DEF NftRecordsIInv, NftRecordsTypeOK
<1>3. before \in Seq(Nat \ {0}) /\ after \in Seq(Nat \ {0})
  <2>1. \A t \in DOMAIN chain : <<t>> \in Seq(Nat \ {0})
    <3> SUFFICES ASSUME NEW t \in DOMAIN chain PROVE <<t>> \in Seq(Nat \ {0})
      OBVIOUS
    <3>1. t \in Nat \ {0}
      BY <1>2
    <3> QED BY <3>1
  <2>2. <<>> \in Seq(Nat \ {0})
    OBVIOUS
  <2> QED BY <2>1, <2>2
<1> DEFINE logs == Events(before, Len(chain) + 1, after)
           m == [[minting[r] EXCEPT !.pc = "parse"] EXCEPT !.logs = logs]
<1>4. Len(chain) + 1 \in Nat \ {0}
  BY <1>1
<1>5. logs \in Seq(Transfer) /\ ParseMintEvent(logs) = Len(chain) + 1
  BY <1>3, <1>4, EventsOfMint
<1>6. minting' = [minting EXCEPT ![r] = m]
  BY DEF Mined
<1> HIDE DEF logs
<1>7. minting[r] \in [pc : {"new", "send", "parse", "done", "failed"},
                       amount : Worths \cup {0}, logs : Seq(Transfer)]
  BY DEF NftRecordsIInv, NftRecordsTypeOK
<1>8. m \in [pc : {"new", "send", "parse", "done", "failed"},
              amount : Worths \cup {0}, logs : Seq(Transfer)]
      /\ m.pc = "parse" /\ m.logs = logs /\ m.amount = minting[r].amount
  BY <1>5, <1>7
<1>11. m.amount \in Worths
  BY <1>8 DEF NftRecordsIInv, MintsOK, Mining, Mined
<1> HIDE DEF m
<1>9. nfts' = nfts /\ valuation' = valuation
  BY DEF Mined
<1>10. Len(chain) <= Len(chain') /\ Len(chain) + 1 \in 1 .. Len(chain')
  BY <1>1
<1> QED BY <1>1, <1>5, <1>6, <1>8, <1>9, <1>10, <1>11, OneMintTurns

LEMMA StoreNftInv ==
    ASSUME NftRecordsIInv, NEW r \in Mints, StoreNft(r)
    PROVE  NftRecordsIInv'
<1>0. chain' = chain /\ valuation' = valuation /\ chain \in Seq(Mints) /\ minting[r].pc = "parse"
      /\ DOMAIN nfts \subseteq Mints /\ \A s \in DOMAIN nfts : nfts[s] \in Nft
  BY DEF StoreNft, NftRecordsIInv, NftRecordsTypeOK
<1>1. minting \in [Mints -> [pc : {"new", "send", "parse", "done", "failed"},
                              amount : Worths \cup {0}, logs : Seq(Transfer)]]
  BY DEF NftRecordsIInv, NftRecordsTypeOK
<1>2. \E goal \in {"done", "failed"} : minting' = [minting EXCEPT ![r].pc = goal]
  BY DEF StoreNft, TurnsTo
<1>3. minting' \in [Mints -> [pc : {"new", "send", "parse", "done", "failed"},
                               amount : Worths \cup {0}, logs : Seq(Transfer)]]
      /\ minting'[r].pc \in {"done", "failed"}
      /\ \A q \in Mints : q # r => minting'[q] = minting[q]
  BY <1>1, <1>2
<1>4. MintsOK'
  <2> SUFFICES ASSUME NEW q \in Mints
               PROVE  /\ minting'[q].pc \in {"new", "send"} => minting'[q].logs = <<>>
                      /\ minting'[q].pc \in {"send", "parse"} => minting'[q].amount \in Worths
                      /\ minting'[q].pc = "parse" /\ minting'[q].logs # <<>> =>
                           /\ ParseMintEvent(minting'[q].logs) \in 1 .. Len(chain')
                           /\ chain'[ParseMintEvent(minting'[q].logs)] = q
    BY DEF MintsOK, Mining, ParseMintEvent
  <2>1. CASE q = r
    BY <2>1, <1>3
  <2>2. CASE q # r
    <3>1. minting'[q] = minting[q]
      BY <2>2, <1>3
    <3> QED BY <3>1, <1>0 DEF NftRecordsIInv, MintsOK, Mining
  <2> QED BY <2>1, <2>2
<1>5. ValuedAfterwards'
  BY <1>0 DEF NftRecordsIInv, ValuedAfterwards
<1>6. CASE nfts' = nfts
  <2>1. NftRecordsTypeOK'
    BY <1>0, <1>3, <1>6 DEF NftRecordsIInv, NftRecordsTypeOK, Nft, Transfer
  <2>2. DocumentsOfMints'
    BY <1>0, <1>6 DEF NftRecordsIInv, DocumentsOfMints
  <2> QED BY <2>1, <2>2, <1>4, <1>5 DEF NftRecordsIInv
<1>7. CASE nfts' # nfts
  <2> DEFINE t == ParseMintEvent(minting[r].logs)
             d == [token |-> t, amount |-> minting[r].amount, value |-> minting[r].amount]
  <2>1. minting[r].logs # <<>>
        /\ nfts' = [s \in DOMAIN nfts \cup {r} |-> IF s = r THEN d ELSE nfts[s]]
    BY <1>7 DEF StoreNft
  <2>2. t \in 1 .. Len(chain) /\ chain[t] = r
    BY <2>1, <1>0 DEF NftRecordsIInv, MintsOK
  <2>3. t \in Nat \ {0} /\ t \in DOMAIN chain
    BY <2>2, <1>0
  <2>4. minting[r].amount \in Worths
    BY <1>0 DEF NftRecordsIInv, MintsOK, Mining
  <2>5. d \in Nft /\ d.token = t /\ d.value = d.amount
    BY <2>3, <2>4 DEF Nft
  <2> HIDE DEF t, d
  <2>6. /\ DOMAIN nfts' = DOMAIN nfts \cup {r} /\ nfts'[r] = d
        /\ \A s \in DOMAIN nfts : s # r => nfts'[s] = nfts[s]
    BY <2>1
  <2>7. DOMAIN nfts' \subseteq Mints /\ \A s \in DOMAIN nfts' : nfts'[s] \in Nft
    BY <2>5, <2>6, <1>0
  <2>8. NftRecordsTypeOK'
    BY <2>7, <1>0, <1>3 DEF NftRecordsIInv, NftRecordsTypeOK, Nft, Transfer
  <2>9. DocumentsOfMints'
    <3> SUFFICES ASSUME NEW s \in DOMAIN nfts'
                 PROVE  /\ nfts'[s].token \in DOMAIN chain' /\ chain'[nfts'[s].token] = s
                        /\ nfts'[s].value # nfts'[s].amount =>
                             \E u \in Valuations : s \in valuation'[u].of
                                                  /\ valuation'[u].value = nfts'[s].value
      BY DEF DocumentsOfMints
    <3>1. CASE s = r
      BY <3>1, <2>2, <2>3, <2>5, <2>6, <1>0
    <3>2. CASE s # r
      <4>1. s \in DOMAIN nfts /\ nfts'[s] = nfts[s]
        BY <3>2, <2>6
      <4> QED BY <4>1, <1>0 DEF NftRecordsIInv, DocumentsOfMints
    <3> QED BY <3>1, <3>2
  <2> QED BY <2>8, <2>9, <1>4, <1>5 DEF NftRecordsIInv
<1> QED BY <1>6, <1>7

LEMMA FindNftInv ==
    ASSUME NftRecordsIInv, NEW u \in Valuations, NEW r \in Mints, NEW value \in Worths \cup {0},
           FindNft(u, r, value)
    PROVE  NftRecordsIInv'
<1>0. UNCHANGED <<chain, minting, nfts>> /\ valuation[u].of = {}
  BY DEF FindNft, NftRecordsIInv, ValuedAfterwards
<1>1. valuation \in [Valuations -> [pc : {"new", "save", "done"}, of : SUBSET Mints,
                                     value : Worths \cup {0}]]
  BY DEF NftRecordsIInv, NftRecordsTypeOK
<1>2. /\ valuation' \in [Valuations -> [pc : {"new", "save", "done"}, of : SUBSET Mints,
                                         value : Worths \cup {0}]]
      /\ valuation'[u].pc = "save" /\ \A v \in Valuations : v # u => valuation'[v] = valuation[v]
  BY <1>1 DEF FindNft
<1>3. NftRecordsTypeOK'
  BY <1>0, <1>2 DEF NftRecordsIInv, NftRecordsTypeOK, Nft, Transfer
<1>4. MintsOK'
  BY <1>0 DEF NftRecordsIInv, MintsOK, Mining, ParseMintEvent
<1>5. ValuedAfterwards'
  BY <1>2 DEF NftRecordsIInv, ValuedAfterwards
<1>6. DocumentsOfMints'
  <2> SUFFICES ASSUME NEW s \in DOMAIN nfts, nfts[s].value # nfts[s].amount
               PROVE  \E v \in Valuations : s \in valuation'[v].of
                                           /\ valuation'[v].value = nfts[s].value
    BY <1>0 DEF NftRecordsIInv, DocumentsOfMints
  <2>1. PICK v \in Valuations : s \in valuation[v].of /\ valuation[v].value = nfts[s].value
    BY DEF NftRecordsIInv, DocumentsOfMints
  <2>2. v # u
    BY <2>1, <1>0
  <2> QED BY <2>1, <2>2, <1>2
<1> QED BY <1>3, <1>4, <1>5, <1>6 DEF NftRecordsIInv

LEMMA SaveNftValueInv ==
    ASSUME NftRecordsIInv, NEW u \in Valuations, SaveNftValue(u)
    PROVE  NftRecordsIInv'
<1>0. UNCHANGED <<chain, minting>>
  BY DEF SaveNftValue
<1>1. valuation \in [Valuations -> [pc : {"new", "save", "done"}, of : SUBSET Mints,
                                     value : Worths \cup {0}]]
      /\ DOMAIN nfts \subseteq Mints /\ \A s \in DOMAIN nfts : nfts[s] \in Nft
  BY DEF NftRecordsIInv, NftRecordsTypeOK
<1>2. /\ valuation' \in [Valuations -> [pc : {"new", "save", "done"}, of : SUBSET Mints,
                                         value : Worths \cup {0}]]
      /\ \A v \in Valuations : /\ valuation'[v].of = valuation[v].of
                               /\ valuation'[v].value = valuation[v].value
                               /\ valuation'[v].pc = "new" => valuation[v].pc = "new"
  BY <1>1 DEF SaveNftValue
<1>3. DOMAIN nfts' = DOMAIN nfts
      /\ \A s \in DOMAIN nfts :
           nfts'[s] = IF s \in valuation[u].of
                      THEN [nfts[s] EXCEPT !.value = valuation[u].value] ELSE nfts[s]
  BY DEF SaveNftValue
<1>4. \A s \in DOMAIN nfts :
        /\ nfts'[s] \in Nft /\ nfts'[s].token = nfts[s].token /\ nfts'[s].amount = nfts[s].amount
        /\ nfts'[s].value = IF s \in valuation[u].of THEN valuation[u].value ELSE nfts[s].value
  <2> SUFFICES ASSUME NEW s \in DOMAIN nfts
               PROVE  /\ nfts'[s] \in Nft /\ nfts'[s].token = nfts[s].token
                      /\ nfts'[s].amount = nfts[s].amount
                      /\ nfts'[s].value = IF s \in valuation[u].of
                                          THEN valuation[u].value ELSE nfts[s].value
    OBVIOUS
  <2>1. nfts[s] \in Nft /\ valuation[u].value \in Worths \cup {0}
    BY <1>1
  <2> QED BY <2>1, <1>3 DEF Nft
<1>5. NftRecordsTypeOK'
  BY <1>0, <1>1, <1>2, <1>3, <1>4 DEF NftRecordsIInv, NftRecordsTypeOK, Transfer
<1>6. MintsOK'
  BY <1>0 DEF NftRecordsIInv, MintsOK, Mining, ParseMintEvent
<1>7. ValuedAfterwards'
  BY <1>2 DEF NftRecordsIInv, ValuedAfterwards
<1>8. DocumentsOfMints'
  <2> SUFFICES ASSUME NEW s \in DOMAIN nfts
               PROVE  /\ nfts'[s].token \in DOMAIN chain' /\ chain'[nfts'[s].token] = s
                      /\ nfts'[s].value # nfts'[s].amount =>
                           \E v \in Valuations : s \in valuation'[v].of
                                                /\ valuation'[v].value = nfts'[s].value
    BY <1>3 DEF DocumentsOfMints
  <2>1. nfts[s].token \in DOMAIN chain /\ chain[nfts[s].token] = s
    BY DEF NftRecordsIInv, DocumentsOfMints
  <2>2. CASE s \in valuation[u].of
    BY <2>1, <2>2, <1>0, <1>2, <1>4
  <2>3. CASE s \notin valuation[u].of
    <3>1. nfts[s].value # nfts[s].amount =>
            \E v \in Valuations : s \in valuation[v].of /\ valuation[v].value = nfts[s].value
      BY DEF NftRecordsIInv, DocumentsOfMints
    <3> QED BY <3>1, <2>1, <2>3, <1>0, <1>2, <1>4
  <2> QED BY <2>2, <2>3
<1> QED BY <1>5, <1>6, <1>7, <1>8 DEF NftRecordsIInv

LEMMA NftRecordsStepInv == NftRecordsIInv /\ [NftRecordsNext]_nftRecords => NftRecordsIInv'
<1> SUFFICES ASSUME NftRecordsIInv, [NftRecordsNext]_nftRecords PROVE NftRecordsIInv'
  OBVIOUS
<1>1. ASSUME NEW r \in Mints, NEW amount \in Worths, MintNft(r, amount) PROVE NftRecordsIInv'
  BY <1>1, MintNftInv
<1>2. ASSUME NEW r \in Mints, NEW before \in {<<>>} \cup {<<t>> : t \in DOMAIN chain},
             NEW after \in {<<>>} \cup {<<t>> : t \in DOMAIN chain}, Mined(r, before, after)
      PROVE  NftRecordsIInv'
  BY <1>2, MinedInv
<1>3. chain \in Seq(Mints) /\ Len(chain) <= Len(chain)
  BY DEF NftRecordsIInv, NftRecordsTypeOK
<1>4. ASSUME NEW r \in Mints, Reverted(r) PROVE NftRecordsIInv'
  <2>1. r \in Mining /\ minting[r].pc = "send" /\ TurnsTo(r, "parse")
        /\ chain' = chain /\ nfts' = nfts /\ valuation' = valuation
    BY <1>4 DEF Reverted, Mining
  <2> QED BY <2>1, <1>3, MintTurnsOnly
<1>5. ASSUME NEW r \in Mints, Unheard(r) PROVE NftRecordsIInv'
  <2>1. r \in Mining /\ TurnsTo(r, "failed") /\ nfts' = nfts /\ valuation' = valuation
    BY <1>5 DEF Unheard, Mining
  <2>2. /\ chain' \in Seq(Mints) /\ Len(chain) <= Len(chain')
        /\ \A t \in 1 .. Len(chain) : chain'[t] = chain[t]
    BY <1>5, MintedToken DEF Unheard
  <2> QED BY <2>1, <2>2, MintTurnsOnly
<1>6. ASSUME NEW r \in Mints, MintThrows(r) PROVE NftRecordsIInv'
  <2>1. r \in Mining /\ TurnsTo(r, "failed")
        /\ chain' = chain /\ nfts' = nfts /\ valuation' = valuation
    BY <1>6 DEF MintThrows
  <2> QED BY <2>1, <1>3, MintTurnsOnly
<1>7. CASE UNCHANGED nftRecords
  <2>1. UNCHANGED <<chain, minting, nfts, valuation>>
    BY <1>7 DEF nftRecords
  <2>2. NftRecordsTypeOK'
    BY <2>1 DEF NftRecordsIInv, NftRecordsTypeOK, Nft, Transfer
  <2>3. MintsOK'
    BY <2>1 DEF NftRecordsIInv, MintsOK, Mining, ParseMintEvent
  <2>4. ValuedAfterwards'
    BY <2>1 DEF NftRecordsIInv, ValuedAfterwards
  <2>5. DocumentsOfMints'
    BY <2>1 DEF NftRecordsIInv, DocumentsOfMints
  <2> QED BY <2>2, <2>3, <2>4, <2>5 DEF NftRecordsIInv
<1> QED BY <1>1, <1>2, <1>4, <1>5, <1>6, <1>7, StoreNftInv, FindNftInv, SaveNftValueInv
        DEF NftRecordsNext

LEMMA NftRecordsInvariance == NftRecordsSpec => []NftRecordsIInv
BY NftRecordsInitInv, NftRecordsStepInv, PTL DEF NftRecordsSpec

\* However mints and valuations overlap, fail or go unheard, a document names the token
\* that its own request had minted.
THEOREM DocumentsNameTheirMint == NftRecordsSpec => []DocumentsOfMints
<1>1. NftRecordsIInv => DocumentsOfMints
  BY DEF NftRecordsIInv
<1> QED BY <1>1, NftRecordsInvariance, PTL

-----------------------------------------------------------------------------
\* The withdrawal methods of a wallet.

\* A copy of the current version is the array; each version is written once.
CopiesOK ==
    \A a \in Adders : adding[a].pc = "save" =>
        /\ adding[a].version <= methodsVersion
        /\ adding[a].version = methodsVersion => adding[a].copy = methods

\* The index that was sent still leads to the account that was shown.
AskedOK ==
    \A p \in Payers : paying[p].pc = "asked" =>
        /\ paying[p].index \in DOMAIN methods
        /\ paying[p].wanted = {methods[paying[p].index].account}

MethodsIInv == WithdrawalMethodsTypeOK /\ CopiesOK /\ AskedOK /\ ChosenIsPaid

LEMMA MethodsInitInv == WithdrawalMethodsInit => MethodsIInv
BY DEF WithdrawalMethodsInit, MethodsIInv, WithdrawalMethodsTypeOK, CopiesOK, AskedOK, ChosenIsPaid

LEMMA AddedType == ASSUME NEW a \in Adders PROVE Added(a) \in WithdrawalMethod
BY DEF Added, WithdrawalMethod

LEMMA UnsetKeepsAccounts ==
    ASSUME NEW s \in Seq(WithdrawalMethod)
    PROVE  /\ Unset(s) \in Seq(WithdrawalMethod) /\ Len(Unset(s)) = Len(s)
           /\ \A i \in 1 .. Len(s) : Unset(s)[i].account = s[i].account
<1>1. DOMAIN s = 1 .. Len(s) /\ Len(s) \in Nat
  OBVIOUS
<1>2. ASSUME NEW i \in 1 .. Len(s)
      PROVE  /\ [s[i] EXCEPT !.isDefault = FALSE] \in WithdrawalMethod
             /\ [s[i] EXCEPT !.isDefault = FALSE].account = s[i].account
  <2>1. s[i] \in WithdrawalMethod
    BY <1>2
  <2> QED BY <2>1 DEF WithdrawalMethod
<1>3. Unset(s) \in [1 .. Len(s) -> WithdrawalMethod]
      /\ \A i \in 1 .. Len(s) : Unset(s)[i].account = s[i].account
  BY <1>1, <1>2 DEF Unset
<1>4. Unset(s) \in Seq(WithdrawalMethod)
  BY <1>1, <1>3, SeqDef
<1>5. Len(Unset(s)) = Len(s)
  BY <1>1, <1>3, <1>4
<1> QED BY <1>3, <1>4, <1>5

\* A new version is the old array with one method more and no account changed.
LEMMA MethodsGrow ==
    ASSUME MethodsIInv, NEW a \in Adders, adding[a].pc = "save",
           NEW s \in Seq(WithdrawalMethod), Len(s) = Len(methods),
           \A i \in 1 .. Len(methods) : s[i].account = methods[i].account,
           methods' = Append(s, Added(a)), methodsVersion' = methodsVersion + 1,
           Leave(a), UNCHANGED paying
    PROVE  MethodsIInv'
<1>0. methods \in Seq(WithdrawalMethod) /\ DOMAIN methods = 1 .. Len(methods) /\ Len(methods) \in Nat
      /\ methodsVersion \in Nat
  BY DEF MethodsIInv, WithdrawalMethodsTypeOK
<1>1. /\ methods' \in Seq(WithdrawalMethod) /\ Len(methods') = Len(methods) + 1
      /\ \A i \in 1 .. Len(methods) : methods'[i] = s[i]
  BY AddedType, AppendProperties
<1>2. \A i \in DOMAIN methods : i \in DOMAIN methods' /\ methods'[i].account = methods[i].account
  BY <1>0, <1>1
<1>3. adding \in [Adders -> [pc : {"new", "save", "done"},
                              copy : Seq(WithdrawalMethod), version : Nat]]
  BY DEF MethodsIInv, WithdrawalMethodsTypeOK
<1>4. adding' \in [Adders -> [pc : {"new", "save", "done"},
                              copy : Seq(WithdrawalMethod), version : Nat]]
      /\ \A b \in Adders : adding'[b].pc = "save" => adding'[b] = adding[b]
  BY <1>3 DEF Leave
<1>5. WithdrawalMethodsTypeOK'
  <2>1. methods' \in Seq(WithdrawalMethod)
    BY <1>1
  <2>2. methodsVersion' \in Nat
    BY <1>0
  <2>3. paying' \in [Payers -> [pc : {"new", "asked", "done"}, index : Nat,
                                wanted : SUBSET Adders, paid : SUBSET Adders]]
    BY DEF MethodsIInv, WithdrawalMethodsTypeOK
  <2> QED BY <1>4, <2>1, <2>2, <2>3 DEF WithdrawalMethodsTypeOK, WithdrawalMethod
<1>6. CopiesOK'
  <2> SUFFICES ASSUME NEW b \in Adders, adding'[b].pc = "save"
               PROVE  adding'[b].version <= methodsVersion' /\ adding'[b].version # methodsVersion'
    BY DEF CopiesOK
  <2>1. adding'[b] = adding[b] /\ adding[b].version \in Nat
    BY <1>3, <1>4
  <2>2. adding[b].version <= methodsVersion
    BY <2>1 DEF MethodsIInv, CopiesOK
  <2> QED BY <2>1, <2>2, <1>0
<1>7. AskedOK'
  BY <1>2 DEF MethodsIInv, AskedOK
<1>8. ChosenIsPaid'
  BY DEF MethodsIInv, ChosenIsPaid
<1> QED BY <1>5, <1>6, <1>7, <1>8 DEF MethodsIInv

LEMMA ReadWalletInv ==
    ASSUME MethodsIInv, NEW a \in Adders, ReadWallet(a)
    PROVE  MethodsIInv'
<1>1. methods \in Seq(WithdrawalMethod) /\ methodsVersion \in Nat
      /\ adding \in [Adders -> [pc : {"new", "save", "done"},
                                 copy : Seq(WithdrawalMethod), version : Nat]]
  BY DEF MethodsIInv, WithdrawalMethodsTypeOK
<1> DEFINE n == [pc |-> "save", copy |-> methods, version |-> methodsVersion]
<1>2. n \in [pc : {"new", "save", "done"}, copy : Seq(WithdrawalMethod), version : Nat]
      /\ n.version = methodsVersion /\ n.copy = methods
  BY <1>1
<1>3. adding' = [adding EXCEPT ![a] = n] /\ UNCHANGED <<methods, methodsVersion, paying>>
  BY DEF ReadWallet
<1> HIDE DEF n
<1>4. WithdrawalMethodsTypeOK'
  BY <1>1, <1>2, <1>3 DEF MethodsIInv, WithdrawalMethodsTypeOK, WithdrawalMethod
<1>5. CopiesOK'
  <2> SUFFICES ASSUME NEW b \in Adders, adding'[b].pc = "save"
               PROVE  /\ adding'[b].version <= methodsVersion
                      /\ adding'[b].version = methodsVersion => adding'[b].copy = methods
    BY <1>3 DEF CopiesOK
  <2>1. CASE b = a
    BY <2>1, <1>1, <1>2, <1>3
  <2>2. CASE b # a
    <3>1. adding'[b] = adding[b]
      BY <2>2, <1>1, <1>3
    <3> QED BY <3>1 DEF MethodsIInv, CopiesOK
  <2> QED BY <2>1, <2>2
<1>6. AskedOK' /\ ChosenIsPaid'
  BY <1>3 DEF MethodsIInv, AskedOK, ChosenIsPaid
<1> QED BY <1>4, <1>5, <1>6 DEF MethodsIInv

LEMMA SetMethodsInv ==
    ASSUME MethodsIInv, NEW a \in Adders, SetMethods(a)
    PROVE  MethodsIInv'
<1>0. methods \in Seq(WithdrawalMethod) /\ methodsVersion \in Nat
      /\ adding \in [Adders -> [pc : {"new", "save", "done"},
                                 copy : Seq(WithdrawalMethod), version : Nat]]
  BY DEF MethodsIInv, WithdrawalMethodsTypeOK
<1>1. CASE methodsVersion = adding[a].version
  <2>1. adding[a].copy = methods
    BY <1>1 DEF MethodsIInv, CopiesOK, SetMethods
  <2>2. /\ Unset(methods) \in Seq(WithdrawalMethod) /\ Len(Unset(methods)) = Len(methods)
        /\ \A i \in 1 .. Len(methods) : Unset(methods)[i].account = methods[i].account
    BY <1>0, UnsetKeepsAccounts
  <2>3. methods' = Append(Unset(methods), Added(a)) /\ methodsVersion' = methodsVersion + 1
        /\ Leave(a) /\ adding[a].pc = "save" /\ UNCHANGED paying
    BY <2>1, <1>1 DEF SetMethods
  <2> QED BY <2>2, <2>3, MethodsGrow
<1>2. CASE methodsVersion # adding[a].version
  <2>1. UNCHANGED <<methods, methodsVersion, paying>> /\ adding' = [adding EXCEPT ![a].pc = "done"]
    BY <1>2 DEF SetMethods, Leave
  <2>2. adding' \in [Adders -> [pc : {"new", "save", "done"},
                                copy : Seq(WithdrawalMethod), version : Nat]]
        /\ \A b \in Adders : adding'[b].pc = "save" => adding'[b] = adding[b]
    BY <1>0, <2>1
  <2>3. WithdrawalMethodsTypeOK'
    BY <2>1, <2>2 DEF MethodsIInv, WithdrawalMethodsTypeOK, WithdrawalMethod
  <2>4. CopiesOK'
    BY <2>1, <2>2 DEF MethodsIInv, CopiesOK
  <2>5. AskedOK' /\ ChosenIsPaid'
    BY <2>1 DEF MethodsIInv, AskedOK, ChosenIsPaid
  <2> QED BY <2>3, <2>4, <2>5 DEF MethodsIInv
<1> QED BY <1>1, <1>2

LEMMA PushMethodInv ==
    ASSUME MethodsIInv, NEW a \in Adders, PushMethod(a)
    PROVE  MethodsIInv'
<1>1. methods \in Seq(WithdrawalMethod)
  BY DEF MethodsIInv, WithdrawalMethodsTypeOK
<1>2. methods' = Append(methods, Added(a)) /\ methodsVersion' = methodsVersion + 1
      /\ Leave(a) /\ adding[a].pc = "save" /\ UNCHANGED paying
  BY DEF PushMethod
<1> QED BY <1>1, <1>2, MethodsGrow

LEMMA ChooseInv ==
    ASSUME MethodsIInv, NEW p \in Payers, NEW i \in Nat, Choose(p, i)
    PROVE  MethodsIInv'
<1>1. UNCHANGED <<methods, methodsVersion, adding>> /\ i \in DOMAIN methods
      /\ methods \in Seq(WithdrawalMethod)
      /\ paying \in [Payers -> [pc : {"new", "asked", "done"}, index : Nat,
                                 wanted : SUBSET Adders, paid : SUBSET Adders]]
  BY DEF Choose, MethodsIInv, WithdrawalMethodsTypeOK
<1>2. methods[i].account \in Adders
  <2>1. methods[i] \in WithdrawalMethod
    BY <1>1
  <2> QED BY <2>1 DEF WithdrawalMethod
<1>3. /\ paying' \in [Payers -> [pc : {"new", "asked", "done"}, index : Nat,
                                  wanted : SUBSET Adders, paid : SUBSET Adders]]
      /\ paying'[p].pc = "asked" /\ paying'[p].index = i /\ paying'[p].wanted = {methods[i].account}
      /\ \A q \in Payers : q # p => paying'[q] = paying[q]
  BY <1>1, <1>2 DEF Choose
<1>4. WithdrawalMethodsTypeOK'
  BY <1>1, <1>3 DEF MethodsIInv, WithdrawalMethodsTypeOK, WithdrawalMethod
<1>5. CopiesOK'
  BY <1>1 DEF MethodsIInv, CopiesOK
<1>6. AskedOK' /\ ChosenIsPaid'
  BY <1>1, <1>3 DEF MethodsIInv, AskedOK, ChosenIsPaid
<1> QED BY <1>4, <1>5, <1>6 DEF MethodsIInv

LEMMA PayOutInv ==
    ASSUME MethodsIInv, NEW p \in Payers, PayOut(p)
    PROVE  MethodsIInv'
<1>1. UNCHANGED <<methods, methodsVersion, adding>> /\ methods \in Seq(WithdrawalMethod)
      /\ paying \in [Payers -> [pc : {"new", "asked", "done"}, index : Nat,
                                 wanted : SUBSET Adders, paid : SUBSET Adders]]
  BY DEF PayOut, MethodsIInv, WithdrawalMethodsTypeOK
<1>2. /\ paying[p].index \in DOMAIN methods
      /\ paying[p].wanted = {methods[paying[p].index].account}
  BY DEF PayOut, MethodsIInv, AskedOK
<1>3. {methods[i].account : i \in {paying[p].index} \cap DOMAIN methods} = paying[p].wanted
  BY <1>2
<1>4. paying' = [paying EXCEPT ![p].pc = "done", ![p].paid = paying[p].wanted]
  BY <1>3 DEF PayOut
<1>5. /\ paying' \in [Payers -> [pc : {"new", "asked", "done"}, index : Nat,
                                  wanted : SUBSET Adders, paid : SUBSET Adders]]
      /\ paying'[p].pc = "done" /\ paying'[p].paid = paying'[p].wanted
      /\ \A q \in Payers : q # p => paying'[q] = paying[q]
  BY <1>1, <1>4
<1>6. WithdrawalMethodsTypeOK'
  BY <1>1, <1>5 DEF MethodsIInv, WithdrawalMethodsTypeOK, WithdrawalMethod
<1>7. CopiesOK'
  BY <1>1 DEF MethodsIInv, CopiesOK
<1>8. AskedOK' /\ ChosenIsPaid'
  BY <1>1, <1>5 DEF MethodsIInv, AskedOK, ChosenIsPaid
<1> QED BY <1>6, <1>7, <1>8 DEF MethodsIInv

LEMMA MethodsStepInv == MethodsIInv /\ [WithdrawalMethodsNext]_withdrawalMethods => MethodsIInv'
<1> SUFFICES ASSUME MethodsIInv, [WithdrawalMethodsNext]_withdrawalMethods PROVE MethodsIInv'
  OBVIOUS
<1>1. ASSUME NEW p \in Payers, NEW i \in 1 .. Cardinality(Adders), Choose(p, i) PROVE MethodsIInv'
  <2>1. i \in Nat
    BY AddersAssumption, FS_CardinalityType
  <2> QED BY <1>1, <2>1, ChooseInv
<1>2. CASE UNCHANGED withdrawalMethods
  BY <1>2 DEF withdrawalMethods, MethodsIInv, WithdrawalMethodsTypeOK, CopiesOK, AskedOK,
              ChosenIsPaid, WithdrawalMethod
<1> QED BY <1>1, <1>2, ReadWalletInv, SetMethodsInv, PushMethodInv, PayOutInv
        DEF WithdrawalMethodsNext

LEMMA MethodsInvariant == WithdrawalMethodsSpec => []MethodsIInv
BY MethodsInitInv, MethodsStepInv, PTL DEF WithdrawalMethodsSpec

\* However many additions overlap, a withdrawal pays the account that was shown at the
\* index it names: the version check of a whole-array save keeps every index.
THEOREM ChosenArePaid == WithdrawalMethodsSpec => []ChosenIsPaid
<1>1. MethodsIInv => ChosenIsPaid
  BY DEF MethodsIInv
<1> QED BY <1>1, MethodsInvariant, PTL

-----------------------------------------------------------------------------
\* The approvals of a milestone.

USE DEF Goto, Has

\* Requests in progress, and those about to create a lock, are finitely many.
LEMMA FewRequests ==
    /\ IsFiniteSet(InProgress) /\ Cardinality(InProgress) \in Nat
    /\ IsFiniteSet(Creating) /\ Cardinality(Creating) \in Nat
    /\ Creating \subseteq InProgress /\ Cardinality(Creating) <= Cardinality(InProgress)
<1>1. InProgress \subseteq Approvals /\ Creating \subseteq InProgress
  BY DEF InProgress, Creating
<1>2. IsFiniteSet(InProgress) /\ IsFiniteSet(Creating)
  BY <1>1, ApprovalsAssumption, FS_Subset
<1> QED BY <1>1, <1>2, FS_Subset, FS_CardinalityType

\* The same in the next state.
LEMMA FewRequestsNext ==
    /\ IsFiniteSet(InProgress') /\ Cardinality(InProgress') \in Nat
    /\ IsFiniteSet(Creating') /\ Cardinality(Creating') \in Nat
    /\ Creating' \subseteq InProgress' /\ Cardinality(Creating') <= Cardinality(InProgress')
<1>1. InProgress' \subseteq Approvals /\ Creating' \subseteq InProgress'
  BY DEF InProgress, Creating
<1>2. IsFiniteSet(InProgress') /\ IsFiniteSet(Creating')
  BY <1>1, ApprovalsAssumption, FS_Subset
<1> QED BY <1>1, <1>2, FS_Subset, FS_CardinalityType

\* A smaller set of requests stays within the bounds it was in.
LEMMA Fewer ==
    ASSUME NEW S, NEW T, IsFiniteSet(T), S \subseteq T
    PROVE  Cardinality(S) \in Nat /\ Cardinality(T) \in Nat /\ Cardinality(S) <= Cardinality(T)
  BY FS_Subset, FS_CardinalityType

LEMMA LocksInitInv == Init => IInv
<1> SUFFICES ASSUME Init PROVE IInv
  OBVIOUS
<1>1. TypeOK
  BY DEF Init, TypeOK, Lock
<1>2. BoundOK
  <2>1. InProgress = {} /\ Creating = {}
    BY DEF Init, InProgress, Creating
  <2>2. Len(locks) = 0
    BY DEF Init
  <2> QED BY <2>1, <2>2, FS_EmptySet, ApprovalsAssumption DEF BoundOK
<1>3. HeldOK /\ StoredOK /\ ApprovalsKept
  BY DEF Init, HeldOK, StoredOK, ApprovalsKept
<1> QED BY <1>1, <1>2, <1>3 DEF IInv

\* A step that leaves the locks alone, reads nothing new and saves nothing.
LEMMA QuietStep ==
    ASSUME IInv, NEW a \in Approvals, NEW step, UNCHANGED <<locks, read>>,
           pc' = [pc EXCEPT ![a] = step],
           step \in {"find", "create", "done", "failed"},
           step = "done" => pc[a] = "confirm",
           step \in {"find", "create"} => pc[a] \in {"new", "find"}
    PROVE  TypeOK' /\ HeldOK' /\ StoredOK' /\ ApprovalsKept'
<1>1. TypeOK'
  BY DEF IInv, TypeOK
<1>2. HeldOK'
  BY DEF IInv, HeldOK, TypeOK
<1>3. StoredOK'
  BY DEF IInv, StoredOK, TypeOK
<1>4. ApprovalsKept'
  BY DEF IInv, ApprovalsKept, TypeOK
<1> QED BY <1>1, <1>2, <1>3, <1>4

LEMMA ArriveInv ==
    ASSUME IInv, NEW a \in Approvals, Arrive(a)
    PROVE  IInv'
<1>1. TypeOK' /\ HeldOK' /\ StoredOK' /\ ApprovalsKept'
  BY QuietStep DEF Arrive
<1>2. BoundOK'
  <2>1. InProgress' = InProgress \cup {a} /\ a \notin InProgress /\ Creating' = Creating
    BY DEF Arrive, IInv, TypeOK, InProgress, Creating
  <2>2. Cardinality(InProgress') = Cardinality(InProgress) + 1
    BY <2>1, FewRequests, FS_AddElement
  <2> QED BY <2>1, <2>2, FewRequests, ApprovalsAssumption DEF Arrive, IInv, BoundOK
<1> QED BY <1>1, <1>2 DEF IInv

LEMMA FindLockInv ==
    ASSUME IInv, NEW a \in Approvals, FindLock(a)
    PROVE  IInv'
<1>1. CASE locks = <<>> /\ Goto(a, "create") /\ read' = read
  <2>1. TypeOK' /\ HeldOK' /\ StoredOK' /\ ApprovalsKept'
    BY <1>1, QuietStep DEF FindLock
  <2>2. BoundOK'
    <3>1. InProgress' = InProgress
      BY <1>1 DEF FindLock, IInv, TypeOK, InProgress
    <3>2. locks' = locks /\ Len(locks') = 0
      BY <1>1 DEF FindLock
    <3> QED BY <3>1, <3>2, FewRequests, FewRequestsNext, ApprovalsAssumption DEF IInv, BoundOK
  <2> QED BY <2>1, <2>2 DEF IInv
<1>2. ASSUME NEW n \in DOMAIN locks, Goto(a, "save"), Hold(a, n, locks[n]) PROVE IInv'
  <2> USE <1>2 DEF Hold
  <2>1. locks[n] \in Lock /\ n \in Nat /\ locks' = locks
    BY DEF IInv, TypeOK, FindLock
  <2>2. TypeOK'
    BY <2>1 DEF IInv, TypeOK, Lock
  <2>3. HeldOK'
    <3>1. read'[a].at = n /\ read'[a].version = locks[n].version /\ read'[a].approvals = locks[n].approvals
      BY DEF IInv, TypeOK
    <3>2. \A b \in Approvals \ {a} : pc'[b] = pc[b] /\ read'[b] = read[b]
      BY DEF IInv, TypeOK
    <3>3. locks[n].version <= locks[n].version
      BY <2>1 DEF Lock
    <3> QED BY <2>1, <3>1, <3>2, <3>3 DEF IInv, HeldOK
  <2>4. StoredOK' /\ ApprovalsKept'
    BY <2>1 DEF IInv, TypeOK, StoredOK, ApprovalsKept, FindLock
  <2>5. BoundOK'
    <3>1. InProgress' = InProgress /\ Creating' = Creating
      BY DEF FindLock, IInv, TypeOK, InProgress, Creating
    <3> QED BY <2>1, <3>1 DEF IInv, BoundOK
  <2> QED BY <2>2, <2>3, <2>4, <2>5 DEF IInv
<1> QED BY <1>1, <1>2 DEF FindLock

LEMMA CreateLockInv ==
    ASSUME IInv, NEW a \in Approvals, CreateLock(a)
    PROVE  IInv'
<1> USE DEF Hold
<1>1. locks \in Seq(Lock) /\ NewLock \in Lock
  BY DEF IInv, TypeOK, Lock, NewLock
<1>2. /\ locks' \in Seq(Lock) /\ Len(locks') = Len(locks) + 1 /\ Len(locks) \in Nat
      /\ DOMAIN locks' = DOMAIN locks \cup {Len(locks) + 1}
      /\ locks'[Len(locks) + 1] = NewLock
      /\ \A n \in DOMAIN locks : locks'[n] = locks[n]
  BY <1>1 DEF CreateLock
<1>3. TypeOK'
  BY <1>1, <1>2 DEF CreateLock, IInv, TypeOK, Lock
<1>4. \A b \in Approvals \ {a} : pc'[b] = pc[b] /\ read'[b] = read[b]
  BY DEF CreateLock, IInv, TypeOK
<1>5. HeldOK'
  <2>1. /\ read'[a].at = Len(locks) + 1 /\ read'[a].version = NewLock.version
        /\ read'[a].approvals = NewLock.approvals
    BY DEF CreateLock, IInv, TypeOK
  <2>2. NewLock.version <= NewLock.version
    BY DEF NewLock
  <2> QED BY <1>2, <1>4, <2>1, <2>2 DEF IInv, HeldOK
<1>6. \A b \in Approvals : b \notin NewLock.approvals
  BY DEF NewLock
<1>7. pc[a] = "create" /\ pc'[a] = "save"
  BY DEF CreateLock, IInv, TypeOK
<1>8. StoredOK'
  BY <1>2, <1>4, <1>6, <1>7 DEF IInv, StoredOK
<1>9. ApprovalsKept'
  BY <1>2, <1>4, <1>6, <1>7 DEF IInv, ApprovalsKept
<1>10. BoundOK'
  <2>1. InProgress' = InProgress /\ Creating' = Creating \ {a} /\ a \in Creating
    BY DEF CreateLock, IInv, TypeOK, InProgress, Creating
  <2>2. Cardinality(Creating') = Cardinality(Creating) - 1
    BY <2>1, FewRequests, FS_RemoveElement
  <2> QED BY <1>2, <2>1, <2>2, FewRequests, ApprovalsAssumption DEF IInv, BoundOK
<1> QED BY <1>3, <1>5, <1>8, <1>9, <1>10 DEF IInv

LEMMA SaveLockInv ==
    ASSUME IInv, NEW a \in Approvals, SaveLock(a)
    PROVE  IInv'
<1> DEFINE n == read[a].at
<1>1. /\ pc[a] = "save" /\ n \in DOMAIN locks /\ read' = read
      /\ locks \in Seq(Lock) /\ locks[n] \in Lock /\ locks[n].version \in Nat
  <2>1. pc[a] = "save" /\ read' = read /\ locks \in Seq(Lock)
    BY DEF SaveLock, IInv, TypeOK
  <2>2. n \in DOMAIN locks
    BY <2>1 DEF IInv, HeldOK
  <2>3. locks[n] \in Lock
    BY <2>1, <2>2
  <2> QED BY <2>1, <2>2, <2>3 DEF Lock
<1>2. CASE locks[n].version # read[a].version
  <2>1. locks' = locks /\ pc' = [pc EXCEPT ![a] = "failed"]
    BY <1>2 DEF SaveLock
  <2>2. TypeOK' /\ HeldOK' /\ StoredOK' /\ ApprovalsKept'
    BY <1>1, <2>1, QuietStep
  <2>3. InProgress' \subseteq InProgress /\ Creating' = Creating
    BY <1>1, <2>1 DEF IInv, TypeOK, InProgress, Creating
  <2>4. BoundOK'
    BY <2>1, <2>3, FewRequests, Fewer, ApprovalsAssumption DEF IInv, BoundOK
  <2> QED BY <2>2, <2>4 DEF IInv
<1>3. CASE locks[n].version = read[a].version
  <2> DEFINE l == [approvals |-> read[a].approvals \cup {a}, version |-> locks[n].version + 1]
  <2>1. locks' = [locks EXCEPT ![n] = l] /\ pc' = [pc EXCEPT ![a] = "confirm"]
    BY <1>3 DEF SaveLock
  <2>2. l \in Lock
    <3>1. read[a].approvals \in SUBSET Approvals
      BY DEF IInv, TypeOK
    <3> QED BY <1>1, <3>1 DEF Lock
  <2>3. /\ locks' \in Seq(Lock) /\ DOMAIN locks' = DOMAIN locks /\ Len(locks') = Len(locks)
        /\ locks'[n] = l /\ \A m \in DOMAIN locks \ {n} : locks'[m] = locks[m]
    <3> HIDE DEF l, n
    <3> QED BY <1>1, <2>1, <2>2
  <2>4. pc'[a] = "confirm" /\ \A b \in Approvals \ {a} : pc'[b] = pc[b]
    BY <2>1 DEF IInv, TypeOK
  <2>5. l.approvals = locks[n].approvals \cup {a} /\ l.version = locks[n].version + 1
    BY <1>1, <1>3 DEF IInv, HeldOK
  <2> HIDE DEF l, n
  <2>6. TypeOK'
    BY <1>1, <2>1, <2>3 DEF IInv, TypeOK
  <2>7. HeldOK'
    <3> SUFFICES ASSUME NEW b \in Approvals, pc'[b] = "save"
                 PROVE  /\ read[b].at \in DOMAIN locks'
                        /\ read[b].version <= locks'[read[b].at].version
                        /\ read[b].version = locks'[read[b].at].version =>
                             read[b].approvals = locks'[read[b].at].approvals
      BY <1>1 DEF HeldOK
    <3>1. b # a /\ pc[b] = "save"
      BY <2>4
    <3>2. read[b].version \in Nat /\ read[b].at \in DOMAIN locks
      BY <3>1 DEF IInv, TypeOK, HeldOK
    <3>3. CASE read[b].at = n
      <4>1. read[b].version <= locks[n].version
        BY <3>1, <3>3 DEF IInv, HeldOK
      <4>2. locks'[read[b].at].version = locks[n].version + 1
        BY <2>3, <2>5, <3>3
      <4> QED BY <1>1, <2>3, <3>2, <4>1, <4>2
    <3>4. CASE read[b].at # n
      BY <2>3, <3>1, <3>2, <3>4 DEF IInv, HeldOK
    <3> QED BY <3>3, <3>4
  <2>8. \A m \in DOMAIN locks : a \notin locks[m].approvals
    BY <1>1 DEF IInv, StoredOK
  <2>9. \A b \in Approvals \ {a} : \A m \in DOMAIN locks :
          b \in locks'[m].approvals <=> b \in locks[m].approvals
    BY <1>1, <2>3, <2>5
  <2>10. \A m \in DOMAIN locks : a \in locks'[m].approvals <=> m = n
    BY <1>1, <2>3, <2>5, <2>8
  <2>11. StoredOK'
    BY <2>3, <2>4, <2>9, <2>10 DEF IInv, StoredOK
  <2>12. ApprovalsKept'
    BY <1>1, <2>3, <2>4, <2>9, <2>10 DEF IInv, ApprovalsKept
  <2>13. InProgress' = InProgress /\ Creating' = Creating
    BY <1>1, <2>1 DEF IInv, TypeOK, InProgress, Creating
  <2>14. BoundOK'
    BY <2>3, <2>13 DEF IInv, BoundOK
  <2> QED BY <2>6, <2>7, <2>11, <2>12, <2>14 DEF IInv
<1> QED BY <1>2, <1>3

LEMMA EndInv ==
    ASSUME IInv, NEW a \in Approvals, Confirm(a) \/ Throw(a)
    PROVE  IInv'
<1>1. /\ UNCHANGED <<locks, read>> /\ a \in InProgress
      /\ \/ pc[a] = "confirm" /\ pc' = [pc EXCEPT ![a] = "done"]
         \/ pc' = [pc EXCEPT ![a] = "failed"]
  BY DEF Confirm, Throw, InProgress
<1>2. TypeOK' /\ HeldOK' /\ StoredOK' /\ ApprovalsKept'
  BY <1>1, QuietStep
<1>3. InProgress' \subseteq InProgress /\ Creating' \subseteq Creating
  BY <1>1 DEF IInv, TypeOK, InProgress, Creating
<1>4. BoundOK'
  <2>1. Cardinality(InProgress') <= Cardinality(InProgress)
    BY <1>3, FewRequests, Fewer
  <2>2. Cardinality(Creating') <= Cardinality(Creating)
    BY <1>3, FewRequests, Fewer
  <2>3. Len(locks) \in Nat /\ locks' = locks
    BY <1>1 DEF IInv, TypeOK
  <2> QED BY <2>1, <2>2, <2>3, FewRequests, FewRequestsNext, ApprovalsAssumption DEF IInv, BoundOK
<1> QED BY <1>2, <1>4 DEF IInv

\* The invariant of the lock documents, for every number of approvals: what a
\* request holds is current or outdated by version, and an approval is stored
\* by its own save only.
THEOREM LockInvariance == Spec => []IInv
<1>1. IInv /\ [Next]_vars => IInv'
  <2> SUFFICES ASSUME IInv, [Next]_vars PROVE IInv'
    OBVIOUS
  <2>1. CASE UNCHANGED vars
    BY <2>1 DEF IInv, TypeOK, BoundOK, HeldOK, StoredOK, ApprovalsKept, vars, InProgress, Creating
  <2>2. ASSUME NEW a \in Approvals, Arrive(a) PROVE IInv'
    BY <2>2, ArriveInv
  <2>3. ASSUME NEW a \in Approvals, FindLock(a) PROVE IInv'
    BY <2>3, FindLockInv
  <2>4. ASSUME NEW a \in Approvals, CreateLock(a) PROVE IInv'
    BY <2>4, CreateLockInv
  <2>5. ASSUME NEW a \in Approvals, SaveLock(a) PROVE IInv'
    BY <2>5, SaveLockInv
  <2>6. ASSUME NEW a \in Approvals, Confirm(a) \/ Throw(a) PROVE IInv'
    BY <2>6, EndInv
  <2> QED BY <2>1, <2>2, <2>3, <2>4, <2>5, <2>6 DEF Next
<1> QED BY LocksInitInv, <1>1, PTL DEF Spec

\* Whatever approvals overlap, one that was saved is in one lock for good
\* (addMilestoneApproval loses none).
THEOREM ApprovalsAreKept == Spec => []ApprovalsKept
<1>1. IInv => ApprovalsKept
  BY DEF IInv
<1> QED BY <1>1, LockInvariance, PTL

\* A milestone gets as many locks as approvals are in progress together at most.
THEOREM LocksAreBounded == Spec => []LocksBounded
<1>1. IInv => LocksBounded
  <2> SUFFICES ASSUME IInv PROVE LocksBounded
    OBVIOUS
  <2>1. Len(locks) \in Nat
    BY DEF IInv, TypeOK
  <2> QED BY <2>1, FewRequests, ApprovalsAssumption DEF IInv, BoundOK, LocksBounded
<1> QED BY <1>1, LockInvariance, PTL

-----------------------------------------------------------------------------
\* The treasury.

TreasuryPc == {"new", "pay", "find", "create", "save", "row", "done", "failed"}

\* What some requests add up to: nothing, one request more, fewer requests.
LEMMA UnitsOfOne ==
    ASSUME NEW b, NEW n \in Nat
    PROVE  IsFiniteSet({b} \X (1..n)) /\ Cardinality({b} \X (1..n)) = n
<1>1. IsFiniteSet({b}) /\ Cardinality({b}) = 1
  BY FS_Singleton
<1>2. IsFiniteSet(1..n) /\ Cardinality(1..n) = n
  BY FS_Interval
<1> HIDE DEF Cardinality
<1>3. /\ IsFiniteSet({b} \X (1..n))
      /\ Cardinality({b} \X (1..n)) = Cardinality({b}) * Cardinality(1..n)
  BY <1>1, <1>2, FS_Product
<1>4. Cardinality({b}) * Cardinality(1..n) = n
  BY <1>1, <1>2
<1> QED BY <1>3, <1>4

LEMMA AmountType ==
    ASSUME NEW f \in [Bookings -> Booking], NEW b \in Bookings
    PROVE  f[b].amount \in Nat
<1>1. f[b] \in Booking
  OBVIOUS
<1>2. f[b].amount \in Amounts \cup {0}
  BY <1>1 DEF Booking
<1>3. Amounts \cup {0} \subseteq Nat
  BY TreasuryAssumption
<1> QED BY <1>2, <1>3

LEMMA UnitsFinite ==
    ASSUME NEW f \in [Bookings -> Booking], NEW B \in SUBSET Bookings
    PROVE  IsFiniteSet(UNION {{b} \X (1..f[b].amount) : b \in B})
<1> DEFINE U == {{b} \X (1..f[b].amount) : b \in B}
           g == [b \in B |-> {b} \X (1..f[b].amount)]
<1>1. IsFiniteSet(B)
  BY TreasuryAssumption, FS_Subset
<1>2. g \in Surjection(B, U)
  BY DEF Surjection
<1>3. IsFiniteSet(U)
  BY <1>1, <1>2, FS_Surjection
<1>4. ASSUME NEW b \in B PROVE IsFiniteSet({b} \X (1..f[b].amount))
  <2>1. f[b].amount \in Nat
    BY AmountType
  <2> QED BY <2>1, UnitsOfOne
<1> QED BY <1>3, <1>4, FS_UNION

LEMMA TotalType ==
    ASSUME NEW f \in [Bookings -> Booking], NEW B \in SUBSET Bookings
    PROVE  TotalOf(f, B) \in Nat
  BY UnitsFinite, FS_CardinalityType DEF TotalOf

LEMMA TotalEmpty == \A f : TotalOf(f, {}) = 0
<1>1. \A f : UNION {{b} \X (1..f[b].amount) : b \in {}} = {}
  OBVIOUS
<1> QED BY <1>1, FS_EmptySet DEF TotalOf

LEMMA TotalGrows ==
    ASSUME NEW f \in [Bookings -> Booking], NEW C \in SUBSET Bookings, NEW B \in SUBSET C
    PROVE  TotalOf(f, B) <= TotalOf(f, C)
<1>1. UNION {{b} \X (1..f[b].amount) : b \in B} \subseteq UNION {{b} \X (1..f[b].amount) : b \in C}
  OBVIOUS
<1> QED BY <1>1, UnitsFinite, FS_Subset DEF TotalOf

LEMMA TotalSame ==
    ASSUME NEW f, NEW g, NEW B, \A b \in B : f[b].amount = g[b].amount
    PROVE  TotalOf(f, B) = TotalOf(g, B)
<1>1. {{b} \X (1..f[b].amount) : b \in B} = {{b} \X (1..g[b].amount) : b \in B}
  OBVIOUS
<1> QED BY <1>1 DEF TotalOf

LEMMA TotalAdds ==
    ASSUME NEW f \in [Bookings -> Booking], NEW B \in SUBSET Bookings, NEW b \in Bookings \ B
    PROVE  TotalOf(f, B \cup {b}) = TotalOf(f, B) + f[b].amount
<1> DEFINE U == UNION {{c} \X (1..f[c].amount) : c \in B}
           V == {b} \X (1..f[b].amount)
<1>1. UNION {{c} \X (1..f[c].amount) : c \in B \cup {b}} = U \cup V
  OBVIOUS
<1>2. U \cap V = {}
  OBVIOUS
<1>3. IsFiniteSet(U) /\ IsFiniteSet(V) /\ Cardinality(V) = f[b].amount
  BY UnitsFinite, UnitsOfOne, AmountType
<1>4. Cardinality(U) \in Nat
  BY <1>3, FS_CardinalityType
<1> HIDE DEF U, V
<1>5. Cardinality(U \cup V) = Cardinality(U) + Cardinality(V) - Cardinality({})
  BY <1>2, <1>3, FS_Union
<1>6. Cardinality({}) = 0
  BY FS_EmptySet
<1>7. Cardinality(U \cup V) = Cardinality(U) + f[b].amount
  BY <1>3, <1>4, <1>5, <1>6, AmountType
<1> QED BY <1>1, <1>7 DEF TotalOf, U

\* What a step does to the request it belongs to.
OnlyOf(b) ==
    /\ booking' \in [Bookings -> Booking]
    /\ \A c \in Bookings : c # b => booking'[c] = booking[c]

Same(b) == booking'[b].type = booking[b].type /\ booking'[b].amount = booking[b].amount

LEMMA GoesEffect ==
    ASSUME booking \in [Bookings -> Booking], NEW b \in Bookings, NEW goal \in TreasuryPc, Goes(b, goal)
    PROVE  /\ OnlyOf(b) /\ Same(b) /\ booking'[b].pc = goal
           /\ goal \notin {"done", "failed"} =>
                booking'[b].at = booking[b].at /\ booking'[b].read = booking[b].read
<1>1. booking[b] \in Booking /\ Empty \in Balances
  BY DEF Empty, Balances
<1>2. CASE goal \in {"done", "failed"}
  BY <1>1, <1>2 DEF Goes, OnlyOf, Same, Booking, TreasuryPc
<1>3. CASE goal \notin {"done", "failed"}
  BY <1>1, <1>3 DEF Goes, OnlyOf, Same, Booking, TreasuryPc
<1> QED BY <1>2, <1>3

LEMMA HoldingEffect ==
    ASSUME booking \in [Bookings -> Booking], NEW b \in Bookings, NEW n \in Nat,
           NEW wallet \in Balances, Holding(b, n, wallet)
    PROVE  /\ OnlyOf(b) /\ Same(b)
           /\ \/ booking[b].type = "balance" /\ booking'[b].pc = "done"
              \/ booking[b].type \in Out /\ booking'[b].pc = "failed"
              \/ /\ booking[b].type \in In \cup Out /\ booking'[b].pc = "save"
                 /\ booking'[b].at = n /\ booking'[b].read = wallet
                 /\ booking[b].type = "WITHDRAWAL" => booking[b].amount <= wallet.total
                 /\ booking[b].type \in Out => booking[b].amount <= wallet.available
<1> DEFINE short == \/ booking[b].type = "WITHDRAWAL" /\ wallet.total < booking[b].amount
                    \/ booking[b].type \in Out /\ wallet.available < booking[b].amount
<1>1. booking[b] \in Booking /\ booking[b].amount \in Nat /\ wallet.total \in Nat /\ wallet.available \in Nat
  BY AmountType DEF Balances
<1>2. CASE booking[b].type = "balance"
  BY <1>2, GoesEffect DEF Holding, TreasuryPc
<1>3. CASE booking[b].type # "balance" /\ short
  BY <1>3, GoesEffect DEF Holding, TreasuryPc, Out
<1>4. CASE booking[b].type # "balance" /\ ~ short
  <2>1. booking' = [booking EXCEPT ![b] = [@ EXCEPT !.pc = "save", !.at = n, !.read = wallet]]
    BY <1>4 DEF Holding
  <2>2. OnlyOf(b) /\ Same(b)
    BY <1>1, <2>1 DEF OnlyOf, Same, Booking
  <2>3. booking'[b].pc = "save" /\ booking'[b].at = n /\ booking'[b].read = wallet
    BY <1>1, <2>1 DEF Booking
  <2>4. /\ booking[b].type = "WITHDRAWAL" => booking[b].amount <= wallet.total
        /\ booking[b].type \in Out => booking[b].amount <= wallet.available
    BY <1>1, <1>4
  <2>5. booking[b].type \in In \cup Out
    BY <1>1, <1>4 DEF Booking
  <2> QED BY <2>2, <2>3, <2>4, <2>5
<1> QED BY <1>2, <1>3, <1>4

\* A step that saves no balance leaves the sums as they were, those of what was
\* taken unless a request fails.
LEMMA SumsKept ==
    ASSUME TreasuryTypeOK, NEW b \in Bookings, OnlyOf(b), b \notin Shown, b \notin Shown',
           b \notin Taken(Out) \/ Same(b)
    PROVE  /\ Shown' = Shown /\ TotalOf(booking, Shown)' = TotalOf(booking, Shown)
           /\ (b \in Taken(Out)') = (b \in Taken(Out)) =>
                /\ Taken(Out)' = Taken(Out)
                /\ TotalOf(booking, Taken(Out))' = TotalOf(booking, Taken(Out))
                /\ TotalOf(booking, Taken({"WITHDRAWAL"}))' = TotalOf(booking, Taken({"WITHDRAWAL"}))
<1>1. Shown' = Shown /\ \A c \in Shown : booking'[c].amount = booking[c].amount
  BY DEF Shown, OnlyOf
<1>2. ASSUME (b \in Taken(Out)') = (b \in Taken(Out))
      PROVE  /\ Taken(Out)' = Taken(Out)
             /\ Taken({"WITHDRAWAL"})' = Taken({"WITHDRAWAL"})
             /\ \A c \in Taken(Out) : booking'[c].amount = booking[c].amount
             /\ Taken({"WITHDRAWAL"}) \subseteq Taken(Out)
  BY <1>2 DEF Taken, OnlyOf, Same, Out
<1>3. TotalOf(booking', Shown) = TotalOf(booking, Shown)
  BY <1>1, TotalSame
<1>4. ASSUME (b \in Taken(Out)') = (b \in Taken(Out))
      PROVE  /\ TotalOf(booking', Taken(Out)) = TotalOf(booking, Taken(Out))
             /\ TotalOf(booking', Taken({"WITHDRAWAL"})) = TotalOf(booking, Taken({"WITHDRAWAL"}))
  <2>1. \A c \in Taken({"WITHDRAWAL"}) : booking'[c].amount = booking[c].amount
    BY <1>2, <1>4
  <2> QED BY <1>2, <1>4, <2>1, TotalSame
<1> QED BY <1>1, <1>2, <1>3, <1>4

LEMMA TreasuryInitInv == TreasuryInit => TreasuryIInv
<1> SUFFICES ASSUME TreasuryInit PROVE TreasuryIInv
  OBVIOUS
<1> USE DEF TreasuryInit
<1>1. TreasuryTypeOK
  BY DEF TreasuryTypeOK, Booking, Balances, Empty
<1>2. Shown = {} /\ Taken(Out) = {} /\ Booked = {}
  BY DEF Shown, Taken, Booked
<1>3. RowsInPlace /\ ReadsCover /\ BalancesSaved
  BY DEF RowsInPlace, ReadsCover, BalancesSaved
<1>4. SmoothOK
  BY <1>2 DEF SmoothOK
<1> QED BY <1>1, <1>3, <1>4 DEF TreasuryIInv

\* A step of a request that is new or in progress and that leaves the balances as
\* they are.
LEMMA BalancesKept ==
    ASSUME TreasuryIInv, NEW b \in Bookings, OnlyOf(b), UNCHANGED treasury,
           b \notin Shown, b \notin Shown', b \notin Taken(Out) \/ Same(b),
           booking'[b].pc = "save" =>
             \E n \in DOMAIN treasury : booking'[b].at = n /\ booking'[b].read = treasury[n],
           booking'[b].pc = "save" /\ booking'[b].type = "WITHDRAWAL" =>
             booking'[b].amount <= booking'[b].read.total,
           booking'[b].pc = "save" /\ booking'[b].type \in Out =>
             booking'[b].amount <= booking'[b].read.available
    PROVE  ReadsCover' /\ BalancesSaved'
<1> USE DEF TreasuryIInv
<1>1. TotalOf(booking, Shown)' = TotalOf(booking, Shown)
  BY SumsKept
<1>2. ReadsCover'
  BY DEF ReadsCover, OnlyOf
<1>3. BalancesSaved'
  <2>1. \A n \in DOMAIN treasury' : SavedBefore(treasury[n])'
    BY <1>1 DEF BalancesSaved, SavedBefore
  <2>2. \A c \in Bookings : booking'[c].pc = "save" => SavedBefore(booking[c].read)'
    BY <1>1 DEF BalancesSaved, SavedBefore, OnlyOf
  <2> QED BY <2>1, <2>2 DEF BalancesSaved
<1> QED BY <1>2, <1>3

LEMMA SmoothKept ==
    ASSUME TreasuryIInv, NEW b \in Bookings, OnlyOf(b), UNCHANGED treasury,
           b \notin Shown, b \notin Shown', b \notin Taken(Out) \/ Same(b),
           (b \in Taken(Out)') = (b \in Taken(Out)),
           smooth' => smooth /\ (b \in Booked \/ Booked = {}),
           booking'[b].pc = "create" => treasury = <<>>,
           booking'[b].pc = "save" => booking'[b].read = treasury[booking'[b].at],
           rows' \subseteq rows \cup {b},
           b \in rows' /\ smooth' => booking'[b].pc # "failed"
    PROVE  SmoothOK'
<1> SUFFICES ASSUME smooth' PROVE SmoothOK'
  BY DEF SmoothOK
<1> USE DEF TreasuryIInv
<1>1. /\ Shown' = Shown /\ TotalOf(booking, Shown)' = TotalOf(booking, Shown)
      /\ Taken(Out)' = Taken(Out)
      /\ TotalOf(booking, Taken(Out))' = TotalOf(booking, Taken(Out))
      /\ TotalOf(booking, Taken({"WITHDRAWAL"}))' = TotalOf(booking, Taken({"WITHDRAWAL"}))
  BY SumsKept
<1>2. Booked' \subseteq Booked \cup {b}
  BY DEF Booked, OnlyOf
<1>3. \A c, d \in Booked' : c = d
  BY <1>2 DEF SmoothOK
<1>4. \A n \in DOMAIN treasury : Exact(treasury[n])'
  BY <1>1 DEF SmoothOK, Exact
<1>5. \A c \in Bookings :
        /\ booking'[c].pc = "create" => treasury = <<>>
        /\ booking'[c].pc = "save" => booking'[c].read = treasury[booking'[c].at]
  BY DEF SmoothOK, OnlyOf
<1>6. \A c \in rows' : booking'[c].pc # "failed"
  BY DEF SmoothOK, OnlyOf, TreasuryTypeOK
<1> QED BY <1>1, <1>3, <1>4, <1>5, <1>6 DEF SmoothOK

LEMMA BookStep ==
    ASSUME TreasuryIInv, NEW b \in Bookings, NEW type \in In \cup Out \cup {"balance"},
           NEW amount \in Amounts \cup {0}, NEW onchain \in BOOLEAN, Book(b, type, amount, onchain)
    PROVE  TreasuryIInv'
<1> DEFINE p == IF type \in In THEN "row" ELSE IF onchain THEN "pay" ELSE "find"
<1>0. TreasuryTypeOK /\ booking[b] \in Booking /\ amount \in Nat
  <2>1. Amounts \cup {0} \subseteq Nat
    BY TreasuryAssumption
  <2> QED BY <2>1 DEF TreasuryIInv, TreasuryTypeOK
<1>1. /\ booking' = [booking EXCEPT ![b] =
           [@ EXCEPT !.type = type, !.amount = amount, !.onchain = onchain, !.pc = p]]
      /\ booking[b].pc = "new" /\ (type = "balance" <=> amount = 0) /\ (onchain => type \in Out)
      /\ UNCHANGED <<treasury, rows, paid>> /\ smooth' = (smooth /\ Booked = {})
  BY DEF Book
<1>2. /\ OnlyOf(b) /\ booking'[b].type = type /\ booking'[b].amount = amount
      /\ booking'[b].pc = p
  BY <1>0, <1>1 DEF OnlyOf, Booking, TreasuryTypeOK
<1>3. p \in {"row", "pay", "find"} /\ (p = "row" <=> type \in In) /\ (p = "pay" => type \in Out)
  BY <1>1
<1> HIDE DEF p
<1>4. b \notin rows /\ b \notin Shown /\ b \notin Shown' /\ b \notin Taken(Out) /\ b \notin Taken(Out)'
  <2>1. \A t \in In : t \notin Out
    BY DEF In, Out
  <2> QED BY <1>1, <1>2, <1>3, <2>1 DEF TreasuryIInv, RowsInPlace, Shown, Taken
<1>5. TreasuryTypeOK'
  BY <1>0, <1>1, <1>2 DEF TreasuryTypeOK, OnlyOf
<1>6. RowsInPlace'
  <2> SUFFICES ASSUME NEW c \in Bookings PROVE RowsInPlace!(c)'
    BY DEF RowsInPlace
  <2>1. CASE c # b
    BY <1>1, <1>2, <2>1 DEF TreasuryIInv, RowsInPlace, OnlyOf
  <2>2. CASE c = b
    <3>1. (type = "balance" <=> amount = 0) /\ b \notin rows'
      BY <1>1, <1>4
    <3> QED BY <1>2, <1>3, <2>2, <3>1 DEF In, Out
  <2> QED BY <2>1, <2>2
<1>7. ReadsCover' /\ BalancesSaved'
  BY <1>1, <1>2, <1>3, <1>4, BalancesKept
<1>8. SmoothOK'
  <2>1. smooth' => smooth /\ Booked = {}
    BY <1>1
  <2> QED BY <1>1, <1>2, <1>3, <1>4, <2>1, SmoothKept
<1> QED BY <1>5, <1>6, <1>7, <1>8 DEF TreasuryIInv

LEMMA PayStep ==
    ASSUME TreasuryIInv, NEW b \in Bookings, NEW reverted \in BOOLEAN, Pay(b, reverted)
    PROVE  TreasuryIInv'
<1>1. booking \in [Bookings -> Booking] /\ booking[b].pc = "pay" /\ booking[b].type \in Out
  BY DEF TreasuryIInv, TreasuryTypeOK, RowsInPlace, Pay
<1>2. OnlyOf(b) /\ Same(b) /\ booking'[b].pc = "find"
  BY <1>1, GoesEffect DEF Pay, TreasuryPc
<1>3. UNCHANGED <<treasury, rows, smooth>> /\ paid' \in SUBSET Bookings
  BY DEF Pay, TreasuryIInv, TreasuryTypeOK
<1>4. b \notin Shown /\ b \notin Shown' /\ b \notin Taken(Out) /\ b \notin Taken(Out)' /\ b \in Booked
  BY <1>1, <1>2 DEF Shown, Taken, Booked
<1>5. TreasuryTypeOK'
  BY <1>2, <1>3 DEF TreasuryIInv, TreasuryTypeOK, OnlyOf
<1>6. RowsInPlace'
  BY <1>1, <1>2, <1>3 DEF TreasuryIInv, RowsInPlace, OnlyOf, Same, In, Out
<1>7. ReadsCover' /\ BalancesSaved'
  BY <1>2, <1>3, <1>4, BalancesKept
<1>8. b \notin rows
  BY <1>1 DEF TreasuryIInv, RowsInPlace
<1>9. SmoothOK'
  BY <1>2, <1>3, <1>4, <1>8, SmoothKept
<1> QED BY <1>5, <1>6, <1>7, <1>9 DEF TreasuryIInv

\* A request holds the n-th document: what it will save is covered by it.
LEMMA HoldingStep ==
    ASSUME TreasuryIInv, NEW b \in Bookings, booking[b].pc \in {"find", "create"},
           NEW n \in DOMAIN treasury, Holding(b, n, treasury[n]),
           UNCHANGED <<treasury, rows, paid, smooth>>
    PROVE  TreasuryIInv'
<1>1. /\ booking \in [Bookings -> Booking] /\ treasury \in Seq(Balances)
      /\ n \in Nat /\ treasury[n] \in Balances /\ booking[b] \in Booking
  BY DEF TreasuryIInv, TreasuryTypeOK
<1>2. /\ OnlyOf(b) /\ Same(b)
      /\ \/ booking[b].type = "balance" /\ booking'[b].pc = "done"
         \/ booking[b].type \in Out /\ booking'[b].pc = "failed"
         \/ /\ booking[b].type \in In \cup Out /\ booking'[b].pc = "save"
            /\ booking'[b].at = n /\ booking'[b].read = treasury[n]
            /\ booking[b].type = "WITHDRAWAL" => booking[b].amount <= treasury[n].total
            /\ booking[b].type \in Out => booking[b].amount <= treasury[n].available
  BY <1>1, HoldingEffect
<1>3. "balance" \notin In \cup Out /\ \A t \in In : t \notin Out
  BY DEF In, Out
<1>4. b \notin Shown /\ b \notin Shown' /\ b \notin Taken(Out) /\ b \notin Taken(Out)' /\ b \in Booked
  BY <1>1, <1>2, <1>3 DEF Shown, Taken, Booked, Same
<1>5. TreasuryTypeOK'
  BY <1>2 DEF TreasuryIInv, TreasuryTypeOK, OnlyOf
<1>6. RowsInPlace'
  <2> SUFFICES ASSUME NEW c \in Bookings PROVE RowsInPlace!(c)'
    BY DEF RowsInPlace
  <2>1. CASE c # b
    BY <1>2, <2>1 DEF TreasuryIInv, RowsInPlace, OnlyOf
  <2>2. CASE c = b
    <3>1. RowsInPlace!(b)
      BY DEF TreasuryIInv, RowsInPlace
    <3> QED BY <1>2, <1>3, <2>2, <3>1 DEF Same
  <2> QED BY <2>1, <2>2
<1>7. ReadsCover' /\ BalancesSaved'
  BY <1>2, <1>4, BalancesKept DEF Same
<1>8. b \in rows => booking[b].type \in In
  BY DEF TreasuryIInv, RowsInPlace
<1>9. SmoothOK'
  BY <1>2, <1>3, <1>4, <1>8, SmoothKept
<1> QED BY <1>5, <1>6, <1>7, <1>9 DEF TreasuryIInv

LEMMA FindStep ==
    ASSUME TreasuryIInv, NEW b \in Bookings, FindTreasury(b)
    PROVE  TreasuryIInv'
<1>0. booking \in [Bookings -> Booking] /\ treasury \in Seq(Balances) /\ booking[b].pc = "find"
  BY DEF TreasuryIInv, TreasuryTypeOK, FindTreasury
<1>1. CASE treasury = <<>>
  <2>1. OnlyOf(b) /\ Same(b) /\ booking'[b].pc = "create"
    BY <1>0, <1>1, GoesEffect DEF FindTreasury, TreasuryPc
  <2>2. UNCHANGED <<treasury, rows, paid, smooth>>
    BY DEF FindTreasury
  <2>3. b \notin Shown /\ b \notin Shown' /\ b \notin Taken(Out) /\ b \notin Taken(Out)' /\ b \in Booked
    BY <1>0, <2>1 DEF Shown, Taken, Booked
  <2>4. TreasuryTypeOK'
    BY <2>1, <2>2 DEF TreasuryIInv, TreasuryTypeOK, OnlyOf
  <2>5. RowsInPlace'
    BY <1>0, <2>1, <2>2 DEF TreasuryIInv, RowsInPlace, OnlyOf, Same, In, Out
  <2>6. ReadsCover' /\ BalancesSaved'
    BY <2>1, <2>2, <2>3, BalancesKept
  <2>7. SmoothOK'
    BY <1>1, <2>1, <2>2, <2>3, SmoothKept
  <2> QED BY <2>4, <2>5, <2>6, <2>7 DEF TreasuryIInv
<1>2. CASE treasury # <<>>
  <2>1. 1 \in DOMAIN treasury
    BY <1>0, <1>2
  <2> QED BY <1>0, <1>2, <2>1, HoldingStep DEF FindTreasury
<1> QED BY <1>1, <1>2

LEMMA RowStep ==
    ASSUME TreasuryIInv, NEW b \in Bookings, Row(b)
    PROVE  TreasuryIInv'
<1> DEFINE p == IF booking[b].type \in In THEN "find" ELSE "done"
<1>0. /\ booking \in [Bookings -> Booking] /\ booking[b].pc = "row"
      /\ booking[b].type \in In \cup Out /\ p \in TreasuryPc
  BY DEF TreasuryIInv, TreasuryTypeOK, RowsInPlace, Row, TreasuryPc
<1>1. OnlyOf(b) /\ Same(b) /\ booking'[b].pc = p
  BY <1>0, GoesEffect DEF Row
<1>2. \A t \in In : t \notin Out
  BY DEF In, Out
<1>3. (booking[b].type \in In /\ p = "find") \/ (booking[b].type \in Out /\ p = "done")
  BY <1>0
<1> HIDE DEF p
<1>4. UNCHANGED <<treasury, paid, smooth>> /\ rows' = rows \cup {b}
  BY DEF Row
<1>5. b \notin Shown /\ b \notin Shown' /\ (b \in Taken(Out)') = (b \in Taken(Out)) /\ b \in Booked
  BY <1>0, <1>1, <1>2, <1>3 DEF Shown, Taken, Booked, Same
<1>6. TreasuryTypeOK'
  BY <1>1, <1>4 DEF TreasuryIInv, TreasuryTypeOK, OnlyOf
<1>7. RowsInPlace'
  <2> SUFFICES ASSUME NEW c \in Bookings PROVE RowsInPlace!(c)'
    BY DEF RowsInPlace
  <2>1. CASE c # b
    BY <1>1, <1>4, <2>1 DEF TreasuryIInv, RowsInPlace, OnlyOf
  <2>2. CASE c = b
    <3>1. RowsInPlace!(b)
      BY DEF TreasuryIInv, RowsInPlace
    <3> QED BY <1>1, <1>2, <1>3, <1>4, <2>2, <3>1 DEF Same
  <2> QED BY <2>1, <2>2
<1>8. ReadsCover' /\ BalancesSaved'
  BY <1>1, <1>3, <1>4, <1>5, BalancesKept
<1>9. SmoothOK'
  BY <1>1, <1>3, <1>4, <1>5, SmoothKept
<1> QED BY <1>6, <1>7, <1>8, <1>9 DEF TreasuryIInv

\* A failed request may have taken its amount off the balances for nothing, which
\* only the exact sums would notice.
LEMMA FailStep ==
    ASSUME TreasuryIInv, NEW b \in Bookings, Fail(b)
    PROVE  TreasuryIInv'
<1>0. /\ booking \in [Bookings -> Booking] /\ booking[b].pc \notin {"new", "done", "failed"}
      /\ UNCHANGED <<treasury, rows, paid>> /\ smooth' = FALSE
  BY DEF TreasuryIInv, TreasuryTypeOK, Fail, Booked
<1>1. OnlyOf(b) /\ Same(b) /\ booking'[b].pc = "failed"
  BY <1>0, GoesEffect DEF Fail, TreasuryPc
<1>2. b \notin Shown /\ b \notin Shown'
  BY <1>0, <1>1 DEF Shown
<1>3. TreasuryTypeOK'
  BY <1>0, <1>1 DEF TreasuryIInv, TreasuryTypeOK, OnlyOf
<1>4. RowsInPlace'
  <2> SUFFICES ASSUME NEW c \in Bookings PROVE RowsInPlace!(c)'
    BY DEF RowsInPlace
  <2>1. CASE c # b
    BY <1>0, <1>1, <2>1 DEF TreasuryIInv, RowsInPlace, OnlyOf
  <2>2. CASE c = b
    <3>1. RowsInPlace!(b)
      BY DEF TreasuryIInv, RowsInPlace
    <3> QED BY <1>0, <1>1, <2>2, <3>1 DEF Same
  <2> QED BY <2>1, <2>2
<1>5. ReadsCover' /\ BalancesSaved'
  BY <1>0, <1>1, <1>2, BalancesKept
<1>6. SmoothOK'
  BY <1>0 DEF SmoothOK
<1> QED BY <1>3, <1>4, <1>5, <1>6 DEF TreasuryIInv

LEMMA CreateStep ==
    ASSUME TreasuryIInv, NEW b \in Bookings, CreateTreasury(b)
    PROVE  TreasuryIInv'
<1> DEFINE n == Len(treasury) + 1
<1>0. /\ booking \in [Bookings -> Booking] /\ treasury \in Seq(Balances) /\ booking[b].pc = "create"
      /\ n \in Nat /\ Empty \in Balances /\ booking[b] \in Booking
  BY DEF TreasuryIInv, TreasuryTypeOK, CreateTreasury, Balances, Empty
<1>1. /\ treasury' = Append(treasury, Empty) /\ Holding(b, n, Empty)
      /\ UNCHANGED <<rows, paid, smooth>>
  BY DEF CreateTreasury
<1>2. /\ treasury' \in Seq(Balances) /\ Len(treasury') = n /\ treasury'[n] = Empty
      /\ DOMAIN treasury' = (DOMAIN treasury) \cup {n} /\ treasury' # <<>>
      /\ \A k \in DOMAIN treasury : treasury'[k] = treasury[k]
  BY <1>0, <1>1
<1> HIDE DEF n
<1>3. /\ OnlyOf(b) /\ Same(b)
      /\ \/ booking[b].type = "balance" /\ booking'[b].pc = "done"
         \/ booking[b].type \in Out /\ booking'[b].pc = "failed"
         \/ /\ booking[b].type \in In \cup Out /\ booking'[b].pc = "save"
            /\ booking'[b].at = n /\ booking'[b].read = Empty
            /\ booking[b].type = "WITHDRAWAL" => booking[b].amount <= Empty.total
            /\ booking[b].type \in Out => booking[b].amount <= Empty.available
  BY <1>0, <1>1, HoldingEffect
<1>4. "balance" \notin In \cup Out /\ \A t \in In : t \notin Out
  BY DEF In, Out
<1>5. b \notin Shown /\ b \notin Shown' /\ b \notin Taken(Out) /\ b \notin Taken(Out)' /\ b \in Booked
  BY <1>0, <1>3, <1>4 DEF Shown, Taken, Booked, Same
<1>6. /\ Shown' = Shown /\ TotalOf(booking, Shown)' = TotalOf(booking, Shown)
      /\ Taken(Out)' = Taken(Out)
      /\ TotalOf(booking, Taken(Out))' = TotalOf(booking, Taken(Out))
      /\ TotalOf(booking, Taken({"WITHDRAWAL"}))' = TotalOf(booking, Taken({"WITHDRAWAL"}))
  BY <1>3, <1>5, SumsKept DEF TreasuryIInv
<1>7. TreasuryTypeOK'
  BY <1>1, <1>2, <1>3 DEF TreasuryIInv, TreasuryTypeOK, OnlyOf
<1>8. RowsInPlace'
  <2> SUFFICES ASSUME NEW c \in Bookings PROVE RowsInPlace!(c)'
    BY DEF RowsInPlace
  <2>1. CASE c # b
    BY <1>1, <1>3, <2>1 DEF TreasuryIInv, RowsInPlace, OnlyOf
  <2>2. CASE c = b
    <3>1. RowsInPlace!(b)
      BY DEF TreasuryIInv, RowsInPlace
    <3> QED BY <1>0, <1>1, <1>3, <1>4, <2>2, <3>1 DEF Same
  <2> QED BY <2>1, <2>2
<1>9. ReadsCover'
  BY <1>2, <1>3 DEF TreasuryIInv, ReadsCover, OnlyOf, Same
<1>10. BalancesSaved'
  <2>1. SavedBefore(Empty)'
    <3>1. TotalOf(booking, Shown) \in Nat
      BY <1>0, TotalType DEF Shown
    <3> QED BY <1>6, <3>1 DEF SavedBefore, Empty
  <2>2. \A k \in DOMAIN treasury : SavedBefore(treasury[k])'
    BY <1>2, <1>6 DEF TreasuryIInv, BalancesSaved, SavedBefore
  <2>3. \A c \in Bookings : booking'[c].pc = "save" => SavedBefore(booking[c].read)'
    BY <1>3, <1>6, <2>1 DEF TreasuryIInv, BalancesSaved, SavedBefore, OnlyOf
  <2> QED BY <1>2, <2>1, <2>2, <2>3 DEF BalancesSaved
<1>11. SmoothOK'
  <2> SUFFICES ASSUME smooth' PROVE SmoothOK'
    BY DEF SmoothOK
  <2>1. treasury = <<>> /\ Shown = {} /\ Taken(Out) = {} /\ \A c \in Booked : c = b
    BY <1>0, <1>1, <1>5 DEF TreasuryIInv, SmoothOK
  <2>2. n = 1 /\ DOMAIN treasury = {}
    BY <2>1 DEF n
  <2>3. TotalOf(booking, Taken({"WITHDRAWAL"})) = 0 /\ TotalOf(booking, Taken(Out)) = 0
        /\ TotalOf(booking, Shown) = 0
    <3>1. Taken({"WITHDRAWAL"}) = {}
      BY <2>1 DEF Taken, Out
    <3> QED BY <2>1, <3>1, TotalEmpty
  <2>4. Exact(Empty)'
    BY <1>6, <2>3 DEF Exact, Empty
  <2>5. \A c \in Booked' : c = b
    BY <1>3, <2>1 DEF Booked, OnlyOf
  <2>6. \A c \in Bookings : c # b => booking'[c].pc \notin {"create", "save"}
    BY <2>5 DEF Booked
  <2>7. \A c \in rows' : booking'[c].pc # "failed"
    <3>1. b \in rows => booking[b].type \in In
      BY <1>0 DEF TreasuryIInv, RowsInPlace
    <3> QED BY <1>1, <1>3, <1>4, <3>1 DEF TreasuryIInv, TreasuryTypeOK, SmoothOK, OnlyOf
  <2> QED BY <1>2, <1>3, <1>4, <2>2, <2>4, <2>5, <2>6, <2>7 DEF SmoothOK
<1> QED BY <1>7, <1>8, <1>9, <1>10, <1>11 DEF TreasuryIInv

\* The document after a save: new balances for those read, but a total that is left
\* alone is the one stored.
Stored(type, a, held, doc) ==
    LET new == Changed(type, a, held)
    IN  [total |-> IF new.total = held.total THEN doc.total ELSE new.total,
         available |-> new.available]

ShownAfter(type, a, shown) == IF type \in In THEN shown + a ELSE shown
OutAfter(type, a, gone) == IF type \in In THEN gone ELSE gone + a
DrawnAfter(type, a, drawn) == IF type = "WITHDRAWAL" THEN drawn + a ELSE drawn

LEMMA StoredForms ==
    ASSUME NEW type \in In \cup Out, NEW a \in Nat \ {0}, NEW held \in Balances, NEW doc \in Balances,
           type = "WITHDRAWAL" => a <= held.total, type \in Out => a <= held.available
    PROVE  /\ type \in In =>
                Stored(type, a, held, doc) = [total |-> held.total + a, available |-> held.available + a]
           /\ type = "WITHDRAWAL" =>
                Stored(type, a, held, doc) = [total |-> held.total - a, available |-> held.available - a]
           /\ type = "DISTRIBUTION" =>
                Stored(type, a, held, doc) = [total |-> doc.total, available |-> held.available - a]
           /\ Stored(type, a, held, doc) \in Balances
<1>1. /\ held.total \in Nat /\ held.available \in Nat /\ doc.total \in Nat /\ doc.available \in Nat
      /\ type \in {"FEE", "DONATION", "WITHDRAWAL", "DISTRIBUTION"}
  BY DEF Balances, In, Out
<1>2. CASE type \in In
  BY <1>1, <1>2 DEF Stored, Changed, In, Balances
<1>3. CASE type = "WITHDRAWAL"
  BY <1>1, <1>3 DEF Stored, Changed, In, Out, Balances
<1>4. CASE type = "DISTRIBUTION"
  BY <1>1, <1>4 DEF Stored, Changed, In, Out, Balances
<1> QED BY <1>1, <1>2, <1>3, <1>4 DEF In

Below(wallet, sum) == wallet.total <= sum /\ wallet.available <= sum

LEMMA StoredBelow ==
    ASSUME NEW type \in In \cup Out, NEW a \in Nat \ {0}, NEW held \in Balances, NEW doc \in Balances,
           type = "WITHDRAWAL" => a <= held.total, type \in Out => a <= held.available,
           NEW shown \in Nat, Below(held, shown), Below(doc, shown)
    PROVE  Below(Stored(type, a, held, doc), ShownAfter(type, a, shown))
<1>1. /\ held.total \in Nat /\ held.available \in Nat /\ doc.total \in Nat /\ doc.available \in Nat
      /\ type \in {"FEE", "DONATION", "WITHDRAWAL", "DISTRIBUTION"}
  BY DEF Balances, In, Out
<1>2. CASE type \in In
  <2>1. Stored(type, a, held, doc) = [total |-> held.total + a, available |-> held.available + a]
    BY <1>2, StoredForms
  <2> QED BY <1>1, <1>2, <2>1 DEF Below, ShownAfter
<1>3. CASE type = "WITHDRAWAL"
  <2>1. Stored(type, a, held, doc) = [total |-> held.total - a, available |-> held.available - a]
    BY <1>3, StoredForms
  <2> QED BY <1>1, <1>3, <2>1 DEF Below, ShownAfter, In
<1>4. CASE type = "DISTRIBUTION"
  <2>1. Stored(type, a, held, doc) = [total |-> doc.total, available |-> held.available - a]
    BY <1>4, StoredForms
  <2> QED BY <1>1, <1>4, <2>1 DEF Below, ShownAfter, In, Out
<1> QED BY <1>1, <1>2, <1>3, <1>4 DEF In

LEMMA StoredExact ==
    ASSUME NEW type \in In \cup Out, NEW a \in Nat \ {0}, NEW doc \in Balances,
           type = "WITHDRAWAL" => a <= doc.total, type \in Out => a <= doc.available,
           NEW shown \in Nat, NEW gone \in Nat, NEW drawn \in Nat,
           doc.total + drawn = shown, doc.available + gone = shown
    PROVE  /\ Stored(type, a, doc, doc).total + DrawnAfter(type, a, drawn) = ShownAfter(type, a, shown)
           /\ Stored(type, a, doc, doc).available + OutAfter(type, a, gone) = ShownAfter(type, a, shown)
<1>1. /\ doc.total \in Nat /\ doc.available \in Nat
      /\ type \in {"FEE", "DONATION", "WITHDRAWAL", "DISTRIBUTION"}
  BY DEF Balances, In, Out
<1>2. CASE type \in In
  <2>1. Stored(type, a, doc, doc) = [total |-> doc.total + a, available |-> doc.available + a]
    BY <1>2, StoredForms
  <2> QED BY <1>1, <1>2, <2>1 DEF DrawnAfter, OutAfter, ShownAfter, In
<1>3. CASE type = "WITHDRAWAL"
  <2>1. Stored(type, a, doc, doc) = [total |-> doc.total - a, available |-> doc.available - a]
    BY <1>3, StoredForms
  <2> QED BY <1>1, <1>3, <2>1 DEF DrawnAfter, OutAfter, ShownAfter, In, Out
<1>4. CASE type = "DISTRIBUTION"
  <2>1. Stored(type, a, doc, doc) = [total |-> doc.total, available |-> doc.available - a]
    BY <1>4, StoredForms
  <2> QED BY <1>1, <1>4, <2>1 DEF DrawnAfter, OutAfter, ShownAfter, In, Out
<1> QED BY <1>1, <1>2, <1>3, <1>4 DEF In

LEMMA SaveStep ==
    ASSUME TreasuryIInv, NEW b \in Bookings, SaveTreasury(b)
    PROVE  TreasuryIInv'
<1> DEFINE p == IF booking[b].type \in In THEN "done" ELSE "row"
<1>0. PICK type, a, at, held :
        /\ booking[b].type = type /\ booking[b].amount = a
        /\ booking[b].at = at /\ booking[b].read = held
  OBVIOUS
<1>1. /\ booking \in [Bookings -> Booking] /\ treasury \in Seq(Balances) /\ booking[b].pc = "save"
      /\ at \in DOMAIN treasury /\ held \in Balances /\ treasury[at] \in Balances
      /\ type \in In \cup Out /\ a \in Nat \ {0}
      /\ (type = "WITHDRAWAL" => a <= held.total) /\ (type \in Out => a <= held.available)
  <2>1. TreasuryTypeOK /\ booking[b].pc = "save"
    BY DEF TreasuryIInv, SaveTreasury
  <2>2. booking[b] \in Booking /\ a \in Nat
    BY <1>0, <2>1, AmountType DEF TreasuryTypeOK
  <2>3. type \in In \cup Out /\ a # 0
    BY <1>0, <2>1 DEF TreasuryIInv, RowsInPlace, In, Out
  <2>4. /\ at \in DOMAIN treasury
        /\ (type = "WITHDRAWAL" => a <= held.total) /\ (type \in Out => a <= held.available)
    BY <1>0, <2>1 DEF TreasuryIInv, ReadsCover
  <2> QED BY <1>0, <2>1, <2>2, <2>3, <2>4 DEF TreasuryTypeOK, Booking
<1> DEFINE new == Stored(type, a, held, treasury[at])
<1>2. /\ treasury' = [treasury EXCEPT ![at] = new] /\ Goes(b, p)
      /\ UNCHANGED <<rows, paid, smooth>>
  BY <1>0, <1>1 DEF SaveTreasury, Stored
<1>3. \A t \in In : t \notin Out
  BY DEF In, Out
<1>4. OnlyOf(b) /\ Same(b) /\ booking'[b].pc = p /\ p \in {"done", "row"}
  BY <1>1, <1>2, GoesEffect DEF TreasuryPc
<1>5. (type \in In /\ p = "done") \/ (type \in Out /\ p = "row")
  BY <1>0, <1>1
<1> HIDE DEF p
<1>6. b \notin Shown /\ b \notin Taken(Out) /\ b \in Booked
  BY <1>1 DEF Shown, Taken, Booked
<1> DEFINE shown == TotalOf(booking, Shown)
           gone == TotalOf(booking, Taken(Out))
           drawn == TotalOf(booking, Taken({"WITHDRAWAL"}))
<1>7. /\ shown \in Nat /\ gone \in Nat /\ drawn \in Nat
      /\ shown' = ShownAfter(type, a, shown)
      /\ gone' = OutAfter(type, a, gone)
      /\ drawn' = DrawnAfter(type, a, drawn)
  <2>1. \A c \in Bookings : booking'[c].amount = booking[c].amount
    BY <1>4 DEF OnlyOf, Same
  <2>2. ASSUME NEW B \in SUBSET Bookings
        PROVE  /\ TotalOf(booking', B) = TotalOf(booking, B)
               /\ TotalOf(booking, B) \in Nat
               /\ b \notin B => TotalOf(booking, B \cup {b}) = TotalOf(booking, B) + a
    BY <1>0, <1>1, <2>1, TotalSame, TotalType, TotalAdds
  <2>3. /\ Shown' = IF type \in In THEN Shown \cup {b} ELSE Shown
        /\ Taken(Out)' = IF type \in In THEN Taken(Out) ELSE Taken(Out) \cup {b}
        /\ Taken({"WITHDRAWAL"})' =
             IF type = "WITHDRAWAL" THEN Taken({"WITHDRAWAL"}) \cup {b} ELSE Taken({"WITHDRAWAL"})
        /\ b \notin Taken({"WITHDRAWAL"})
    BY <1>0, <1>1, <1>3, <1>4, <1>5 DEF Shown, Taken, OnlyOf, Same, Out
  <2>4. /\ Shown \in SUBSET Bookings /\ Taken(Out) \in SUBSET Bookings
        /\ Taken({"WITHDRAWAL"}) \in SUBSET Bookings
        /\ Shown \cup {b} \in SUBSET Bookings /\ Taken(Out) \cup {b} \in SUBSET Bookings
        /\ Taken({"WITHDRAWAL"}) \cup {b} \in SUBSET Bookings
    BY DEF Shown, Taken
  <2>5. shown' = IF type \in In THEN shown + a ELSE shown
    BY <1>6, <2>2, <2>3, <2>4
  <2>6. gone' = IF type \in In THEN gone ELSE gone + a
    BY <1>6, <2>2, <2>3, <2>4
  <2>7. drawn' = IF type = "WITHDRAWAL" THEN drawn + a ELSE drawn
    BY <2>2, <2>3, <2>4
  <2> QED BY <2>2, <2>4, <2>5, <2>6, <2>7 DEF ShownAfter, OutAfter, DrawnAfter
<1> HIDE DEF shown, gone, drawn
<1>8. /\ new \in Balances
      /\ Below(held, shown) /\ Below(treasury[at], shown) => Below(new, shown')
      /\ held = treasury[at] /\ treasury[at].total + drawn = shown /\ treasury[at].available + gone = shown
         => new.total + drawn' = shown' /\ new.available + gone' = shown'
  <2>1. new \in Balances
    BY <1>1, StoredForms
  <2>2. Below(held, shown) /\ Below(treasury[at], shown) => Below(new, shown')
    BY <1>1, <1>7, StoredBelow
  <2>3. held = treasury[at] /\ treasury[at].total + drawn = shown /\ treasury[at].available + gone = shown
         => new.total + drawn' = shown' /\ new.available + gone' = shown'
    BY <1>1, <1>7, StoredExact
  <2> QED BY <2>1, <2>2, <2>3
<1> HIDE DEF new
<1>9. /\ treasury' \in Seq(Balances) /\ Len(treasury') = Len(treasury)
      /\ DOMAIN treasury' = DOMAIN treasury /\ treasury'[at] = new
      /\ \A k \in DOMAIN treasury : k # at => treasury'[k] = treasury[k]
      /\ treasury' # <<>> /\ treasury # <<>>
  BY <1>1, <1>2, <1>8
<1>10. TreasuryTypeOK'
  BY <1>2, <1>4, <1>9 DEF TreasuryIInv, TreasuryTypeOK, OnlyOf
<1>11. RowsInPlace'
  <2> SUFFICES ASSUME NEW c \in Bookings PROVE RowsInPlace!(c)'
    BY DEF RowsInPlace
  <2>1. CASE c # b
    BY <1>2, <1>4, <2>1 DEF TreasuryIInv, RowsInPlace, OnlyOf
  <2>2. CASE c = b
    <3>1. RowsInPlace!(b)
      BY DEF TreasuryIInv, RowsInPlace
    <3> QED BY <1>0, <1>1, <1>2, <1>3, <1>4, <1>5, <2>2, <3>1 DEF Same
  <2> QED BY <2>1, <2>2
<1>12. ReadsCover'
  BY <1>4, <1>9 DEF TreasuryIInv, ReadsCover, OnlyOf
<1>13. BalancesSaved'
  <2>1. ASSUME NEW w \in Balances, Below(w, shown) PROVE Below(w, shown')
    <3>1. w.total \in Nat /\ w.available \in Nat
      BY DEF Balances
    <3> QED BY <1>1, <1>7, <2>1, <3>1 DEF Below, ShownAfter
  <2>2. Below(new, shown')
    BY <1>0, <1>1, <1>8 DEF TreasuryIInv, BalancesSaved, SavedBefore, Below, shown
  <2>3. \A k \in DOMAIN treasury' : Below(treasury'[k], shown')
    <3> SUFFICES ASSUME NEW k \in DOMAIN treasury, k # at PROVE Below(treasury[k], shown')
      BY <1>9, <2>2
    <3>1. treasury[k] \in Balances /\ Below(treasury[k], shown)
      BY <1>1 DEF TreasuryIInv, BalancesSaved, SavedBefore, Below, shown
    <3> QED BY <2>1, <3>1
  <2>4. \A c \in Bookings : booking'[c].pc = "save" => Below(booking'[c].read, shown')
    <3> SUFFICES ASSUME NEW c \in Bookings, booking'[c].pc = "save"
                 PROVE  Below(booking'[c].read, shown')
      OBVIOUS
    <3>1. booking'[c] = booking[c] /\ booking[c] \in Booking
      BY <1>1, <1>4 DEF OnlyOf
    <3>2. booking[c].read \in Balances /\ Below(booking[c].read, shown)
      BY <3>1 DEF TreasuryIInv, BalancesSaved, SavedBefore, Below, shown, Booking
    <3> QED BY <2>1, <3>1, <3>2
  <2> QED BY <2>3, <2>4 DEF BalancesSaved, SavedBefore, Below, shown
<1>14. SmoothOK'
  <2> SUFFICES ASSUME smooth' PROVE SmoothOK'
    BY DEF SmoothOK
  <2>1. /\ \A c \in Booked : c = b
        /\ Len(treasury) <= 1 /\ Exact(treasury[at]) /\ held = treasury[at]
    BY <1>0, <1>1, <1>2, <1>6 DEF TreasuryIInv, SmoothOK
  <2>2. DOMAIN treasury' = {at}
    BY <1>1, <1>9, <2>1
  <2>3. new.total + drawn' = shown' /\ new.available + gone' = shown'
    BY <1>8, <2>1 DEF Exact, drawn, gone, shown
  <2>4. \A k \in DOMAIN treasury' : Exact(treasury[k])'
    BY <1>9, <2>2, <2>3 DEF Exact, drawn, gone, shown
  <2>5. \A c \in Booked' : c = b
    BY <1>4, <2>1 DEF Booked, OnlyOf
  <2>6. \A c \in Bookings : booking'[c].pc \notin {"create", "save"}
    BY <1>4, <2>5 DEF Booked
  <2>7. \A c \in rows' : booking'[c].pc # "failed"
    BY <1>2, <1>4 DEF TreasuryIInv, TreasuryTypeOK, SmoothOK, OnlyOf
  <2> QED BY <1>9, <2>1, <2>4, <2>5, <2>6, <2>7 DEF SmoothOK
<1> QED BY <1>10, <1>11, <1>12, <1>13, <1>14 DEF TreasuryIInv

LEMMA TreasuryNextInv == TreasuryIInv /\ [TreasuryNext]_treasuryVars => TreasuryIInv'
<1> SUFFICES ASSUME TreasuryIInv, [TreasuryNext]_treasuryVars PROVE TreasuryIInv'
  OBVIOUS
<1>1. CASE TreasuryNext
  BY <1>1, BookStep, PayStep, FindStep, CreateStep, SaveStep, RowStep, FailStep DEF TreasuryNext
<1>2. CASE UNCHANGED treasuryVars
  <2> USE <1>2 DEF treasuryVars, TreasuryIInv
  <2>1. TreasuryTypeOK' /\ RowsInPlace' /\ ReadsCover'
    BY DEF TreasuryTypeOK, RowsInPlace, ReadsCover
  <2>2. BalancesSaved'
    BY DEF BalancesSaved, SavedBefore, Shown
  <2>3. SmoothOK'
    BY DEF SmoothOK, Exact, Shown, Taken, Booked
  <2> QED BY <2>1, <2>2, <2>3
<1> QED BY <1>1, <1>2

\* The inductive invariant of the treasury: a balance is made of fees and donations
\* that were saved, and they have their rows.
THEOREM TreasuryInvariance == TreasurySpec => []TreasuryIInv
  BY TreasuryInitInv, TreasuryNextInv, PTL DEF TreasurySpec

\* However bookings overlap, fail or overwrite each other's balances, no document
\* shows more than the fees and donations that are booked.
THEOREM ShownIsBooked == TreasurySpec => []ShownWasBooked
<1>1. ASSUME TreasuryIInv PROVE ShownWasBooked
  <2> DEFINE booked == {b \in rows : booking[b].type \in In}
  <2>0. booking \in [Bookings -> Booking] /\ treasury \in Seq(Balances) /\ rows \subseteq Bookings
    BY <1>1 DEF TreasuryIInv, TreasuryTypeOK
  <2>1. Shown \in SUBSET booked /\ booked \in SUBSET Bookings /\ Shown \in SUBSET Bookings
    BY <1>1, <2>0 DEF TreasuryIInv, RowsInPlace, Shown
  <2> HIDE DEF booked
  <2>2. /\ TotalOf(booking, Shown) <= TotalOf(booking, booked)
        /\ TotalOf(booking, Shown) \in Nat /\ TotalOf(booking, booked) \in Nat
    BY <2>0, <2>1, TotalGrows, TotalType
  <2>3. TotalOf(booking, booked) = Sums(In)
    BY DEF booked, Sums
  <2>4. ASSUME NEW n \in DOMAIN treasury
        PROVE  treasury[n].total <= Sums(In) /\ treasury[n].available <= Sums(In)
    <3>1. treasury[n] \in Balances
      BY <2>0
    <3>2. treasury[n].total \in Nat /\ treasury[n].available \in Nat
      BY <3>1 DEF Balances
    <3>3. treasury[n].total <= TotalOf(booking, Shown) /\ treasury[n].available <= TotalOf(booking, Shown)
      BY <1>1 DEF TreasuryIInv, BalancesSaved, SavedBefore
    <3> QED BY <2>2, <2>3, <3>2, <3>3
  <2> QED BY <2>4 DEF ShownWasBooked
<1> QED BY <1>1, TreasuryInvariance, PTL

\* While no two bookings overlapped and none failed, there is one document, and its
\* balances are what the rows add up to, for any number of bookings and any amounts.
THEOREM BalancesAreRows == TreasurySpec => []BalancesMatchRows
<1>1. ASSUME TreasuryIInv PROVE BalancesMatchRows
  <2> SUFFICES ASSUME smooth, Booked = {}
               PROVE  /\ Len(treasury) <= 1
                      /\ \A n \in DOMAIN treasury :
                           /\ treasury[n].total + Sums({"WITHDRAWAL"}) = Sums(In)
                           /\ treasury[n].available + Sums(Out) = Sums(In)
                      /\ treasury = <<>> => rows = {}
    BY DEF BalancesMatchRows
  <2>1. \A b \in Bookings : booking[b].pc \in {"new", "done", "failed"}
    BY DEF Booked
  <2>2. {b \in rows : booking[b].type \in In} = Shown
    BY <1>1, <2>1 DEF TreasuryIInv, TreasuryTypeOK, RowsInPlace, SmoothOK, Shown
  <2>3. \A t \in In : t \notin Out
    BY DEF In, Out
  <2>4. ASSUME NEW types \in SUBSET Out
        PROVE  {b \in rows : booking[b].type \in types} = Taken(types)
    BY <1>1, <2>1, <2>3 DEF TreasuryIInv, TreasuryTypeOK, RowsInPlace, Taken
  <2>5. Sums(In) = TotalOf(booking, Shown)
    BY <2>2 DEF Sums
  <2>6. Sums(Out) = TotalOf(booking, Taken(Out)) /\ Sums({"WITHDRAWAL"}) = TotalOf(booking, Taken({"WITHDRAWAL"}))
    <3>1. Out \in SUBSET Out /\ {"WITHDRAWAL"} \in SUBSET Out
      BY DEF Out
    <3>2. /\ {b \in rows : booking[b].type \in Out} = Taken(Out)
          /\ {b \in rows : booking[b].type \in {"WITHDRAWAL"}} = Taken({"WITHDRAWAL"})
      BY <2>4, <3>1
    <3> QED BY <3>2 DEF Sums
  <2>7. treasury = <<>> => rows = {}
    BY <1>1, <2>1, <2>2 DEF TreasuryIInv, TreasuryTypeOK, RowsInPlace, SmoothOK, Taken
  <2> QED BY <1>1, <2>5, <2>6, <2>7 DEF TreasuryIInv, SmoothOK, Exact
<1> QED BY <1>1, TreasuryInvariance, PTL

=============================================================================
