--------------------------- MODULE SessionsProofs ---------------------------
(***************************************************************************)
(* Proofs about the sessions of an account and about what proves who its   *)
(* owner is, for any number of requests.                                   *)
(***************************************************************************)
EXTENDS Sessions, Credentials, FiniteSetTheorems, TLAPS

\* A smaller set of requests stays within the bound it was in.
LEMMA Fewer ==
    ASSUME NEW S, NEW T, S \subseteq T, T \subseteq Requests, Cardinality(T) <= Together
    PROVE  Cardinality(S) <= Together
<1>1. IsFiniteSet(T)
  BY SessionsAssumption, FS_Subset
<1>2. IsFiniteSet(S) /\ Cardinality(S) <= Cardinality(T)
  BY <1>1, FS_Subset
<1>3. Cardinality(S) \in Nat /\ Cardinality(T) \in Nat
  BY <1>1, <1>2, FS_CardinalityType
<1> QED BY <1>2, <1>3, SessionsAssumption

LEMMA InitInv == Init => IInv
<1> SUFFICES ASSUME Init PROVE IInv
  OBVIOUS
<1>1. TypeOK
  BY DEF Init, TypeOK, Row, Call, Chain, NoChain
<1>2. InProgress = {} /\ served \cup Signing = {} /\ \A t \in Requests : Heirs(t) = {}
  BY SessionsAssumption DEF Init, InProgress, Signing, Steps, Carrying, Heirs, Successors
<1>3. Cardinality({}) <= Together
  BY FS_EmptySet, SessionsAssumption
<1>4. BoundOK /\ HeirsOK /\ ServedOK
  BY <1>2, <1>3 DEF Init, BoundOK, HeirsOK, ServedOK
<1>5. ChainsOK /\ PasswordsOK /\ SessionsEnd /\ OldPasswordsEnd
  BY DEF Init, ChainsOK, PasswordsOK, SessionsEnd, OldPasswordsEnd, Carrying, NoChain
<1>6. ParentsOK /\ RotateOK /\ FreshOK /\ RotatedFirst
  BY DEF Init, ParentsOK, RotateOK, FreshOK, RotatedFirst
<1> QED BY <1>1, <1>4, <1>5, <1>6 DEF IInv

\* A request that begins is within the bound; nothing else joins.
LEMMA StartBound ==
    ASSUME IInv, NEW r \in Requests, NEW pc \in Steps, NEW parent, NEW chain,
           Start(r, pc, parent, chain)
    PROVE  InProgress' = InProgress \cup {r} /\ BoundOK'
<1>1. InProgress' = InProgress \cup {r} /\ r \notin InProgress
  BY DEF Start, IInv, TypeOK, InProgress, Steps, Carrying
<1>2. IsFiniteSet(InProgress)
  BY SessionsAssumption, FS_Subset DEF InProgress
<1>3. Cardinality(InProgress \cup {r}) = Cardinality(InProgress) + 1 /\ Cardinality(InProgress) \in Nat
  BY <1>1, <1>2, FS_AddElement, FS_CardinalityType
<1>4. Cardinality(InProgress) < Together
  BY DEF Start
<1> QED BY <1>1, <1>3, <1>4, SessionsAssumption DEF BoundOK

\* Requests that go on or leave are no more than before.
LEMMA GoBound ==
    ASSUME IInv, \A q \in Requests : calls[q]'.pc \in Steps => calls[q].pc \in Steps
    PROVE  BoundOK'
<1>1. InProgress' \subseteq InProgress /\ InProgress \subseteq Requests
  BY DEF InProgress
<1>2. Cardinality(InProgress') <= Together
  BY <1>1, Fewer DEF IInv, BoundOK
<1> QED BY <1>2 DEF BoundOK

\* A token that is still accepted has no successor, so only requests in
\* progress hold it; a revoked one gains no holder.
LEMMA HeirsStay ==
    ASSUME IInv, TypeOK', BoundOK', RotatedFirst', NEW t \in Requests,
           refreshTokens'[t].state = "revoked" => refreshTokens[t].state = "revoked" \/ Successors(t)' = {},
           refreshTokens[t].state = "revoked" => Heirs(t)' \subseteq Heirs(t)
    PROVE  Cardinality(Heirs(t)') <= Together
<1>1. CASE refreshTokens[t].state = "revoked"
  <2>1. Heirs(t)' \subseteq Heirs(t) /\ Heirs(t) \subseteq Requests
    BY <1>1 DEF Heirs, Successors
  <2>2. Cardinality(Heirs(t)) <= Together
    BY DEF IInv, HeirsOK
  <2> QED BY <2>1, <2>2, Fewer
<1>2. CASE refreshTokens[t].state # "revoked"
  <2>1. Successors(t)' = {}
    BY <1>2, SessionsAssumption DEF RotatedFirst, Successors
  <2>2. Heirs(t)' \subseteq InProgress' /\ InProgress' \subseteq Requests
    BY <2>1 DEF Heirs, InProgress, Steps
  <2> QED BY <2>2, Fewer DEF BoundOK
<1> QED BY <1>1, <1>2

\* Requests issued a token while the account is blocked, and those about to
\* be: they are no more unless the account has just been blocked.
LEMMA ServedStay ==
    ASSUME IInv, user'.isBlocked = user.isBlocked,
           user.isBlocked => (served \cup Signing)' \subseteq served \cup Signing,
           ~user.isBlocked => served' = served
    PROVE  ServedOK'
<1>1. CASE user.isBlocked
  <2>1. Cardinality(served \cup Signing) <= Together /\ served \cup Signing \subseteq Requests
    BY <1>1 DEF IInv, ServedOK, TypeOK, Signing
  <2>2. Cardinality((served \cup Signing)') <= Together
    BY <1>1, <2>1, Fewer
  <2> QED BY <1>1, <2>2 DEF ServedOK
<1>2. CASE ~user.isBlocked
  BY <1>2 DEF IInv, ServedOK
<1> QED BY <1>1, <1>2

\* A request that begins by reading a session or the user, and writes nothing.
LEMMA StartInv ==
    ASSUME IInv, NEW r \in Requests, NEW pc \in {"sign", "rotate", "revokeAll", "hash"},
           NEW parent \in Requests \cup {None}, NEW chain \in Chain,
           Start(r, pc, parent, chain),
           UNCHANGED <<refreshTokens, epoch, finished, served>>,
           user' \in [password : Nat, isBlocked : BOOLEAN],
           user'.isBlocked = user.isBlocked, user.password <= user'.password,
           pc \in Carrying => chain.upto = epoch /\ (chain.password < finished => chain.crossed),
           pc = "revokeAll" => chain = NoChain,
           pc = "rotate" <=> parent # None,
           parent # None => refreshTokens[parent].state = "live",
           pc = "sign" => ~user.isBlocked
    PROVE  IInv'
<1> DEFINE new == [pc |-> pc, parent |-> parent, chain |-> chain]
<1>1. calls' = [calls EXCEPT ![r] = new] /\ calls[r].pc = "idle" /\ new \in Call
  BY DEF Start, Call, Steps, Carrying
<1> HIDE DEF new
<1>2. TypeOK'
  BY <1>1 DEF IInv, TypeOK
<1>3. \A q \in Requests : calls'[q] = IF q = r THEN new ELSE calls[q]
  BY <1>1 DEF IInv, TypeOK
<1>4. new.pc = pc /\ new.parent = parent /\ new.chain = chain
  BY DEF new
<1>5. BoundOK'
  BY StartBound DEF Steps, Carrying
<1>6. ChainsOK' /\ SessionsEnd' /\ OldPasswordsEnd'
  BY <1>3, <1>4 DEF IInv, ChainsOK, SessionsEnd, OldPasswordsEnd
<1>7. PasswordsOK'
  <2>1. finished' <= user'.password
    BY DEF IInv, PasswordsOK, TypeOK
  <2>2. user'.password = 0 => user.password = 0
    BY DEF IInv, TypeOK
  <2>3. user'.password = 0 => ~user'.isBlocked
    BY <2>2 DEF IInv, PasswordsOK
  <2>4. \A q \in Requests : calls'[q].pc = "revokeAll" => calls'[q].chain.password <= user'.password
    <3> SUFFICES ASSUME NEW q \in Requests, calls'[q].pc = "revokeAll"
                 PROVE  calls'[q].chain.password <= user'.password
      OBVIOUS
    <3>1. CASE q = r
      BY <3>1, <1>3, <1>4 DEF NoChain
    <3>2. CASE q # r
      <4>1. calls[q].chain.password <= user.password /\ calls[q].chain.password \in Nat
        BY <3>2, <1>3 DEF IInv, PasswordsOK, TypeOK, Call, Chain
      <4>2. user.password \in Nat /\ user'.password \in Nat
        BY DEF IInv, TypeOK
      <4> QED BY <1>3, <3>2, <4>1, <4>2
    <3> QED BY <3>1, <3>2
  <2> QED BY <2>1, <2>3, <2>4 DEF PasswordsOK
<1>8. ParentsOK' /\ RotateOK' /\ RotatedFirst'
  BY <1>3, <1>4 DEF IInv, ParentsOK, RotateOK, RotatedFirst, Carrying
<1>9. FreshOK'
  BY <1>1, <1>3, <1>4 DEF IInv, FreshOK
<1>10. HeirsOK'
  <2> SUFFICES ASSUME NEW t \in Requests PROVE Cardinality(Heirs(t)') <= Together
    BY DEF HeirsOK
  <2>1. refreshTokens[t].state = "revoked" => Heirs(t)' \subseteq Heirs(t)
    BY <1>3, <1>4, SessionsAssumption DEF Heirs, Successors, Carrying
  <2> QED BY <1>2, <1>5, <1>8, <2>1, HeirsStay
<1>11. ServedOK'
  <2>1. user.isBlocked => (served \cup Signing)' \subseteq served \cup Signing
    BY <1>3, <1>4 DEF Signing
  <2> QED BY <2>1, ServedStay
<1> QED BY <1>2, <1>5, <1>6, <1>7, <1>8, <1>9, <1>10, <1>11 DEF IInv

LEMMA UserStays ==
    ASSUME IInv, user' = user
    PROVE  /\ user' \in [password : Nat, isBlocked : BOOLEAN]
           /\ user'.isBlocked = user.isBlocked /\ user.password <= user'.password
<1>1. user \in [password : Nat, isBlocked : BOOLEAN] /\ user.password \in Nat
  BY DEF IInv, TypeOK
<1>2. user.password <= user.password
  BY <1>1
<1> QED BY <1>1, <1>2

LEMMA LoginInv ==
    ASSUME IInv, NEW r \in Requests, NEW password, Login(r, password)
    PROVE  IInv'
<1> DEFINE chain == [password |-> password, upto |-> epoch, crossed |-> FALSE]
<1>1. chain \in Chain /\ chain.upto = epoch /\ ~(chain.password < finished)
  BY DEF Login, Chain, IInv, TypeOK, PasswordsOK
<1>2. Start(r, "sign", None, chain)
  BY DEF Login
<1> HIDE DEF chain
<1> QED BY <1>1, <1>2, StartInv, UserStays DEF Login

LEMMA OauthSignInInv ==
    ASSUME IInv, NEW r \in Requests, OauthSignIn(r)
    PROVE  IInv'
<1>1. Login(r, user.password)
  BY DEF OauthSignIn, Login
<1> QED BY <1>1, LoginInv

\* A new account is not blocked, and its first session is of its first password.
LEMMA SignUpInv ==
    ASSUME IInv, NEW r \in Requests, SignUp(r)
    PROVE  IInv'
<1> DEFINE chain == [password |-> 1, upto |-> epoch, crossed |-> FALSE]
<1>1. chain \in Chain /\ chain.upto = epoch /\ ~(chain.password < finished)
  BY DEF SignUp, Chain, IInv, TypeOK, PasswordsOK
<1>2. Start(r, "sign", None, chain)
  BY DEF SignUp
<1>3. /\ user' \in [password : Nat, isBlocked : BOOLEAN]
      /\ user'.isBlocked = user.isBlocked /\ user.password <= user'.password /\ ~user.isBlocked
  BY DEF SignUp, IInv, TypeOK, PasswordsOK
<1> HIDE DEF chain
<1> QED BY <1>1, <1>2, <1>3, StartInv DEF SignUp

LEMMA RefreshFindInv ==
    ASSUME IInv, NEW r \in Requests, NEW t \in Requests, RefreshFind(r, t)
    PROVE  IInv'
<1> DEFINE chain == refreshTokens[t].chain
<1>1. chain \in Chain
  BY DEF IInv, TypeOK, Row
<1>2. chain.upto = epoch /\ (chain.password < finished => chain.crossed)
  BY DEF RefreshFind, IInv, SessionsEnd, OldPasswordsEnd
<1>3. Start(r, "rotate", t, chain) /\ t # None
  BY SessionsAssumption DEF RefreshFind
<1> HIDE DEF chain
<1> QED BY <1>1, <1>2, <1>3, StartInv, UserStays DEF RefreshFind

LEMMA LogoutInv ==
    ASSUME IInv, NEW r \in Requests, Logout(r)
    PROVE  IInv'
<1>1. NoChain \in Chain
  BY DEF NoChain, Chain
<1> QED BY <1>1, StartInv, UserStays DEF Logout, Carrying

LEMMA ResetFindInv ==
    ASSUME IInv, NEW r \in Requests, ResetFind(r)
    PROVE  IInv'
<1>1. NoChain \in Chain
  BY DEF NoChain, Chain
<1> QED BY <1>1, StartInv, UserStays DEF ResetFind, Carrying

\* A request that leaves without writing.
LEMMA LeaveInv ==
    ASSUME IInv, NEW r \in Requests, NEW pc \in {"done", "over"}, calls[r].pc \in Steps,
           Leave(r, pc), UNCHANGED <<user, refreshTokens, epoch, finished, served>>
    PROVE  IInv'
<1> DEFINE new == [pc |-> pc, parent |-> None, chain |-> NoChain]
<1>1. calls' = [calls EXCEPT ![r] = new] /\ new \in Call
  BY DEF Leave, Call, NoChain, Chain
<1> HIDE DEF new
<1>2. TypeOK'
  BY <1>1 DEF IInv, TypeOK
<1>3. \A q \in Requests : calls'[q] = IF q = r THEN new ELSE calls[q]
  BY <1>1 DEF IInv, TypeOK
<1>4. new.pc \in {"done", "over"} /\ new.parent = None
  BY DEF new
<1>5. BoundOK'
  <2>1. \A q \in Requests : calls[q]'.pc \in Steps => calls[q].pc \in Steps
    BY <1>3, <1>4
  <2> QED BY <2>1, GoBound
<1>6. ChainsOK' /\ SessionsEnd' /\ OldPasswordsEnd' /\ PasswordsOK'
  BY <1>3, <1>4 DEF IInv, ChainsOK, SessionsEnd, OldPasswordsEnd, PasswordsOK, Carrying
<1>7. ParentsOK' /\ RotateOK' /\ RotatedFirst' /\ FreshOK'
  BY <1>3, <1>4 DEF IInv, ParentsOK, RotateOK, RotatedFirst, FreshOK
<1>8. HeirsOK'
  <2> SUFFICES ASSUME NEW t \in Requests PROVE Cardinality(Heirs(t)') <= Together
    BY DEF HeirsOK
  <2>1. refreshTokens[t].state = "revoked" => Heirs(t)' \subseteq Heirs(t)
    BY <1>3, <1>4, SessionsAssumption DEF Heirs, Successors
  <2> QED BY <1>2, <1>5, <1>7, <2>1, HeirsStay
<1>9. ServedOK'
  <2>1. user.isBlocked => (served \cup Signing)' \subseteq served \cup Signing
    BY <1>3, <1>4 DEF Signing
  <2> QED BY <2>1, ServedStay
<1> QED BY <1>2, <1>5, <1>6, <1>7, <1>8, <1>9 DEF IInv

\* What a request and a row name as their parent is a request.
LEMMA Parents ==
    ASSUME TypeOK, NEW q \in Requests
    PROVE  /\ calls[q] \in Call /\ calls[q].parent \in Requests \cup {None}
           /\ refreshTokens[q] \in Row /\ refreshTokens[q].parent \in Requests \cup {None}
<1>1. calls[q] \in Call /\ refreshTokens[q] \in Row
  BY DEF TypeOK
<1> QED BY <1>1 DEF Call, Row

LEMMA RefreshRotateInv ==
    ASSUME IInv, NEW r \in Requests, RefreshRotate(r)
    PROVE  IInv'
<1> DEFINE p == calls[r].parent
           row == Revoked(refreshTokens[p])
           new == [calls[r] EXCEPT !.pc = "findUser"]
<1>1. p \in Requests /\ refreshTokens[p].state # "none" /\ calls[r] \in Call
  BY DEF RefreshRotate, IInv, TypeOK, Call, ParentsOK, RotateOK
<1>2. row \in Row /\ row.state = "revoked" /\ row.parent = refreshTokens[p].parent
  BY <1>1 DEF Revoked, Row, NoChain, Chain, IInv, TypeOK
<1>3. new \in Call /\ new.pc = "findUser" /\ new.parent = p /\ new.chain = calls[r].chain
  BY <1>1 DEF Call, Steps, Carrying
<1>4. refreshTokens' = [refreshTokens EXCEPT ![p] = row] /\ calls' = [calls EXCEPT ![r] = new]
      /\ calls[r].pc = "rotate" /\ UNCHANGED <<user, epoch, finished, served>>
  BY DEF RefreshRotate, GoTo
<1> HIDE DEF p, row, new
<1>5. TypeOK'
  BY <1>1, <1>2, <1>3, <1>4 DEF IInv, TypeOK
<1>6. /\ \A q \in Requests : calls'[q] = IF q = r THEN new ELSE calls[q]
      /\ \A t \in Requests : refreshTokens'[t] = IF t = p THEN row ELSE refreshTokens[t]
  BY <1>1, <1>4 DEF IInv, TypeOK
<1>7. p = calls[r].parent
  BY DEF p
<1>8. BoundOK'
  <2>1. \A q \in Requests : calls[q]'.pc \in Steps => calls[q].pc \in Steps
    BY <1>4, <1>6 DEF Steps, Carrying
  <2> QED BY <2>1, GoBound
<1>9. ChainsOK'
  BY <1>3, <1>4, <1>6 DEF IInv, ChainsOK, Carrying
<1>10. SessionsEnd' /\ OldPasswordsEnd' /\ PasswordsOK'
  BY <1>2, <1>3, <1>4, <1>6 DEF IInv, SessionsEnd, OldPasswordsEnd, PasswordsOK
<1>11. ParentsOK'
  <2> SUFFICES ASSUME NEW q \in Requests, calls'[q].parent # None
               PROVE  /\ calls'[q].pc \in Carrying
                      /\ refreshTokens'[calls'[q].parent].state # "none"
                      /\ calls'[q].pc # "rotate" => refreshTokens'[calls'[q].parent].state = "revoked"
    BY DEF ParentsOK
  <2>1. calls'[q].parent = calls[q].parent /\ calls[q].parent \in Requests
    BY <1>3, <1>6, <1>7, Parents DEF IInv
  <2>2. calls[q].pc \in Carrying /\ refreshTokens[calls[q].parent].state # "none"
        /\ (calls[q].pc # "rotate" => refreshTokens[calls[q].parent].state = "revoked")
    BY <2>1 DEF IInv, ParentsOK
  <2> QED BY <1>2, <1>3, <1>4, <1>6, <1>7, <2>1, <2>2 DEF Carrying
<1>12. RotateOK' /\ RotatedFirst'
  <2>1. RotateOK'
    BY <1>3, <1>6 DEF IInv, RotateOK
  <2>2. RotatedFirst'
    BY <1>2, <1>6, Parents DEF IInv, RotatedFirst
  <2> QED BY <2>1, <2>2
<1>13. FreshOK'
  BY <1>1, <1>2, <1>3, <1>4, <1>6 DEF IInv, FreshOK
<1>14. \A t \in Requests : Heirs(t)' = Heirs(t)
  BY <1>2, <1>3, <1>4, <1>6, <1>7 DEF Heirs, Successors, Carrying
<1>15. HeirsOK'
  <2> SUFFICES ASSUME NEW t \in Requests PROVE Cardinality(Heirs(t)') <= Together
    BY DEF HeirsOK
  <2> QED BY <1>14 DEF IInv, HeirsOK
<1>16. ServedOK'
  <2>1. user.isBlocked => (served \cup Signing)' \subseteq served \cup Signing
    BY <1>3, <1>4, <1>6 DEF Signing
  <2> QED BY <1>4, <2>1, ServedStay
<1> QED BY <1>5, <1>8, <1>9, <1>10, <1>11, <1>12, <1>13, <1>15, <1>16 DEF IInv

LEMMA RefreshUserInv ==
    ASSUME IInv, NEW r \in Requests, RefreshUser(r)
    PROVE  IInv'
<1>1. CASE user.isBlocked
  BY <1>1, LeaveInv DEF RefreshUser, Steps, Carrying
<1>2. CASE ~user.isBlocked
  <2> DEFINE new == [calls[r] EXCEPT !.pc = "sign"]
  <2>1. calls' = [calls EXCEPT ![r] = new] /\ calls[r].pc = "findUser"
        /\ UNCHANGED <<user, refreshTokens, epoch, finished, served>>
    BY <1>2 DEF RefreshUser, GoTo
  <2>2. new \in Call /\ new.pc = "sign" /\ new.parent = calls[r].parent /\ new.chain = calls[r].chain
    BY Parents DEF IInv, Call, Steps, Carrying
  <2> HIDE DEF new
  <2>3. TypeOK'
    BY <2>1, <2>2 DEF IInv, TypeOK
  <2>4. \A q \in Requests : calls'[q] = IF q = r THEN new ELSE calls[q]
    BY <2>1 DEF IInv, TypeOK
  <2>5. BoundOK'
    <3>1. \A q \in Requests : calls[q]'.pc \in Steps => calls[q].pc \in Steps
      BY <2>1, <2>4 DEF Steps, Carrying
    <3> QED BY <3>1, GoBound
  <2>6. ChainsOK' /\ SessionsEnd' /\ OldPasswordsEnd'
    BY <2>1, <2>2, <2>4 DEF IInv, ChainsOK, SessionsEnd, OldPasswordsEnd, Carrying
  <2>7. PasswordsOK' /\ RotateOK' /\ FreshOK'
    BY <2>1, <2>2, <2>4 DEF IInv, PasswordsOK, RotateOK, FreshOK
  <2>8. ParentsOK' /\ RotatedFirst'
    BY <2>1, <2>2, <2>4 DEF IInv, ParentsOK, RotatedFirst, Carrying
  <2>9. \A t \in Requests : Heirs(t)' = Heirs(t)
    BY <2>1, <2>2, <2>4 DEF Heirs, Successors, Carrying
  <2>10. HeirsOK'
    <3> SUFFICES ASSUME NEW t \in Requests PROVE Cardinality(Heirs(t)') <= Together
      BY DEF HeirsOK
    <3> QED BY <2>9 DEF IInv, HeirsOK
  <2>11. ServedOK'
    BY <1>2, <2>1, ServedStay
  <2> QED BY <2>3, <2>5, <2>6, <2>7, <2>8, <2>10, <2>11 DEF IInv
<1> QED BY <1>1, <1>2

\* The new row takes the place of its request among the heirs of the token
\* presented and among those served.
LEMMA GenerateTokensInv ==
    ASSUME IInv, NEW r \in Requests, GenerateTokens(r)
    PROVE  IInv'
<1> DEFINE new == [pc |-> "answer", parent |-> None, chain |-> NoChain]
           row == [state |-> "live", parent |-> calls[r].parent, chain |-> calls[r].chain]
<1>1. /\ calls' = [calls EXCEPT ![r] = new] /\ refreshTokens' = [refreshTokens EXCEPT ![r] = row]
      /\ served' = (IF user.isBlocked THEN served \cup {r} ELSE served)
      /\ calls[r].pc = "sign" /\ UNCHANGED <<user, epoch, finished>>
  BY DEF GenerateTokens, Leave
<1>2. new \in Call /\ new.pc = "answer" /\ new.parent = None
  BY DEF Call, Steps, NoChain, Chain
<1>3. row \in Row /\ row.state = "live" /\ row.parent = calls[r].parent /\ row.chain = calls[r].chain
  BY Parents DEF IInv, Call, Row
<1> HIDE DEF new, row
<1>4. TypeOK'
  BY <1>1, <1>2, <1>3 DEF IInv, TypeOK
<1>5. /\ \A q \in Requests : calls'[q] = IF q = r THEN new ELSE calls[q]
      /\ \A t \in Requests : refreshTokens'[t] = IF t = r THEN row ELSE refreshTokens[t]
  BY <1>1 DEF IInv, TypeOK
<1>6. refreshTokens[r].state = "none" /\ refreshTokens[r].parent = None
  BY <1>1 DEF IInv, FreshOK
<1>7. calls[r].parent # None => calls[r].parent \in Requests /\ refreshTokens[calls[r].parent].state = "revoked"
  BY <1>1, Parents DEF IInv, ParentsOK
<1>8. BoundOK'
  <2>1. \A q \in Requests : calls[q]'.pc \in Steps => calls[q].pc \in Steps
    BY <1>1, <1>5 DEF Steps, Carrying
  <2> QED BY <2>1, GoBound
<1>9. ChainsOK' /\ PasswordsOK' /\ RotateOK'
  BY <1>1, <1>2, <1>5 DEF IInv, ChainsOK, PasswordsOK, RotateOK, Carrying
<1>10. SessionsEnd'
  BY <1>1, <1>3, <1>5 DEF IInv, SessionsEnd, ChainsOK, Carrying
<1>11. OldPasswordsEnd'
  BY <1>1, <1>3, <1>5 DEF IInv, OldPasswordsEnd, ChainsOK, Carrying
<1>12. ParentsOK'
  <2> SUFFICES ASSUME NEW q \in Requests, calls'[q].parent # None
               PROVE  /\ calls'[q].pc \in Carrying
                      /\ refreshTokens'[calls'[q].parent].state # "none"
                      /\ calls'[q].pc # "rotate" => refreshTokens'[calls'[q].parent].state = "revoked"
    BY DEF ParentsOK
  <2>1. calls'[q] = calls[q] /\ calls[q].parent \in Requests
    BY <1>2, <1>5, Parents DEF IInv
  <2>2. calls[q].pc \in Carrying /\ refreshTokens[calls[q].parent].state # "none"
        /\ (calls[q].pc # "rotate" => refreshTokens[calls[q].parent].state = "revoked")
    BY <2>1 DEF IInv, ParentsOK
  <2> QED BY <1>5, <1>6, <2>1, <2>2
<1>13. RotatedFirst'
  <2> SUFFICES ASSUME NEW s \in Requests, refreshTokens'[s].parent # None
               PROVE  refreshTokens'[refreshTokens'[s].parent].state = "revoked"
    BY DEF RotatedFirst
  <2>1. CASE s = r
    BY <1>3, <1>5, <1>6, <1>7, <2>1
  <2>2. CASE s # r
    <3>1. refreshTokens'[s] = refreshTokens[s] /\ refreshTokens[s].parent \in Requests
      BY <1>5, <2>2, Parents DEF IInv
    <3>2. refreshTokens[refreshTokens[s].parent].state = "revoked"
      BY <3>1 DEF IInv, RotatedFirst
    <3> QED BY <1>5, <1>6, <3>1, <3>2
  <2> QED BY <2>1, <2>2
<1>14. FreshOK'
  BY <1>1, <1>2, <1>5 DEF IInv, FreshOK
<1>15. \A t \in Requests : Heirs(t)' = Heirs(t)
  <2> SUFFICES ASSUME NEW t \in Requests, NEW s \in Requests
               PROVE  s \in Heirs(t)' <=> s \in Heirs(t)
    BY DEF Heirs, Successors
  <2>1. CASE s = r
    BY <1>1, <1>2, <1>3, <1>5, <1>6, <2>1, SessionsAssumption DEF Heirs, Successors, Carrying
  <2>2. CASE s # r
    BY <1>5, <2>2 DEF Heirs, Successors
  <2> QED BY <2>1, <2>2
<1>16. HeirsOK'
  <2> SUFFICES ASSUME NEW t \in Requests PROVE Cardinality(Heirs(t)') <= Together
    BY DEF HeirsOK
  <2> QED BY <1>15 DEF IInv, HeirsOK
<1>17. ServedOK'
  <2>1. user.isBlocked => (served \cup Signing)' \subseteq served \cup Signing
    BY <1>1, <1>2, <1>5 DEF Signing
  <2> QED BY <1>1, <2>1, ServedStay
<1> QED BY <1>4, <1>8, <1>9, <1>10, <1>11, <1>12, <1>13, <1>14, <1>16, <1>17 DEF IInv

LEMMA ResetSetHashInv ==
    ASSUME IInv, NEW r \in Requests, ResetSetHash(r)
    PROVE  IInv'
<1> DEFINE chain == [NoChain EXCEPT !.password = user.password + 1]
           new == [pc |-> "revokeAll", parent |-> None, chain |-> chain]
<1>1. /\ calls' = [calls EXCEPT ![r] = new] /\ calls[r].pc = "hash"
      /\ user' = [user EXCEPT !.password = @ + 1]
      /\ UNCHANGED <<refreshTokens, epoch, finished, served>>
  BY DEF ResetSetHash
<1>2. /\ user \in [password : Nat, isBlocked : BOOLEAN] /\ user' \in [password : Nat, isBlocked : BOOLEAN]
      /\ user'.password = user.password + 1 /\ user'.isBlocked = user.isBlocked
  BY <1>1 DEF IInv, TypeOK
<1>3. new \in Call /\ new.pc = "revokeAll" /\ new.parent = None /\ new.chain.password = user'.password
  <2>1. chain \in Chain /\ chain.password = user'.password
    BY <1>2 DEF NoChain, Chain
  <2> QED BY <2>1 DEF Call, Steps
<1> HIDE DEF chain, new
<1>4. TypeOK'
  BY <1>1, <1>2, <1>3 DEF IInv, TypeOK
<1>5. \A q \in Requests : calls'[q] = IF q = r THEN new ELSE calls[q]
  BY <1>1 DEF IInv, TypeOK
<1>6. BoundOK'
  <2>1. \A q \in Requests : calls[q]'.pc \in Steps => calls[q].pc \in Steps
    BY <1>1, <1>5 DEF Steps, Carrying
  <2> QED BY <2>1, GoBound
<1>7. ChainsOK' /\ SessionsEnd' /\ OldPasswordsEnd'
  BY <1>1, <1>3, <1>5 DEF IInv, ChainsOK, SessionsEnd, OldPasswordsEnd, Carrying
<1>8. PasswordsOK'
  <2>1. \A q \in Requests : calls[q].pc = "revokeAll" => calls[q].chain.password \in Nat
    BY Parents DEF IInv, Call, Chain
  <2>2. finished' <= user'.password
    BY <1>1, <1>2 DEF IInv, PasswordsOK, TypeOK
  <2>3. \A q \in Requests : calls'[q].pc = "revokeAll" => calls'[q].chain.password <= user'.password
    BY <1>2, <1>3, <1>5, <2>1 DEF IInv, PasswordsOK
  <2>4. user'.password # 0
    BY <1>2 DEF IInv, TypeOK
  <2> QED BY <2>2, <2>3, <2>4 DEF PasswordsOK
<1>9. ParentsOK' /\ RotateOK' /\ RotatedFirst' /\ FreshOK'
  BY <1>1, <1>3, <1>5 DEF IInv, ParentsOK, RotateOK, RotatedFirst, FreshOK, Carrying
<1>10. HeirsOK'
  <2> SUFFICES ASSUME NEW t \in Requests PROVE Cardinality(Heirs(t)') <= Together
    BY DEF HeirsOK
  <2>1. Heirs(t)' = Heirs(t)
    BY <1>1, <1>3, <1>5 DEF Heirs, Successors, Carrying
  <2> QED BY <2>1 DEF IInv, HeirsOK
<1>11. ServedOK'
  <2>1. user.isBlocked => (served \cup Signing)' \subseteq served \cup Signing
    BY <1>1, <1>3, <1>5 DEF Signing
  <2> QED BY <1>1, <1>2, <2>1, ServedStay
<1> QED BY <1>4, <1>6, <1>7, <1>8, <1>9, <1>10, <1>11 DEF IInv

\* Every token that exists is revoked, and every request in progress crosses.
LEMMA RevokeAllInv ==
    ASSUME IInv, NEW r \in Requests, RevokeAll(r)
    PROVE  IInv'
<1> DEFINE new == [pc |-> "over", parent |-> None, chain |-> NoChain]
<1>1. /\ calls[r].pc = "revokeAll" /\ epoch' = epoch + 1 /\ UNCHANGED <<user, served>>
      /\ finished' \in {finished, calls[r].chain.password}
  BY DEF RevokeAll
<1>2. new \in Call /\ new.pc = "over" /\ new.parent = None
  BY DEF Call, NoChain, Chain
<1>3. /\ calls' = [q \in Requests |-> IF q = r THEN new
                                      ELSE IF calls[q].pc \in Carrying THEN Cross(calls[q]) ELSE calls[q]]
      /\ refreshTokens' = [t \in Requests |-> IF refreshTokens[t].state = "live"
                                              THEN Revoked(refreshTokens[t]) ELSE refreshTokens[t]]
  BY DEF RevokeAll
<1> HIDE DEF new
<1>4. \A q \in Requests : /\ Cross(calls[q]) \in Call
                          /\ Cross(calls[q]).pc = calls[q].pc
                          /\ Cross(calls[q]).parent = calls[q].parent
                          /\ Cross(calls[q]).chain.upto = calls[q].chain.upto + 1
                          /\ Cross(calls[q]).chain.crossed
                          /\ calls[q].chain \in Chain
  <2> SUFFICES ASSUME NEW q \in Requests
               PROVE  /\ Cross(calls[q]) \in Call
                      /\ Cross(calls[q]).pc = calls[q].pc
                      /\ Cross(calls[q]).parent = calls[q].parent
                      /\ Cross(calls[q]).chain.upto = calls[q].chain.upto + 1
                      /\ Cross(calls[q]).chain.crossed
                      /\ calls[q].chain \in Chain
    OBVIOUS
  <2>1. calls[q] \in Call
    BY Parents DEF IInv
  <2> QED BY <2>1 DEF Cross, Call, Chain
<1>5. \A t \in Requests : /\ Revoked(refreshTokens[t]) \in Row
                          /\ Revoked(refreshTokens[t]).state = "revoked"
                          /\ Revoked(refreshTokens[t]).parent = refreshTokens[t].parent
  BY Parents DEF IInv, Revoked, Row, NoChain, Chain
<1>6. TypeOK'
  <2>1. calls' \in [Requests -> Call]
    BY <1>2, <1>3, <1>4 DEF IInv, TypeOK
  <2>2. refreshTokens' \in [Requests -> Row]
    BY <1>3, <1>5 DEF IInv, TypeOK
  <2>3. epoch' \in Nat /\ finished' \in Nat
    BY <1>1, <1>4 DEF IInv, TypeOK, Chain
  <2> QED BY <1>1, <2>1, <2>2, <2>3 DEF IInv, TypeOK
<1>7. \A q \in Requests : /\ calls'[q].pc \in Carrying => calls[q].pc \in Carrying
                                                          /\ calls'[q].pc = calls[q].pc
                          /\ calls'[q].pc \in {"over", calls[q].pc}
                          /\ calls'[q].parent \in {None, calls[q].parent}
                          /\ refreshTokens'[q].parent = refreshTokens[q].parent
                          /\ refreshTokens'[q].state = IF refreshTokens[q].state = "none" THEN "none" ELSE "revoked"
  <2> SUFFICES ASSUME NEW q \in Requests
               PROVE  /\ calls'[q].pc \in Carrying => calls[q].pc \in Carrying
                                                      /\ calls'[q].pc = calls[q].pc
                      /\ calls'[q].pc \in {"over", calls[q].pc}
                      /\ calls'[q].parent \in {None, calls[q].parent}
                      /\ refreshTokens'[q].parent = refreshTokens[q].parent
                      /\ refreshTokens'[q].state = IF refreshTokens[q].state = "none" THEN "none" ELSE "revoked"
    OBVIOUS
  <2>1. calls'[q].pc \in {"over", calls[q].pc} /\ calls'[q].parent \in {None, calls[q].parent}
    BY <1>2, <1>3, <1>4
  <2>2. refreshTokens[q].state \in {"none", "live", "revoked"}
    BY Parents DEF IInv, Row
  <2> QED BY <1>3, <1>5, <2>1, <2>2 DEF Carrying
<1>8. BoundOK'
  <2>1. \A q \in Requests : calls[q]'.pc \in Steps => calls[q].pc \in Steps
    BY <1>7 DEF Steps, Carrying
  <2> QED BY <2>1, GoBound
<1>9. ChainsOK'
  <2> SUFFICES ASSUME NEW q \in Requests, calls'[q].pc \in Carrying
               PROVE  calls'[q].chain.upto = epoch' /\ calls'[q].chain.crossed
    BY DEF ChainsOK
  <2>1. q # r /\ calls[q].pc \in Carrying
    BY <1>1, <1>7 DEF Carrying
  <2>2. calls'[q] = Cross(calls[q]) /\ calls[q].chain.upto = epoch
    BY <1>3, <2>1 DEF IInv, ChainsOK
  <2> QED BY <1>1, <1>4, <2>2
<1>10. PasswordsOK'
  <2>1. finished' <= user'.password
    BY <1>1 DEF IInv, PasswordsOK
  <2>2. \A q \in Requests : calls'[q].pc = "revokeAll" => calls'[q].chain.password <= user'.password
    BY <1>1, <1>2, <1>3, <1>4 DEF IInv, PasswordsOK, Carrying
  <2>3. user'.password = 0 => ~user'.isBlocked
    BY <1>1 DEF IInv, PasswordsOK
  <2> QED BY <2>1, <2>2, <2>3 DEF PasswordsOK
<1>11. SessionsEnd' /\ OldPasswordsEnd'
  BY <1>7 DEF SessionsEnd, OldPasswordsEnd
<1>12. ParentsOK'
  <2> SUFFICES ASSUME NEW q \in Requests, calls'[q].parent # None
               PROVE  /\ calls'[q].pc \in Carrying
                      /\ refreshTokens'[calls'[q].parent].state # "none"
                      /\ calls'[q].pc # "rotate" => refreshTokens'[calls'[q].parent].state = "revoked"
    BY DEF ParentsOK
  <2>1. q # r /\ calls'[q].parent = calls[q].parent /\ calls[q].parent \in Requests
    BY <1>2, <1>3, <1>7, Parents DEF IInv
  <2>2. calls[q].pc \in Carrying /\ refreshTokens[calls[q].parent].state # "none"
    BY <2>1 DEF IInv, ParentsOK
  <2>3. calls'[q].pc = calls[q].pc
    BY <1>3, <1>4, <2>1
  <2> QED BY <1>7, <2>1, <2>2, <2>3
<1>13. RotateOK'
  <2> SUFFICES ASSUME NEW q \in Requests, calls'[q].pc = "rotate" PROVE calls'[q].parent # None
    BY DEF RotateOK
  <2>1. q # r /\ calls[q].pc = "rotate"
    BY <1>2, <1>3, <1>7
  <2>2. calls'[q] = Cross(calls[q]) /\ calls[q].parent # None
    BY <1>3, <2>1 DEF Carrying, IInv, RotateOK
  <2> QED BY <1>4, <2>2
<1>14. RotatedFirst'
  BY <1>7, Parents DEF IInv, RotatedFirst
<1>15. FreshOK'
  BY <1>7 DEF IInv, FreshOK
<1>16. HeirsOK'
  <2> SUFFICES ASSUME NEW t \in Requests PROVE Cardinality(Heirs(t)') <= Together
    BY DEF HeirsOK
  <2>1. Heirs(t)' \subseteq Heirs(t) /\ Heirs(t) \subseteq Requests
    BY <1>7, SessionsAssumption DEF Heirs, Successors
  <2> QED BY <2>1, Fewer DEF IInv, HeirsOK
<1>17. ServedOK'
  <2>1. user.isBlocked => (served \cup Signing)' \subseteq served \cup Signing
    BY <1>1, <1>7 DEF Signing
  <2> QED BY <1>1, <2>1, ServedStay
<1> QED BY <1>6, <1>8, <1>9, <1>10, <1>11, <1>12, <1>13, <1>14, <1>15, <1>16, <1>17 DEF IInv

\* Blocking counts anew: those about to be issued a token are in progress.
LEMMA BlockUserInv == IInv /\ BlockUser => IInv'
<1> SUFFICES ASSUME IInv, BlockUser PROVE IInv'
  OBVIOUS
<1>1. UNCHANGED <<refreshTokens, calls, epoch, finished>> /\ served' = {}
  BY DEF BlockUser
<1>2. user' \in [password : Nat, isBlocked : BOOLEAN] /\ user'.password = user.password
  BY DEF BlockUser, IInv, TypeOK
<1>3. TypeOK' /\ PasswordsOK'
  <2>1. user'.password # 0
    BY <1>2 DEF BlockUser
  <2> QED BY <1>1, <1>2, <2>1 DEF IInv, TypeOK, PasswordsOK
<1>4. ChainsOK' /\ SessionsEnd' /\ OldPasswordsEnd'
  BY <1>1 DEF IInv, ChainsOK, SessionsEnd, OldPasswordsEnd
<1>5. ParentsOK' /\ RotateOK' /\ FreshOK' /\ RotatedFirst'
  BY <1>1 DEF IInv, ParentsOK, RotateOK, FreshOK, RotatedFirst
<1>6. BoundOK' /\ HeirsOK'
  BY <1>1 DEF IInv, BoundOK, InProgress, HeirsOK, Heirs, Successors
<1>7. ServedOK'
  <2>1. (served \cup Signing)' \subseteq InProgress /\ InProgress \subseteq Requests
    BY <1>1 DEF Signing, InProgress, Steps, Carrying
  <2>2. Cardinality((served \cup Signing)') <= Together
    BY <2>1, Fewer DEF IInv, BoundOK
  <2> QED BY <1>1, <2>2 DEF ServedOK
<1> QED BY <1>3, <1>4, <1>5, <1>6, <1>7 DEF IInv

LEMMA StutterInv == IInv /\ UNCHANGED vars => IInv'
  BY DEF vars, IInv, TypeOK, BoundOK, ChainsOK, PasswordsOK, SessionsEnd, OldPasswordsEnd,
         ParentsOK, RotateOK, FreshOK, RotatedFirst, HeirsOK, ServedOK,
         InProgress, Heirs, Successors, Signing

LEMMA NextInv == IInv /\ [Next]_vars => IInv'
<1> SUFFICES ASSUME IInv, [Next]_vars PROVE IInv'
  OBVIOUS
<1>1. CASE UNCHANGED vars
  BY <1>1, StutterInv
<1>2. CASE BlockUser
  BY <1>2, BlockUserInv
<1>3. ASSUME NEW r \in Requests, Request(r) PROVE IInv'
  <2>1. CASE \E password \in 1..user.password : Login(r, password)
    BY <2>1, LoginInv
  <2>2. CASE \E t \in Requests : RefreshFind(r, t)
    BY <2>2, RefreshFindInv
  <2>3. CASE RefreshRotate(r)
    BY <2>3, RefreshRotateInv
  <2>4. CASE RefreshUser(r)
    BY <2>4, RefreshUserInv
  <2>5. CASE GenerateTokens(r)
    BY <2>5, GenerateTokensInv
  <2>6. CASE Answer(r)
    BY <2>6, LeaveInv DEF Answer, Steps
  <2>7. CASE Logout(r)
    BY <2>7, LogoutInv
  <2>8. CASE ResetFind(r)
    BY <2>8, ResetFindInv
  <2>9. CASE ResetSetHash(r)
    BY <2>9, ResetSetHashInv
  <2>10. CASE RevokeAll(r)
    BY <2>10, RevokeAllInv
  <2>11. CASE Throw(r)
    BY <2>11, LeaveInv DEF Throw
  <2>12. CASE OauthSignIn(r)
    BY <2>12, OauthSignInInv
  <2>13. CASE SignUp(r)
    BY <2>13, SignUpInv
  <2> QED BY <1>3, <2>1, <2>2, <2>3, <2>4, <2>5, <2>6, <2>7, <2>8, <2>9, <2>10, <2>11, <2>12, <2>13
          DEF Request
<1> QED BY <1>1, <1>2, <1>3 DEF Next

(***************************************************************************)
(* The inductive invariant holds of every behaviour.                       *)
(***************************************************************************)
THEOREM SessionInvariance == Spec => []IInv
  BY InitInv, NextInv, PTL DEF Spec

(***************************************************************************)
(* Type correctness: a row of refresh_tokens and what a request has read   *)
(* keep their shape.                                                       *)
(***************************************************************************)
THEOREM TypeCorrectness == Spec => []TypeOK
<1>1. IInv => TypeOK
  BY DEF IInv
<1> QED BY <1>1, SessionInvariance, PTL

(***************************************************************************)
(* A token is revoked before it has a successor.                           *)
(***************************************************************************)
THEOREM TokensRotateFirst == Spec => []RotatedFirst
<1>1. IInv => RotatedFirst
  BY DEF IInv
<1> QED BY <1>1, SessionInvariance, PTL

(***************************************************************************)
(* A token has at most as many successors as requests overlap; with one    *)
(* request at a time, one.                                                 *)
(***************************************************************************)
THEOREM SuccessorsAreBounded == Spec => []SuccessorsBounded
<1>1. IInv => SuccessorsBounded
  <2> SUFFICES ASSUME IInv, NEW t \in Requests PROVE Cardinality(Successors(t)) <= Together
    BY DEF SuccessorsBounded
  <2>1. Successors(t) \subseteq Heirs(t) /\ Heirs(t) \subseteq Requests
    BY DEF Heirs, Successors
  <2> QED BY <2>1, Fewer DEF IInv, HeirsOK
<1> QED BY <1>1, SessionInvariance, PTL

(***************************************************************************)
(* Signing out and resetting end the sessions that exist.                  *)
(***************************************************************************)
THEOREM SessionsAreEnded == Spec => []SessionsEnd
<1>1. IInv => SessionsEnd
  BY DEF IInv
<1> QED BY <1>1, SessionInvariance, PTL

(***************************************************************************)
(* A finished reset ends the sessions of older passwords.                  *)
(***************************************************************************)
THEOREM OldPasswordsAreEnded == Spec => []OldPasswordsEnd
<1>1. IInv => OldPasswordsEnd
  BY DEF IInv
<1> QED BY <1>1, SessionInvariance, PTL

(***************************************************************************)
(* A blocked account is issued no more tokens than requests overlap.       *)
(***************************************************************************)
THEOREM BlockedAccountsEnd == Spec => []BlockedIsEnd
<1>1. IInv => BlockedIsEnd
  <2> SUFFICES ASSUME IInv PROVE Cardinality(served) <= Together
    BY DEF BlockedIsEnd
  <2>1. CASE user.isBlocked
    <3>1. served \subseteq served \cup Signing /\ served \cup Signing \subseteq Requests
      BY DEF IInv, TypeOK, Signing
    <3> QED BY <2>1, <3>1, Fewer DEF IInv, ServedOK
  <2>2. CASE ~user.isBlocked
    BY <2>2, FS_EmptySet, SessionsAssumption DEF IInv, ServedOK
  <2> QED BY <2>1, <2>2
<1> QED BY <1>1, SessionInvariance, PTL

-----------------------------------------------------------------------------
\* Codes, mails and MFA.

Mailing(c, k) == work[c].pc \in {"mail", "store"} /\ Kind(work[c].op) = k

\* What a request of MFA will save can be passed, too.
SavesOK == \A c \in Clients : work[c].mfa.enabled => work[c].mfa.secret \/ work[c].mfa.setup

OneRequest ==
    calmly => \A c, d \in Clients : work[c] # Free /\ work[d] # Free => c = d

\* No more mails went out than are counted, by the document or by the request that
\* is sending one.
MailsOK ==
    calmly => \A k \in Kinds :
        /\ account.sent[k] <= MaxSends /\ mails[k] <= MaxSends
        /\ account.state = "none" => mails[k] = 0
        /\ (\A c \in Clients : ~Mailing(c, k)) => mails[k] <= account.sent[k]
        /\ \A c \in Clients : Mailing(c, k) =>
             /\ account.state # "none"
             /\ work[c].pc = "mail" => mails[k] <= work[c].count /\ work[c].count < MaxSends
             /\ work[c].pc = "store" => mails[k] <= work[c].count + 1 /\ work[c].count < MaxSends

Guessing(c) == work[c].pc = "write" /\ work[c].op = "guess"

\* While the code can be guessed at, no more guesses were made than are counted,
\* by the document or by the request that makes one; but for one more, after a
\* block, at a code that ends before the next.
GuessesOK ==
    calmly =>
        /\ guesses <= MaxAttempts + 1
        /\ account.state # "verified" =>
             /\ \A c \in Clients : Guessing(c) =>
                  work[c].attempts = account.attempts /\ account.block = 0
             /\ account.attempts = MaxAttempts =>
                  account.life = 0 \/ account.life + BlockTime <= account.block + CodeLife
             /\ \/ guesses <= account.attempts
                \/ /\ \E c \in Clients : Guessing(c) /\ ~work[c].right
                   /\ guesses <= account.attempts + 1
                \/ /\ account.attempts = MaxAttempts /\ guesses = MaxAttempts + 1
                   /\ account.life = 0 \/ account.life < account.block

CredInv == CredentialsTypeOK /\ SavesOK /\ OneRequest /\ MailsOK /\ GuessesOK

LEMMA FreeIsIdle ==
    /\ Free \in Work /\ Free.pc = "free" /\ ~Free.mfa.enabled
    /\ Free.op = "none" /\ Free.count = 0
  BY TimesAssumption DEF Free, Work, NoMfa, Mfa

\* One request of one client changes, the others stay as they are.
LEMMA OneChanges ==
    ASSUME CredInv, NEW c \in Clients, NEW w \in Work, work' = [work EXCEPT ![c] = w]
    PROVE  /\ work' \in [Clients -> Work] /\ work'[c] = w
           /\ \A d \in Clients : d # c => work'[d] = work[d]
<1>1. work \in [Clients -> Work]
  BY DEF CredInv, CredentialsTypeOK
<1> QED BY <1>1

LEMMA SavesKept ==
    ASSUME SavesOK,
           \A d \in Clients : work'[d].mfa = work[d].mfa
                              \/ (work'[d].mfa.enabled => work'[d].mfa.secret \/ work'[d].mfa.setup)
    PROVE  SavesOK'
  BY DEF SavesOK

\* A request that begins while none is in progress is the only one.
LEMMA BeginsAlone ==
    ASSUME NEW c \in Clients, Overlaps,
           \A d \in Clients : d # c => work'[d] = work[d]
    PROVE  OneRequest'
  BY DEF Overlaps, OneRequest, Free

\* So is one that goes on.
LEMMA GoesOnAlone ==
    ASSUME OneRequest, NEW c \in Clients, work[c] # Free, calmly' = calmly,
           \A d \in Clients : d # c => work'[d] = work[d]
    PROVE  OneRequest'
  BY DEF OneRequest, Free

\* What counts neither mails nor guesses leaves their counts as they were.
LEMMA MailsKept ==
    ASSUME MailsOK, mails' = mails, account'.sent = account.sent,
           account.state # "none" => account'.state # "none",
           calmly' => calmly,
           \A d \in Clients :
             \/ /\ work'[d].pc = work[d].pc /\ work'[d].op = work[d].op
                /\ work'[d].count = work[d].count
             \/ work[d].pc \notin {"mail", "store"} /\ work'[d].pc \notin {"mail", "store"}
    PROVE  MailsOK'
<1> SUFFICES ASSUME calmly', NEW k \in Kinds
             PROVE  /\ account'.sent[k] <= MaxSends /\ mails'[k] <= MaxSends
                    /\ account'.state = "none" => mails'[k] = 0
                    /\ (\A c \in Clients : ~Mailing(c, k)') => mails'[k] <= account'.sent[k]
                    /\ \A c \in Clients : Mailing(c, k)' =>
                         /\ account'.state # "none"
                         /\ work'[c].pc = "mail" => mails'[k] <= work'[c].count /\ work'[c].count < MaxSends
                         /\ work'[c].pc = "store" => mails'[k] <= work'[c].count + 1 /\ work'[c].count < MaxSends
  BY DEF MailsOK
<1>1. \A d \in Clients : Mailing(d, k)' <=> Mailing(d, k)
  BY DEF Mailing
<1>2. \A d \in Clients : Mailing(d, k) => work'[d].pc = work[d].pc /\ work'[d].count = work[d].count
  BY DEF Mailing
<1>3. /\ account.sent[k] <= MaxSends /\ mails[k] <= MaxSends
      /\ account.state = "none" => mails[k] = 0
      /\ (\A c \in Clients : ~Mailing(c, k)) => mails[k] <= account.sent[k]
      /\ \A c \in Clients : Mailing(c, k) =>
           /\ account.state # "none"
           /\ work[c].pc = "mail" => mails[k] <= work[c].count /\ work[c].count < MaxSends
           /\ work[c].pc = "store" => mails[k] <= work[c].count + 1 /\ work[c].count < MaxSends
  BY DEF MailsOK
<1> QED BY <1>1, <1>2, <1>3

LEMMA GuessesKept ==
    ASSUME GuessesOK, guesses' = guesses, account'.attempts = account.attempts,
           account'.life = account.life, account'.block = account.block,
           account.state = "verified" => account'.state = "verified",
           calmly' => calmly,
           \A d \in Clients :
             \/ /\ work'[d].pc = work[d].pc /\ work'[d].op = work[d].op
                /\ work'[d].right = work[d].right /\ work'[d].attempts = work[d].attempts
             \/ ~Guessing(d) /\ ~(work'[d].pc = "write" /\ work'[d].op = "guess")
    PROVE  GuessesOK'
<1>1. \A d \in Clients : Guessing(d)' <=> Guessing(d)
  BY DEF Guessing
<1>2. \A d \in Clients : Guessing(d) =>
        work'[d].right = work[d].right /\ work'[d].attempts = work[d].attempts
  BY DEF Guessing
<1> QED BY <1>1, <1>2 DEF GuessesOK

LEMMA CredInitInv == CredentialsInit => CredInv
<1> SUFFICES ASSUME CredentialsInit PROVE CredInv
  OBVIOUS
<1>1. CredentialsTypeOK
  BY TimesAssumption, FreeIsIdle DEF CredentialsInit, CredentialsTypeOK, Document, Mfa, NoMfa
<1>2. SavesOK /\ OneRequest
  BY FreeIsIdle DEF CredentialsInit, SavesOK, OneRequest
<1>3. MailsOK
  BY FreeIsIdle, TimesAssumption DEF CredentialsInit, MailsOK, Mailing
<1>4. GuessesOK
  BY FreeIsIdle, TimesAssumption DEF CredentialsInit, GuessesOK, Guessing
<1> QED BY <1>1, <1>2, <1>3, <1>4 DEF CredInv

LEMMA RegisterInv ==
    ASSUME CredInv, NEW c \in Clients, Register(c)
    PROVE  CredInv'
<1> DEFINE w == [Free EXCEPT !.pc = "mail", !.op = "register", !.left = Window]
<1>0. Window \in 0..Window
  BY TimesAssumption
<1>1. w \in Work /\ w.pc = "mail" /\ w.op = "register" /\ w.count = 0 /\ w.mfa = Free.mfa
  BY <1>0, FreeIsIdle DEF Work
<1>2. work' = [work EXCEPT ![c] = w]
  BY DEF Register
<1> HIDE DEF w
<1>3. /\ work' \in [Clients -> Work] /\ work'[c] = w
      /\ \A d \in Clients : d # c => work'[d] = work[d]
  BY <1>1, <1>2, OneChanges
<1>4. /\ account.state = "none" /\ account' = [account EXCEPT !.state = "unverified"]
      /\ UNCHANGED <<mfa, limits, guesses, mails>> /\ Overlaps /\ work[c] = Free
      /\ account \in Document
  BY DEF Register, CredInv, CredentialsTypeOK
<1>5. /\ account' \in Document /\ account'.state = "unverified" /\ account'.sent = account.sent
      /\ account'.attempts = account.attempts /\ account'.life = account.life
      /\ account'.block = account.block
  BY <1>4 DEF Document
<1>6. CredentialsTypeOK'
  BY <1>3, <1>4, <1>5 DEF CredInv, CredentialsTypeOK, Overlaps
<1>7. SavesOK'
  BY <1>1, <1>3, <1>4, SavesKept, FreeIsIdle DEF CredInv
<1>8. OneRequest'
  BY <1>3, <1>4, BeginsAlone
<1>9. GuessesOK'
  BY <1>1, <1>3, <1>4, <1>5, GuessesKept, FreeIsIdle DEF CredInv, Overlaps, Guessing
<1>10. MailsOK'
  <2> SUFFICES ASSUME calmly', NEW k \in Kinds
               PROVE  /\ account'.sent[k] <= MaxSends /\ mails'[k] <= MaxSends
                      /\ (\A d \in Clients : ~Mailing(d, k)') => mails'[k] <= account'.sent[k]
                      /\ \A d \in Clients : Mailing(d, k)' =>
                           /\ work'[d].pc = "mail" => mails'[k] <= work'[d].count /\ work'[d].count < MaxSends
                           /\ work'[d].pc = "store" => mails'[k] <= work'[d].count + 1 /\ work'[d].count < MaxSends
    BY <1>5 DEF MailsOK
  <2>1. calmly /\ \A d \in Clients : work[d] = Free
    BY <1>4 DEF Overlaps
  <2>2. account.sent[k] <= MaxSends /\ mails[k] = 0 /\ account.sent[k] \in Nat
    BY <2>1, <1>4 DEF CredInv, MailsOK, Document
  <2>3. \A d \in Clients : Mailing(d, k)' => d = c
    BY <1>3, <2>1, FreeIsIdle DEF Mailing
  <2> QED BY <1>1, <1>3, <1>4, <1>5, <2>2, <2>3, TimesAssumption
<1> QED BY <1>6, <1>7, <1>8, <1>9, <1>10 DEF CredInv

LEMMA OauthLoginInv ==
    ASSUME CredInv, NEW vouched \in BOOLEAN, OauthLogin(vouched)
    PROVE  CredInv'
<1>1. /\ UNCHANGED <<mfa, limits, work, guesses, mails>> /\ Overlaps /\ account \in Document
  BY DEF OauthLogin, CredInv, CredentialsTypeOK
<1>2. /\ account' \in Document /\ account'.sent = account.sent
      /\ account'.attempts = account.attempts /\ account'.life = account.life
      /\ account'.block = account.block /\ account'.state # "none"
      /\ account.state = "verified" => account'.state = "verified"
  BY <1>1 DEF OauthLogin, Document
<1>3. CredentialsTypeOK'
  BY <1>1, <1>2 DEF CredInv, CredentialsTypeOK, Overlaps
<1>4. SavesOK'
  BY <1>1 DEF CredInv, SavesOK
<1>5. OneRequest'
  BY <1>1 DEF CredInv, OneRequest, Overlaps, Free
<1>6. MailsOK'
  BY <1>1, <1>2, MailsKept DEF CredInv, Overlaps
<1>7. GuessesOK'
  BY <1>1, <1>2, GuessesKept DEF CredInv, Overlaps
<1> QED BY <1>3, <1>4, <1>5, <1>6, <1>7 DEF CredInv

\* Requests that begin by reading.
LEMMA AskedInv ==
    ASSUME CredInv, NEW c \in Clients, work[c] = Free, Overlaps,
           NEW op \in {"resend", "forgot", "guess"} \cup MfaOps,
           work' = [work EXCEPT ![c] = [Free EXCEPT !.pc = "find", !.op = op]],
           limits' \in [Kinds -> [count : 0..MaxSends, left : 0..Window]],
           UNCHANGED <<account, mfa, guesses, mails>>
    PROVE  CredInv'
<1> DEFINE w == [Free EXCEPT !.pc = "find", !.op = op]
<1>1. w \in Work /\ w.pc = "find" /\ w.mfa = Free.mfa
  BY FreeIsIdle DEF Work
<1>2. work' = [work EXCEPT ![c] = w]
  OBVIOUS
<1> HIDE DEF w
<1>3. /\ work' \in [Clients -> Work] /\ work'[c] = w
      /\ \A d \in Clients : d # c => work'[d] = work[d]
  BY <1>1, <1>2, OneChanges
<1>4. CredentialsTypeOK'
  BY <1>3 DEF CredInv, CredentialsTypeOK, Overlaps
<1>5. SavesOK'
  BY <1>1, <1>3, SavesKept, FreeIsIdle DEF CredInv
<1>6. OneRequest'
  BY <1>3, BeginsAlone
<1>7. MailsOK'
  BY <1>1, <1>3, MailsKept, FreeIsIdle DEF CredInv, Overlaps
<1>8. GuessesOK'
  BY <1>1, <1>3, GuessesKept, FreeIsIdle DEF CredInv, Overlaps, Guessing
<1> QED BY <1>4, <1>5, <1>6, <1>7, <1>8 DEF CredInv

LEMMA AskForMailInv ==
    ASSUME CredInv, NEW c \in Clients, NEW op \in {"resend", "forgot"}, AskForMail(c, op)
    PROVE  CredInv'
<1>1. limits \in [Kinds -> [count : 0..MaxSends, left : 0..Window]] /\ Kind(op) \in Kinds
  BY DEF CredInv, CredentialsTypeOK, Kind, Kinds
<1>2. limits' \in [Kinds -> [count : 0..MaxSends, left : 0..Window]]
  <2> DEFINE l == limits[Kind(op)]
             n == IF l.left = 0 THEN [count |-> 1, left |-> Window] ELSE [count |-> l.count + 1, left |-> l.left]
  <2>1. l \in [count : 0..MaxSends, left : 0..Window]
    BY <1>1
  <2>2. l.left > 0 => l.count < MaxSends
    BY <2>1, TimesAssumption DEF AskForMail, RateLimited
  <2>3. n \in [count : 0..MaxSends, left : 0..Window]
    BY <2>1, <2>2, TimesAssumption
  <2>4. limits' = [limits EXCEPT ![Kind(op)] = n]
    BY <1>1 DEF AskForMail, Counted
  <2> HIDE DEF n
  <2> QED BY <1>1, <2>3, <2>4
<1> QED BY <1>2, AskedInv DEF AskForMail

LEMMA AskInv ==
    ASSUME CredInv, NEW c \in Clients, NEW op \in {"guess"} \cup MfaOps, Ask(c, op)
    PROVE  CredInv'
<1>1. limits' \in [Kinds -> [count : 0..MaxSends, left : 0..Window]]
  BY DEF Ask, CredInv, CredentialsTypeOK
<1> QED BY <1>1, AskedInv DEF Ask

\* A request that goes on from reading, neither to a mail nor to a guess.
LEMMA FoundInv ==
    ASSUME CredInv, NEW c \in Clients, work[c].pc = "find", NEW w \in Work,
           w.pc = "free" \/ (w.pc = "write" /\ w.op \in MfaOps),
           w.mfa.enabled => w.mfa.secret \/ w.mfa.setup,
           work' = [work EXCEPT ![c] = w],
           UNCHANGED <<account, mfa, limits, calmly, guesses, mails>>
    PROVE  CredInv'
<1>1. /\ work' \in [Clients -> Work] /\ work'[c] = w
      /\ \A d \in Clients : d # c => work'[d] = work[d]
  BY OneChanges
<1>2. CredentialsTypeOK'
  BY <1>1 DEF CredInv, CredentialsTypeOK
<1>3. SavesOK'
  BY <1>1, SavesKept DEF CredInv
<1>4. OneRequest'
  BY <1>1, GoesOnAlone, FreeIsIdle DEF CredInv
<1>5. MailsOK'
  BY <1>1, MailsKept DEF CredInv
<1>6. GuessesOK'
  BY <1>1, GuessesKept DEF CredInv, Guessing, MfaOps
<1> QED BY <1>2, <1>3, <1>4, <1>5, <1>6 DEF CredInv

LEMMA RefusedInv ==
    ASSUME CredInv, NEW c \in Clients, work[c].pc = "find", Release(c),
           UNCHANGED <<account, mfa, limits, calmly, guesses, mails>>
    PROVE  CredInv'
  BY FoundInv, FreeIsIdle DEF Release

LEMMA MfaInv ==
    ASSUME CredInv, NEW c \in Clients, work[c].pc = "find", work[c].op \in MfaOps,
           NEW m \in Mfa, m.enabled => m.secret \/ m.setup,
           work' = [work EXCEPT ![c].pc = "write", ![c].mfa = m],
           UNCHANGED <<account, mfa, limits, calmly, guesses, mails>>
    PROVE  CredInv'
<1> DEFINE w == [work[c] EXCEPT !.pc = "write", !.mfa = m]
<1>1. work[c] \in Work
  BY DEF CredInv, CredentialsTypeOK
<1>2. w \in Work /\ w.pc = "write" /\ w.op \in MfaOps /\ w.mfa = m
  BY <1>1 DEF Work
<1>3. work' = [work EXCEPT ![c] = w]
  OBVIOUS
<1> HIDE DEF w
<1> QED BY <1>2, <1>3, FoundInv

LEMMA StartMfaSetupInv ==
    ASSUME CredInv, NEW c \in Clients, StartMfaSetup(c)
    PROVE  CredInv'
<1> DEFINE m == [enabled |-> mfa.enabled, secret |-> FALSE, setup |-> TRUE]
<1>1. mfa \in Mfa
  BY DEF CredInv, CredentialsTypeOK
<1>2. m \in Mfa /\ m.setup
  BY <1>1 DEF Mfa
<1>3. /\ work[c].pc = "find" /\ work[c].op \in MfaOps
      /\ work' = [work EXCEPT ![c].pc = "write", ![c].mfa = m]
      /\ UNCHANGED <<account, mfa, limits, calmly, guesses, mails>>
  BY DEF StartMfaSetup, MfaOps
<1> HIDE DEF m
<1> QED BY <1>2, <1>3, MfaInv

LEMMA EnableMfaInv ==
    ASSUME CredInv, NEW c \in Clients, NEW passed \in BOOLEAN, EnableMfa(c, passed)
    PROVE  CredInv'
<1> DEFINE m == [enabled |-> TRUE, secret |-> TRUE, setup |-> FALSE]
<1>1. m \in Mfa /\ m.secret
  BY DEF Mfa
<1>2. /\ work[c].pc = "find" /\ work[c].op \in MfaOps
      /\ work' = [work EXCEPT ![c].pc = "write", ![c].mfa = m] \/ Release(c)
      /\ UNCHANGED <<account, mfa, limits, calmly, guesses, mails>>
  BY DEF EnableMfa, MfaOps
<1> HIDE DEF m
<1> QED BY <1>1, <1>2, MfaInv, RefusedInv

LEMMA DisableMfaInv ==
    ASSUME CredInv, NEW c \in Clients, NEW passed \in BOOLEAN, DisableMfa(c, passed)
    PROVE  CredInv'
<1>1. NoMfa \in Mfa /\ ~NoMfa.enabled
  BY DEF Mfa, NoMfa
<1>2. /\ work[c].pc = "find" /\ work[c].op \in MfaOps
      /\ work' = [work EXCEPT ![c].pc = "write", ![c].mfa = NoMfa] \/ Release(c)
      /\ UNCHANGED <<account, mfa, limits, calmly, guesses, mails>>
  BY DEF DisableMfa, MfaOps
<1> QED BY <1>1, <1>2, MfaInv, RefusedInv

LEMMA SaveMfaInv ==
    ASSUME CredInv, NEW c \in Clients, SaveMfa(c)
    PROVE  CredInv'
<1>1. /\ work[c].pc = "write" /\ work[c].op \in MfaOps /\ mfa' = work[c].mfa
      /\ work' = [work EXCEPT ![c] = Free]
      /\ UNCHANGED <<account, limits, calmly, guesses, mails>>
  BY DEF SaveMfa, Release
<1>2. /\ work' \in [Clients -> Work] /\ work'[c] = Free
      /\ \A d \in Clients : d # c => work'[d] = work[d]
  BY <1>1, FreeIsIdle, OneChanges
<1>3. work[c] \in Work /\ work[c].mfa \in Mfa
  BY DEF CredInv, CredentialsTypeOK, Work
<1>4. CredentialsTypeOK'
  BY <1>1, <1>2, <1>3 DEF CredInv, CredentialsTypeOK
<1>5. SavesOK'
  BY <1>2, SavesKept, FreeIsIdle DEF CredInv
<1>6. OneRequest'
  BY <1>1, <1>2, GoesOnAlone, FreeIsIdle DEF CredInv
<1>7. MailsOK'
  BY <1>1, <1>2, MailsKept, FreeIsIdle DEF CredInv
<1>8. GuessesOK'
  BY <1>1, <1>2, GuessesKept, FreeIsIdle DEF CredInv, Guessing, MfaOps
<1> QED BY <1>4, <1>5, <1>6, <1>7, <1>8 DEF CredInv

LEMMA GiveUpInv ==
    ASSUME CredInv, NEW c \in Clients, GiveUp(c)
    PROVE  CredInv'
<1>1. /\ work' = [work EXCEPT ![c] = Free] /\ ~calmly' /\ calmly' \in BOOLEAN
      /\ UNCHANGED <<account, mfa, limits, guesses, mails>>
  BY DEF GiveUp, Release
<1>2. /\ work' \in [Clients -> Work] /\ work'[c] = Free
      /\ \A d \in Clients : d # c => work'[d] = work[d]
  BY <1>1, FreeIsIdle, OneChanges
<1>3. CredentialsTypeOK'
  BY <1>1, <1>2 DEF CredInv, CredentialsTypeOK
<1>4. SavesOK'
  BY <1>2, SavesKept, FreeIsIdle DEF CredInv
<1>5. OneRequest' /\ MailsOK' /\ GuessesOK'
  BY <1>1 DEF OneRequest, MailsOK, GuessesOK
<1> QED BY <1>3, <1>4, <1>5 DEF CredInv

LEMMA RestartInv ==
    ASSUME CredInv, Restart
    PROVE  CredInv'
<1>1. /\ calmly' = (calmly /\ \A c \in Clients : work[c] = Free)
      /\ work' = [c \in Clients |-> Free] /\ UNCHANGED <<account, mfa, guesses, mails>>
  BY DEF Restart
<1>2. CredentialsTypeOK'
  BY <1>1, FreeIsIdle, TimesAssumption DEF Restart, CredInv, CredentialsTypeOK
<1>3. SavesOK' /\ OneRequest'
  BY <1>1, FreeIsIdle DEF SavesOK, OneRequest
<1>4. CASE calmly'
  <2>1. work' = work /\ calmly' = calmly
    BY <1>1, <1>4 DEF CredInv, CredentialsTypeOK
  <2>2. MailsOK'
    BY <1>1, <2>1, MailsKept DEF CredInv
  <2>3. GuessesOK'
    BY <1>1, <2>1, GuessesKept DEF CredInv
  <2> QED BY <1>2, <1>3, <2>2, <2>3 DEF CredInv
<1>5. CASE ~calmly'
  BY <1>2, <1>3, <1>5 DEF CredInv, MailsOK, GuessesOK
<1> QED BY <1>4, <1>5

LEMMA TickInv ==
    ASSUME CredInv, Tick
    PROVE  CredInv'
<1>1. /\ account \in Document /\ work \in [Clients -> Work]
      /\ limits \in [Kinds -> [count : 0..MaxSends, left : 0..Window]]
      /\ UNCHANGED <<mfa, calmly, guesses, mails>>
  BY DEF CredInv, CredentialsTypeOK, Tick
<1>2. \A n, b \in Nat : n \in 0..b => Less(n) \in 0..b
  BY DEF Less
<1>3. CodeLife \in Nat /\ BlockTime \in Nat /\ Window \in Nat /\ MaxAttempts \in Nat
  BY TimesAssumption
<1>4. /\ account' \in Document /\ account'.state = account.state /\ account'.sent = account.sent
      /\ account'.attempts = account.attempts
      /\ account'.life = Less(account.life) /\ account'.block = Less(account.block)
  <2> DEFINE l == Less(account.life)
             b == Less(account.block)
             o == [k \in Kinds |-> Less(account.window[k])]
  <2>1. l \in 0..CodeLife /\ b \in 0..BlockTime /\ o \in [Kinds -> 0..Window]
    BY <1>1, <1>2, <1>3 DEF Document
  <2>2. account' = [account EXCEPT !.life = l, !.block = b, !.window = o]
    BY DEF Tick
  <2> HIDE DEF l, b, o
  <2>3. /\ account' \in Document /\ account'.state = account.state /\ account'.sent = account.sent
        /\ account'.attempts = account.attempts /\ account'.life = l /\ account'.block = b
    BY <1>1, <2>1, <2>2 DEF Document
  <2> QED BY <2>3 DEF l, b
<1>5. limits' \in [Kinds -> [count : 0..MaxSends, left : 0..Window]]
  <2>1. \A k \in Kinds : [limits[k] EXCEPT !.left = Less(limits[k].left)]
                            \in [count : 0..MaxSends, left : 0..Window]
    BY <1>1, <1>2, <1>3
  <2> QED BY <2>1 DEF Tick
<1>6. /\ work' \in [Clients -> Work]
      /\ \A c \in Clients : /\ work'[c].pc = work[c].pc /\ work'[c].op = work[c].op
                            /\ work'[c].right = work[c].right /\ work'[c].mfa = work[c].mfa
                            /\ work'[c].attempts = work[c].attempts
                            /\ work'[c].count = work[c].count
                            /\ work[c] = Free => work'[c] = Free
  <2> SUFFICES ASSUME NEW c \in Clients, NEW w, w = [work[c] EXCEPT !.left = Less(work[c].left)]
               PROVE  /\ w \in Work /\ w.pc = work[c].pc /\ w.op = work[c].op
                      /\ w.right = work[c].right /\ w.mfa = work[c].mfa
                      /\ w.attempts = work[c].attempts /\ w.count = work[c].count
                      /\ work[c] = Free => w = Free
    BY DEF Tick
  <2>1. work[c] \in Work
    BY <1>1
  <2>2. Less(work[c].left) \in 0..Window
    BY <2>1, <1>2, <1>3 DEF Work
  <2>3. work[c] = Free => Less(work[c].left) = work[c].left
    BY DEF Free, Less
  <2>4. work[c].left = Less(work[c].left) => w = work[c]
    BY <2>1 DEF Work
  <2> QED BY <2>1, <2>2, <2>3, <2>4 DEF Work
<1>7. CredentialsTypeOK'
  BY <1>1, <1>4, <1>5, <1>6 DEF CredInv, CredentialsTypeOK
<1>8. SavesOK'
  BY <1>6, SavesKept DEF CredInv
<1>9. OneRequest'
  BY <1>1, <1>6 DEF CredInv, OneRequest
<1>10. MailsOK'
  BY <1>1, <1>4, <1>6, MailsKept DEF CredInv
<1>11. GuessesOK'
  <2> SUFFICES ASSUME calmly PROVE GuessesOK'
    BY <1>1 DEF GuessesOK
  <2>1. \A d \in Clients : Guessing(d)' <=> Guessing(d)
    BY <1>6 DEF Guessing
  <2>2. /\ account'.block = 0 \/ account'.block = account.block - 1
        /\ account.block = 0 => account'.block = 0
        /\ account'.life = 0 \/ account'.life = account.life - 1
        /\ account.life = 0 => account'.life = 0
        /\ account.life > 0 => account'.life = account.life - 1
        /\ account.block > 0 => account'.block = account.block - 1
        /\ account.life \in Nat /\ account.block \in Nat /\ account'.life \in Nat
        /\ account'.block \in Nat
    BY <1>1, <1>3, <1>4 DEF Less, Document
  <2>3. account.life = 0 \/ account.life + BlockTime <= account.block + CodeLife
        => account'.life = 0 \/ account'.life + BlockTime <= account'.block + CodeLife
    BY <2>2, <1>3
  <2>4. account.life = 0 \/ account.life < account.block
        => account'.life = 0 \/ account'.life < account'.block
    BY <2>2
  <2>5. \A d \in Clients : work'[d].right = work[d].right /\ work'[d].attempts = work[d].attempts
    BY <1>6
  <2> QED BY <1>1, <1>4, <2>1, <2>2, <2>3, <2>4, <2>5 DEF CredInv, GuessesOK
<1> QED BY <1>7, <1>8, <1>9, <1>10, <1>11 DEF CredInv

\* While nothing overlaps, the others are idle.
LEMMA OthersIdle ==
    ASSUME OneRequest, calmly, NEW c \in Clients, work[c] # Free
    PROVE  \A d \in Clients : d # c => work[d] = Free
  BY DEF OneRequest

LEMMA FindForMailInv ==
    ASSUME CredInv, NEW c \in Clients, FindForMail(c)
    PROVE  CredInv'
<1> DEFINE k == Kind(work[c].op)
           opens == account.window[k] = 0
           count == IF opens THEN 0 ELSE account.sent[k]
           w == [work[c] EXCEPT !.pc = "mail", !.count = count,
                                !.left = IF opens THEN Window ELSE account.window[k]]
<1>1. /\ work[c].pc = "find" /\ work[c].op \in {"resend", "forgot"} /\ k \in Kinds
      /\ UNCHANGED <<account, mfa, limits, calmly, guesses>>
  BY DEF FindForMail, Kind, Kinds
<1>2. CASE \/ account.state = "none"
           \/ k = "verify" /\ account.state = "verified"
           \/ count >= MaxSends
  <2>1. Release(c) /\ UNCHANGED mails
    BY <1>2 DEF FindForMail
  <2> QED BY <1>1, <2>1, RefusedInv
<1>3. CASE ~ \/ account.state = "none"
             \/ k = "verify" /\ account.state = "verified"
             \/ count >= MaxSends
  <2>1. /\ account \in Document /\ work[c] \in Work /\ mails \in [Kinds -> Nat]
        /\ MaxSends \in Nat /\ Window \in 0..Window
    BY TimesAssumption DEF CredInv, CredentialsTypeOK
  <2>2. count \in Nat /\ count < MaxSends /\ account.state # "none"
        /\ (~opens => count = account.sent[k]) /\ (opens => count = 0)
    BY <1>1, <1>3, <2>1 DEF Document
  <2>3. /\ mails' = IF opens THEN [mails EXCEPT ![k] = 0] ELSE mails
        /\ work' = [work EXCEPT ![c] = w]
    BY <1>3 DEF FindForMail
  <2>4. w \in Work /\ w.pc = "mail" /\ w.op = work[c].op /\ w.count = count /\ w.mfa = work[c].mfa
    <3>1. (IF opens THEN Window ELSE account.window[k]) \in 0..Window
      BY <1>1, <2>1 DEF Document
    <3> HIDE DEF count, opens
    <3> QED BY <2>1, <2>2, <3>1 DEF Work
  <2>5. mails' \in [Kinds -> Nat] /\ (opens => mails'[k] = 0)
        /\ (~opens => mails' = mails) /\ \A j \in Kinds : j # k => mails'[j] = mails[j]
    BY <1>1, <2>1, <2>3
  <2> HIDE DEF w, count, opens
  <2>6. /\ work' \in [Clients -> Work] /\ work'[c] = w
        /\ \A d \in Clients : d # c => work'[d] = work[d]
    BY <2>3, <2>4, OneChanges
  <2>7. CredentialsTypeOK'
    BY <1>1, <2>5, <2>6 DEF CredInv, CredentialsTypeOK
  <2>8. SavesOK'
    BY <2>4, <2>6, SavesKept DEF CredInv
  <2>9. OneRequest'
    BY <1>1, <2>6, GoesOnAlone, FreeIsIdle DEF CredInv
  <2>10. GuessesOK'
    BY <1>1, <2>4, <2>6, GuessesKept DEF CredInv, Guessing
  <2>11. MailsOK'
    <3> SUFFICES ASSUME calmly, NEW j \in Kinds
                 PROVE  /\ account.sent[j] <= MaxSends /\ mails'[j] <= MaxSends
                        /\ (\A d \in Clients : ~Mailing(d, j)') => mails'[j] <= account.sent[j]
                        /\ \A d \in Clients : Mailing(d, j)' =>
                             /\ work'[d].pc = "mail" => mails'[j] <= work'[d].count /\ work'[d].count < MaxSends
                             /\ work'[d].pc = "store" => mails'[j] <= work'[d].count + 1 /\ work'[d].count < MaxSends
      BY <1>1, <2>2 DEF MailsOK
    <3>1. \A d \in Clients : d # c => work'[d] = Free
      BY <1>1, <2>6, OthersIdle, FreeIsIdle DEF CredInv
    <3>2. \A d \in Clients : (Mailing(d, j)' <=> d = c /\ j = k) /\ ~Mailing(d, j)
      BY <1>1, <2>4, <2>6, <3>1, OthersIdle, FreeIsIdle DEF Mailing, CredInv
    <3>3. account.sent[j] <= MaxSends /\ mails[j] <= account.sent[j] /\ account.sent[j] \in Nat
          /\ mails[j] \in Nat
      BY <3>2, <2>1 DEF CredInv, MailsOK, Document
    <3>4. CASE j = k
      BY <2>1, <2>2, <2>4, <2>5, <2>6, <3>2, <3>3, <3>4
    <3>5. CASE j # k
      BY <2>1, <2>5, <3>2, <3>3, <3>5
    <3> QED BY <3>4, <3>5
  <2> QED BY <2>7, <2>8, <2>9, <2>10, <2>11 DEF CredInv
<1> QED BY <1>2, <1>3

LEMMA SendMailInv ==
    ASSUME CredInv, NEW c \in Clients, SendMail(c)
    PROVE  CredInv'
<1> DEFINE k == Kind(work[c].op)
           w == [work[c] EXCEPT !.pc = "store"]
<1>1. /\ work[c].pc = "mail" /\ k \in Kinds /\ work[c] \in Work /\ mails \in [Kinds -> Nat]
      /\ UNCHANGED <<account, mfa, limits, calmly, guesses>>
      /\ mails' = [mails EXCEPT ![k] = @ + 1] /\ work' = [work EXCEPT ![c] = w]
  BY DEF SendMail, Proceed, Kind, Kinds, CredInv, CredentialsTypeOK
<1>2. w \in Work /\ w.pc = "store" /\ w.op = work[c].op /\ w.count = work[c].count
      /\ w.mfa = work[c].mfa
  BY <1>1 DEF Work
<1>3. /\ mails' \in [Kinds -> Nat] /\ mails'[k] = mails[k] + 1
      /\ \A j \in Kinds : j # k => mails'[j] = mails[j]
  BY <1>1
<1> HIDE DEF w
<1>4. /\ work' \in [Clients -> Work] /\ work'[c] = w
      /\ \A d \in Clients : d # c => work'[d] = work[d]
  BY <1>1, <1>2, OneChanges
<1>5. CredentialsTypeOK'
  BY <1>1, <1>3, <1>4 DEF CredInv, CredentialsTypeOK
<1>6. SavesOK'
  BY <1>2, <1>4, SavesKept DEF CredInv
<1>7. OneRequest'
  BY <1>1, <1>4, GoesOnAlone, FreeIsIdle DEF CredInv
<1>8. GuessesOK'
  BY <1>1, <1>2, <1>4, GuessesKept DEF CredInv, Guessing
<1>9. MailsOK'
  <2> SUFFICES ASSUME calmly, NEW j \in Kinds
               PROVE  /\ account.sent[j] <= MaxSends /\ mails'[j] <= MaxSends
                      /\ account.state = "none" => mails'[j] = 0
                      /\ (\A d \in Clients : ~Mailing(d, j)') => mails'[j] <= account.sent[j]
                      /\ \A d \in Clients : Mailing(d, j)' =>
                           /\ account.state # "none"
                           /\ work'[d].pc = "mail" => mails'[j] <= work'[d].count /\ work'[d].count < MaxSends
                           /\ work'[d].pc = "store" => mails'[j] <= work'[d].count + 1 /\ work'[d].count < MaxSends
    BY <1>1 DEF MailsOK
  <2>1. \A d \in Clients : d # c => work'[d] = Free /\ work[d] = Free
    BY <1>1, <1>4, OthersIdle, FreeIsIdle DEF CredInv
  <2>2. \A d \in Clients : (Mailing(d, j)' <=> d = c /\ j = k) /\ (Mailing(d, j) <=> d = c /\ j = k)
    BY <1>1, <1>2, <1>4, <2>1, FreeIsIdle DEF Mailing
  <2>3. /\ account.sent[j] <= MaxSends /\ mails[j] <= MaxSends /\ mails[j] \in Nat
        /\ account.state = "none" => mails[j] = 0
        /\ (\A d \in Clients : ~Mailing(d, j)) => mails[j] <= account.sent[j]
        /\ Mailing(c, j) => /\ account.state # "none" /\ mails[j] <= work[c].count
                            /\ work[c].count < MaxSends
    BY <1>1 DEF CredInv, MailsOK
  <2>4. CASE j = k
    BY <1>1, <1>2, <1>3, <1>4, <2>2, <2>3, <2>4, TimesAssumption DEF Work
  <2>5. CASE j # k
    BY <1>3, <2>2, <2>3, <2>5
  <2> QED BY <2>4, <2>5
<1> QED BY <1>5, <1>6, <1>7, <1>8, <1>9 DEF CredInv

LEMMA StoreMailInv ==
    ASSUME CredInv, NEW c \in Clients, StoreMail(c)
    PROVE  CredInv'
<1> DEFINE k == Kind(work[c].op)
<1>1. /\ work[c].pc = "store" /\ k \in Kinds /\ work[c] \in Work /\ account \in Document
      /\ work' = [work EXCEPT ![c] = Free]
      /\ UNCHANGED <<mfa, limits, calmly, mails>> /\ guesses \in Nat
  BY DEF StoreMail, Release, Kind, Kinds, CredInv, CredentialsTypeOK
<1>2. /\ work' \in [Clients -> Work] /\ work'[c] = Free
      /\ \A d \in Clients : d # c => work'[d] = work[d]
  BY <1>1, FreeIsIdle, OneChanges
<1>3. CodeLife \in 0..CodeLife /\ 0 \in 0..MaxAttempts /\ MaxSends \in Nat
      /\ MaxAttempts \in Nat /\ MaxAttempts # 0 /\ BlockTime \in Nat /\ CodeLife \in Nat
  BY TimesAssumption
<1>4. work[c].count \in Nat /\ work[c].left \in 0..Window
  BY <1>1 DEF Work
<1> DEFINE count == work[c].count
           left == work[c].left
           s == [account.sent EXCEPT ![k] = count + 1]
           o == [account.window EXCEPT ![k] = left]
<1>5. s \in [Kinds -> Nat] /\ o \in [Kinds -> 0..Window] /\ s[k] = count + 1
      /\ \A j \in Kinds : j # k => s[j] = account.sent[j]
  BY <1>1, <1>4 DEF Document
<1>6. /\ k = "verify" => account' = [account EXCEPT !.sent = s, !.window = o, !.coded = TRUE,
                                                    !.life = CodeLife, !.attempts = 0]
      /\ k # "verify" => account' = [account EXCEPT !.sent = s, !.window = o]
      /\ guesses' = IF k = "verify" THEN 0 ELSE guesses
  BY <1>1 DEF StoreMail, Document
<1> HIDE DEF s, o
<1>7. /\ account' \in Document /\ account'.sent = s /\ account'.state = account.state
      /\ account'.block = account.block
      /\ k = "verify" => account'.life = CodeLife /\ account'.attempts = 0
      /\ k # "verify" => account'.life = account.life /\ account'.attempts = account.attempts
  BY <1>1, <1>3, <1>5, <1>6 DEF Document
<1>8. CredentialsTypeOK'
  BY <1>1, <1>2, <1>6, <1>7 DEF CredInv, CredentialsTypeOK
<1>9. SavesOK'
  BY <1>2, SavesKept, FreeIsIdle DEF CredInv
<1>10. OneRequest'
  BY <1>1, <1>2, GoesOnAlone, FreeIsIdle DEF CredInv
<1>11. GuessesOK'
  <2>1. CASE k = "verify"
    <3> SUFFICES ASSUME calmly PROVE GuessesOK'
      BY <1>1 DEF GuessesOK
    <3>1. \A d \in Clients : ~Guessing(d)'
      BY <1>1, <1>2, OthersIdle, FreeIsIdle DEF CredInv, Guessing
    <3> QED BY <1>3, <1>6, <1>7, <2>1, <3>1 DEF GuessesOK
  <2>2. CASE k # "verify"
    BY <1>1, <1>2, <1>6, <1>7, <2>2, GuessesKept, FreeIsIdle DEF CredInv, Guessing
  <2> QED BY <2>1, <2>2
<1>12. MailsOK'
  <2> SUFFICES ASSUME calmly, NEW j \in Kinds
               PROVE  /\ account'.sent[j] <= MaxSends /\ mails[j] <= MaxSends
                      /\ account'.state = "none" => mails[j] = 0
                      /\ mails[j] <= account'.sent[j]
                      /\ \A d \in Clients : ~Mailing(d, j)'
    BY <1>1 DEF MailsOK
  <2>1. \A d \in Clients : d # c => work'[d] = Free /\ work[d] = Free
    BY <1>1, <1>2, OthersIdle, FreeIsIdle DEF CredInv
  <2>2. \A d \in Clients : ~Mailing(d, j)' /\ (Mailing(d, j) <=> d = c /\ j = k)
    BY <1>1, <1>2, <2>1, FreeIsIdle DEF Mailing
  <2>3. /\ account.sent[j] <= MaxSends /\ mails[j] <= MaxSends
        /\ account.state = "none" => mails[j] = 0
        /\ (\A d \in Clients : ~Mailing(d, j)) => mails[j] <= account.sent[j]
        /\ Mailing(c, j) => mails[j] <= work[c].count + 1 /\ work[c].count < MaxSends
    BY <1>1 DEF CredInv, MailsOK
  <2> QED BY <1>3, <1>4, <1>5, <1>7, <2>2, <2>3
<1> QED BY <1>8, <1>9, <1>10, <1>11, <1>12 DEF CredInv

LEMMA FindForGuessInv ==
    ASSUME CredInv, NEW c \in Clients, NEW right \in BOOLEAN, FindForGuess(c, right)
    PROVE  CredInv'
<1>1. /\ work[c].pc = "find" /\ work[c].op = "guess" /\ work[c] \in Work /\ account \in Document
      /\ UNCHANGED <<account, mfa, limits, calmly, mails>> /\ guesses \in Nat
  BY DEF FindForGuess, CredInv, CredentialsTypeOK
<1>2. CASE account.state # "unverified" \/ account.block > 0
  BY <1>1, <1>2, RefusedInv DEF FindForGuess
<1>3. CASE ~(account.state # "unverified" \/ account.block > 0)
  <2> DEFINE w == [work[c] EXCEPT !.pc = "write", !.right = right, !.attempts = account.attempts]
  <2>1. /\ work' = [work EXCEPT ![c] = w]
        /\ guesses' = IF account.life > 0 /\ ~right THEN guesses + 1 ELSE guesses
        /\ right => account.life > 0
    BY <1>3 DEF FindForGuess
  <2>2. w \in Work /\ w.pc = "write" /\ w.op = "guess" /\ w.right = right
        /\ w.attempts = account.attempts /\ w.mfa = work[c].mfa
    BY <1>1 DEF Work, Document
  <2> HIDE DEF w
  <2>3. /\ work' \in [Clients -> Work] /\ work'[c] = w
        /\ \A d \in Clients : d # c => work'[d] = work[d]
    BY <2>1, <2>2, OneChanges
  <2>4. CredentialsTypeOK'
    BY <1>1, <2>1, <2>3 DEF CredInv, CredentialsTypeOK
  <2>5. SavesOK'
    BY <2>2, <2>3, SavesKept DEF CredInv
  <2>6. OneRequest'
    BY <1>1, <2>3, GoesOnAlone, FreeIsIdle DEF CredInv
  <2>7. MailsOK'
    BY <1>1, <2>2, <2>3, MailsKept DEF CredInv
  <2>8. GuessesOK'
    <3> SUFFICES ASSUME calmly PROVE GuessesOK'
      BY <1>1 DEF GuessesOK
    <3>1. \A d \in Clients : d # c => work'[d] = Free /\ work[d] = Free
      BY <1>1, <2>3, OthersIdle, FreeIsIdle DEF CredInv
    <3>2. \A d \in Clients : (Guessing(d)' <=> d = c) /\ ~Guessing(d)
      BY <1>1, <2>2, <2>3, <3>1, FreeIsIdle DEF Guessing
    <3>3. account.state # "verified" /\ account.block = 0 /\ account.life \in Nat
          /\ account.attempts \in 0..MaxAttempts
      BY <1>1, <1>3, TimesAssumption DEF Document
    <3>4. /\ guesses <= MaxAttempts + 1
          /\ account.attempts = MaxAttempts =>
               account.life = 0 \/ account.life + BlockTime <= account.block + CodeLife
          /\ \/ guesses <= account.attempts
             \/ /\ account.attempts = MaxAttempts /\ guesses = MaxAttempts + 1
                /\ account.life = 0
      BY <3>2, <3>3 DEF CredInv, GuessesOK
    <3>5. /\ guesses' <= MaxAttempts + 1 /\ guesses' <= account.attempts + 1
          /\ ~right \/ guesses' <= account.attempts
      BY <1>1, <2>1, <3>3, <3>4, TimesAssumption
    <3>6. work'[c].attempts = account.attempts /\ work'[c].right = right
      BY <2>2, <2>3
    <3> QED BY <1>1, <3>2, <3>3, <3>4, <3>5, <3>6 DEF GuessesOK
  <2> QED BY <2>4, <2>5, <2>6, <2>7, <2>8 DEF CredInv
<1> QED BY <1>2, <1>3

LEMMA WriteGuessInv ==
    ASSUME CredInv, NEW c \in Clients, WriteGuess(c)
    PROVE  CredInv'
<1>1. /\ work[c].pc = "write" /\ work[c].op = "guess" /\ work[c] \in Work /\ account \in Document
      /\ work' = [work EXCEPT ![c] = Free]
      /\ UNCHANGED <<mfa, limits, calmly, guesses, mails>> /\ guesses \in Nat
  BY DEF WriteGuess, Release, CredInv, CredentialsTypeOK
<1>2. /\ work' \in [Clients -> Work] /\ work'[c] = Free
      /\ \A d \in Clients : d # c => work'[d] = work[d]
  BY <1>1, FreeIsIdle, OneChanges
<1>3. MaxAttempts \in Nat /\ MaxAttempts # 0 /\ BlockTime \in Nat /\ CodeLife \in Nat
      /\ CodeLife < 2 * BlockTime
  BY TimesAssumption
<1>4. work[c].attempts \in 0..MaxAttempts /\ work[c].right \in BOOLEAN
  BY <1>1 DEF Work
<1> DEFINE a == work[c].attempts
<1>5. \/ work[c].right /\ account' = [account EXCEPT !.state = "verified", !.attempts = 0]
      \/ /\ ~work[c].right /\ a + 1 < MaxAttempts
         /\ account' = [account EXCEPT !.attempts = a + 1]
      \/ /\ ~work[c].right /\ ~(a + 1 < MaxAttempts)
         /\ account' = [account EXCEPT !.attempts = MaxAttempts, !.block = BlockTime]
  BY DEF WriteGuess
<1>6. /\ account' \in Document /\ account'.sent = account.sent /\ account'.life = account.life
      /\ account'.state # "none" \/ account'.state = account.state
      /\ \/ work[c].right /\ account'.state = "verified"
         \/ /\ ~work[c].right /\ a + 1 < MaxAttempts /\ account'.attempts = a + 1
            /\ account'.state = account.state /\ account'.block = account.block
         \/ /\ ~work[c].right /\ a + 1 >= MaxAttempts /\ account'.attempts = MaxAttempts
            /\ account'.state = account.state /\ account'.block = BlockTime
  <2>1. CASE work[c].right /\ account' = [account EXCEPT !.state = "verified", !.attempts = 0]
    <3>1. 0 \in 0..MaxAttempts
      BY <1>3
    <3>2. account' \in Document
      BY <1>1, <2>1, <3>1 DEF Document
    <3>3. /\ account'.sent = account.sent /\ account'.life = account.life
          /\ account'.state = "verified"
      BY <1>1, <2>1 DEF Document
    <3> QED BY <2>1, <3>2, <3>3
  <2>2. CASE /\ ~work[c].right /\ a + 1 < MaxAttempts
             /\ account' = [account EXCEPT !.attempts = a + 1]
    <3>1. a + 1 \in 0..MaxAttempts
      BY <1>3, <1>4, <2>2
    <3> QED BY <1>1, <2>2, <3>1 DEF Document
  <2>3. CASE /\ ~work[c].right /\ ~(a + 1 < MaxAttempts)
             /\ account' = [account EXCEPT !.attempts = MaxAttempts, !.block = BlockTime]
    <3>1. MaxAttempts \in 0..MaxAttempts /\ BlockTime \in 0..BlockTime /\ a + 1 >= MaxAttempts
      BY <1>3, <1>4, <2>3
    <3> QED BY <1>1, <2>3, <3>1 DEF Document
  <2> QED BY <1>5, <2>1, <2>2, <2>3
<1>7. CredentialsTypeOK'
  BY <1>1, <1>2, <1>6 DEF CredInv, CredentialsTypeOK
<1>8. SavesOK'
  BY <1>2, SavesKept, FreeIsIdle DEF CredInv
<1>9. OneRequest'
  BY <1>1, <1>2, GoesOnAlone, FreeIsIdle DEF CredInv
<1>10. MailsOK'
  BY <1>1, <1>2, <1>6, MailsKept, FreeIsIdle DEF CredInv
<1>11. GuessesOK'
  <2> SUFFICES ASSUME calmly
               PROVE  /\ guesses <= MaxAttempts + 1
                      /\ account'.state # "verified" =>
                           /\ \A d \in Clients : ~Guessing(d)'
                           /\ account'.attempts = MaxAttempts =>
                                account.life = 0 \/ account.life + BlockTime <= account'.block + CodeLife
                           /\ \/ guesses <= account'.attempts
                              \/ /\ account'.attempts = MaxAttempts /\ guesses = MaxAttempts + 1
                                 /\ account.life = 0 \/ account.life < account'.block
    BY <1>1, <1>6 DEF GuessesOK
  <2>1. \A d \in Clients : d # c => work'[d] = Free /\ work[d] = Free
    BY <1>1, <1>2, OthersIdle, FreeIsIdle DEF CredInv
  <2>2. \A d \in Clients : ~Guessing(d)' /\ (Guessing(d) <=> d = c)
    BY <1>1, <1>2, <2>1, FreeIsIdle DEF Guessing
  <2>3. guesses <= MaxAttempts + 1
    BY DEF CredInv, GuessesOK
  <2>4. ASSUME account'.state # "verified", ~work[c].right, account.state # "verified"
        PROVE  /\ a = account.attempts /\ account.block = 0 /\ guesses <= account.attempts + 1
               /\ account.attempts = MaxAttempts =>
                    account.life = 0 \/ account.life + BlockTime <= CodeLife
    <3>1. /\ work[c].attempts = account.attempts /\ account.block = 0
          /\ account.attempts = MaxAttempts =>
               account.life = 0 \/ account.life + BlockTime <= account.block + CodeLife
          /\ \/ guesses <= account.attempts
             \/ guesses <= account.attempts + 1
             \/ account.attempts = MaxAttempts /\ guesses = MaxAttempts + 1
      BY <2>2, <2>4 DEF CredInv, GuessesOK
    <3> QED BY <3>1, <1>1, <1>3, <1>4
  <2>5. account.life \in 0..CodeLife
    BY <1>1 DEF Document
  <2>6. CASE work[c].right
    BY <1>6, <2>3, <2>6
  <2>7. CASE ~work[c].right /\ account'.state # "verified"
    <3>1. /\ a = account.attempts /\ account.block = 0 /\ guesses <= account.attempts + 1
          /\ account.attempts = MaxAttempts =>
               account.life = 0 \/ account.life + BlockTime <= CodeLife
      BY <1>6, <2>4, <2>7
    <3>2. CASE a + 1 < MaxAttempts
      BY <1>3, <1>4, <1>6, <2>2, <2>3, <2>7, <3>1, <3>2
    <3>3. CASE a + 1 >= MaxAttempts
      <4>1. account'.attempts = MaxAttempts /\ account'.block = BlockTime
        BY <1>3, <1>4, <1>6, <2>7, <3>3
      <4>2. CASE a = MaxAttempts
        BY <1>1, <1>3, <1>4, <2>2, <2>3, <2>5, <3>1, <4>1, <4>2
      <4>3. CASE a # MaxAttempts
        BY <1>1, <1>3, <1>4, <2>2, <2>3, <2>5, <3>1, <3>3, <4>1, <4>3
      <4> QED BY <4>2, <4>3
    <3> QED BY <3>2, <3>3, <1>3, <1>4
  <2>8. CASE account'.state = "verified"
    BY <2>3, <2>8
  <2> QED BY <2>6, <2>7, <2>8
<1> QED BY <1>7, <1>8, <1>9, <1>10, <1>11 DEF CredInv

LEMMA CredNextInv == CredInv /\ [CredentialsNext]_credentials => CredInv'
<1> SUFFICES ASSUME CredInv, [CredentialsNext]_credentials PROVE CredInv'
  OBVIOUS
<1>1. CASE UNCHANGED credentials
  BY <1>1 DEF credentials, CredInv, CredentialsTypeOK, SavesOK, OneRequest, MailsOK, GuessesOK,
              Mailing, Guessing
<1>2. CASE CredentialsNext
  <2>1. CASE Tick
    BY <2>1, TickInv
  <2>2. CASE Restart
    BY <2>2, RestartInv
  <2>3. CASE \E vouched \in BOOLEAN : OauthLogin(vouched)
    BY <2>3, OauthLoginInv
  <2>4. ASSUME NEW c \in Clients,
               \/ Register(c) \/ FindForMail(c) \/ SendMail(c) \/ StoreMail(c)
               \/ WriteGuess(c) \/ StartMfaSetup(c) \/ SaveMfa(c) \/ GiveUp(c)
        PROVE  CredInv'
    BY <2>4, RegisterInv, FindForMailInv, SendMailInv, StoreMailInv, WriteGuessInv,
       StartMfaSetupInv, SaveMfaInv, GiveUpInv
  <2>5. ASSUME NEW c \in Clients, NEW op \in {"resend", "forgot"}, AskForMail(c, op)
        PROVE  CredInv'
    BY <2>5, AskForMailInv
  <2>6. ASSUME NEW c \in Clients, NEW op \in {"guess"} \cup MfaOps, Ask(c, op)
        PROVE  CredInv'
    BY <2>6, AskInv
  <2>7. ASSUME NEW c \in Clients, NEW yes \in BOOLEAN,
               FindForGuess(c, yes) \/ EnableMfa(c, yes) \/ DisableMfa(c, yes)
        PROVE  CredInv'
    BY <2>7, FindForGuessInv, EnableMfaInv, DisableMfaInv
  <2> QED BY <1>2, <2>1, <2>2, <2>3, <2>4, <2>5, <2>6, <2>7 DEF CredentialsNext
<1> QED BY <1>1, <1>2

(***************************************************************************)
(* The inductive invariant of what proves who a client is.                 *)
(***************************************************************************)
THEOREM CredentialsInvariance == CredentialsSpec => []CredInv
  BY CredInitInv, CredNextInv, PTL DEF CredentialsSpec

(***************************************************************************)
(* Type correctness of the account, its limits and the requests about it.  *)
(***************************************************************************)
THEOREM CredentialsTypes == CredentialsSpec => []CredentialsTypeOK
<1>1. CredInv => CredentialsTypeOK
  BY DEF CredInv
<1> QED BY <1>1, CredentialsInvariance, PTL

(***************************************************************************)
(* While nothing overlaps or fails, a code can be guessed at as often as   *)
(* attempts are allowed, and once more after the block.                    *)
(***************************************************************************)
THEOREM GuessesAreBounded == CredentialsSpec => []GuessesBounded
<1>1. CredInv => GuessesBounded
  BY DEF CredInv, GuessesOK, GuessesBounded
<1> QED BY <1>1, CredentialsInvariance, PTL

(***************************************************************************)
(* While nothing overlaps or fails, a window's mails stay within their     *)
(* limit, although restarts forget the limit in memory.                    *)
(***************************************************************************)
THEOREM MailsAreBounded == CredentialsSpec => []MailsBounded
<1>1. CredInv => MailsBounded
  BY DEF CredInv, MailsOK, MailsBounded
<1> QED BY <1>1, CredentialsInvariance, PTL

(***************************************************************************)
(* However the handlers of MFA overlap and fail, an account that asks for  *)
(* codes has a secret, or a setup in progress.                             *)
(***************************************************************************)
THEOREM MfaCanAlwaysBePassed == CredentialsSpec => []MfaCanBePassed
<1> DEFINE Inv == MfaCanBePassed /\ CredInv
<1>1. CredentialsInit => MfaCanBePassed
  BY DEF CredentialsInit, MfaCanBePassed, NoMfa
<1>2. CredInv /\ MfaCanBePassed /\ [CredentialsNext]_credentials => MfaCanBePassed'
  <2> SUFFICES ASSUME CredInv, MfaCanBePassed, [CredentialsNext]_credentials
               PROVE  MfaCanBePassed'
    OBVIOUS
  <2>1. mfa' = mfa \/ \E c \in Clients : mfa' = work[c].mfa
    BY DEF credentials, CredentialsNext, Register, FindForMail, SendMail, StoreMail, WriteGuess,
           StartMfaSetup, SaveMfa, GiveUp, AskForMail, Ask, FindForGuess, EnableMfa, DisableMfa,
           OauthLogin, Tick, Restart
  <2> QED BY <2>1 DEF CredInv, SavesOK, MfaCanBePassed
<1> QED BY <1>1, <1>2, CredentialsInvariance, PTL DEF CredentialsSpec

=============================================================================
