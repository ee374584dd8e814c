------------------------------ MODULE Sessions ------------------------------
(***************************************************************************)
(* auth.service.ts: the sessions of one e-mail account.  Signing in stores *)
(* a refresh token; refreshing trades a token for its successor; signing   *)
(* out and resetting the password revoke all tokens of the account.  An    *)
(* administrator blocks and unblocks the account at any time               *)
(* (users.service.ts).                                                     *)
(*                                                                         *)
(* Every await is a step of its own, so what a request read may be out of  *)
(* date when it uses it.  A request stores at most one row of              *)
(* refresh_tokens, and the row is named after it.  A request that is       *)
(* refused before its first write changes nothing and is not a step: wrong *)
(* credentials or MFA code, a rate limit, an unverified address, an        *)
(* expired or forged token.  Passwords are numbered in the order in which  *)
(* they were set, from 1 on; the account of password 0 does not exist yet. *)
(*                                                                         *)
(* Observers, which no step reads: "epoch" counts the revocations of all   *)
(* tokens; "upto" of a session is the last revocation it got past, either  *)
(* by starting after it or by having a request in progress when it ran     *)
(* ("crossed"); "finished" is the newest password whose reset has revoked  *)
(* the tokens; "served" are the requests issued a token while blocked.     *)
(***************************************************************************)
EXTENDS Naturals, FiniteSets

CONSTANTS Requests,   \* the requests clients make, each used once
          None,       \* no token
          Together    \* requests in progress at the same time

ASSUME SessionsAssumption == IsFiniteSet(Requests) /\ None \notin Requests /\ Together \in Nat

VARIABLES user,           \* users: password and isBlocked (isActive is its opposite)
          refreshTokens,  \* refresh_tokens, by the request that created the row
          calls,          \* where each request is and what it has read
          epoch, finished, served

vars == <<user, refreshTokens, calls, epoch, finished, served>>

(***************************************************************************)
(* The chain of tokens that began with one sign-in.                        *)
(***************************************************************************)
Chain == [password : Nat, upto : Nat, crossed : BOOLEAN]
NoChain == [password |-> 0, upto |-> 0, crossed |-> FALSE]

Carrying == {"rotate", "findUser", "sign"}
Steps == Carrying \cup {"answer", "hash", "revokeAll"}

Call == [pc : {"idle", "done", "over"} \cup Steps, parent : Requests \cup {None}, chain : Chain]
Row == [state : {"none", "live", "revoked"}, parent : Requests \cup {None}, chain : Chain]

TypeOK == /\ user \in [password : Nat, isBlocked : BOOLEAN]
          /\ refreshTokens \in [Requests -> Row]
          /\ calls \in [Requests -> Call]
          /\ epoch \in Nat /\ finished \in Nat /\ served \subseteq Requests

Init == /\ user = [password |-> 0, isBlocked |-> FALSE]
        /\ refreshTokens = [r \in Requests |-> [state |-> "none", parent |-> None, chain |-> NoChain]]
        /\ calls = [r \in Requests |-> [pc |-> "idle", parent |-> None, chain |-> NoChain]]
        /\ epoch = 0 /\ finished = 0 /\ served = {}

InProgress == {r \in Requests : calls[r].pc \in Steps}

Start(r, pc, parent, chain) ==
  /\ calls[r].pc = "idle"
  /\ Cardinality(InProgress) < Together
  /\ calls' = [calls EXCEPT ![r] = [pc |-> pc, parent |-> parent, chain |-> chain]]

GoTo(r, pc) == calls' = [calls EXCEPT ![r].pc = pc]

(* A request that answers with its token is "done", any other is "over". *)
Leave(r, pc) == calls' = [calls EXCEPT ![r] = [pc |-> pc, parent |-> None, chain |-> NoChain]]

Revoked(row) == [state |-> "revoked", parent |-> row.parent, chain |-> NoChain]

-----------------------------------------------------------------------------
(***************************************************************************)
(* login: the user is read, the password compared with the hash that was   *)
(* read, and the account found active; then lastLoginAt is written and     *)
(* generateTokens runs.  The client tries a password set earlier.          *)
(***************************************************************************)
\* Mutant of Login: the password is not compared.
LoginUnasked(r, password) ==
  /\ ~user.isBlocked
  /\ Start(r, "sign", None, [password |-> password, upto |-> epoch, crossed |-> FALSE])
  /\ UNCHANGED <<user, refreshTokens, epoch, finished, served>>

Login(r, password) ==
  /\ password = user.password
  /\ ~user.isBlocked
  /\ Start(r, "sign", None, [password |-> password, upto |-> epoch, crossed |-> FALSE])
  /\ UNCHANGED <<user, refreshTokens, epoch, finished, served>>

(***************************************************************************)
(* oauthLogin finds the account by its address and asks for no password;   *)
(* its session is counted with the password of the time.  An account that  *)
(* it creates has none.  register creates the account (addresses are       *)
(* unique) and signs in.                                                   *)
(***************************************************************************)
OauthSignIn(r) ==
  /\ user.password > 0 /\ ~user.isBlocked
  /\ Start(r, "sign", None, [password |-> user.password, upto |-> epoch, crossed |-> FALSE])
  /\ UNCHANGED <<user, refreshTokens, epoch, finished, served>>

SignUp(r) ==
  /\ user.password = 0
  /\ user' = [user EXCEPT !.password = 1]
  /\ Start(r, "sign", None, [password |-> 1, upto |-> epoch, crossed |-> FALSE])
  /\ UNCHANGED <<refreshTokens, epoch, finished, served>>

(***************************************************************************)
(* refreshToken: the row of the presented token is found not revoked, then *)
(* revoked whatever it has become, then the user is read.                  *)
(***************************************************************************)
\* Mutant of RefreshFind: record.revoked is not looked at.
RefreshFindAny(r, t) ==
  /\ calls[t].pc = "done"
  /\ refreshTokens[t].state # "none"
  /\ Start(r, "rotate", t, refreshTokens[t].chain)
  /\ UNCHANGED <<user, refreshTokens, epoch, finished, served>>

RefreshFind(r, t) ==
  /\ calls[t].pc = "done"
  /\ refreshTokens[t].state = "live"
  /\ Start(r, "rotate", t, refreshTokens[t].chain)
  /\ UNCHANGED <<user, refreshTokens, epoch, finished, served>>

\* Mutant of RefreshRotate: the presented token is not revoked.
RefreshKeep(r) ==
  /\ calls[r].pc = "rotate"
  /\ GoTo(r, "findUser")
  /\ UNCHANGED <<user, refreshTokens, epoch, finished, served>>

RefreshRotate(r) ==
  /\ calls[r].pc = "rotate"
  /\ refreshTokens' = [refreshTokens EXCEPT ![calls[r].parent] = Revoked(@)]
  /\ GoTo(r, "findUser")
  /\ UNCHANGED <<user, epoch, finished, served>>

\* Mutant of RefreshUser: a blocked user is served as well.
RefreshAnyUser(r) ==
  /\ calls[r].pc = "findUser"
  /\ GoTo(r, "sign")
  /\ UNCHANGED <<user, refreshTokens, epoch, finished, served>>

RefreshUser(r) ==
  /\ calls[r].pc = "findUser"
  /\ IF user.isBlocked THEN Leave(r, "over") ELSE GoTo(r, "sign")
  /\ UNCHANGED <<user, refreshTokens, epoch, finished, served>>

(***************************************************************************)
(* generateTokens: the row is stored after signing; login and refreshToken *)
(* still await the audit log or the permissions before they answer.        *)
(***************************************************************************)
GenerateTokens(r) ==
  /\ calls[r].pc = "sign"
  /\ refreshTokens' = [refreshTokens EXCEPT ![r] =
       [state |-> "live", parent |-> calls[r].parent, chain |-> calls[r].chain]]
  /\ served' = IF user.isBlocked THEN served \cup {r} ELSE served
  /\ Leave(r, "answer")
  /\ UNCHANGED <<user, epoch, finished>>

Answer(r) ==
  /\ calls[r].pc = "answer"
  /\ Leave(r, "done")
  /\ UNCHANGED <<user, refreshTokens, epoch, finished, served>>

(***************************************************************************)
(* logout (behind JwtAuthGuard, which reads the user) and resetPassword    *)
(* (whose link stays valid until it expires) end in                        *)
(* revokeAllRefreshTokensForUser.                                          *)
(***************************************************************************)
Logout(r) ==
  /\ user.password > 0 /\ ~user.isBlocked
  /\ Start(r, "revokeAll", None, NoChain)
  /\ UNCHANGED <<user, refreshTokens, epoch, finished, served>>

ResetFind(r) ==
  /\ user.password > 0 /\ ~user.isBlocked
  /\ Start(r, "hash", None, NoChain)
  /\ UNCHANGED <<user, refreshTokens, epoch, finished, served>>

ResetSetHash(r) ==
  /\ calls[r].pc = "hash"
  /\ user' = [user EXCEPT !.password = @ + 1]
  /\ calls' = [calls EXCEPT ![r] = [pc |-> "revokeAll", parent |-> None,
                                    chain |-> [NoChain EXCEPT !.password = user.password + 1]]]
  /\ UNCHANGED <<refreshTokens, epoch, finished, served>>

Cross(c) == [pc |-> c.pc, parent |-> c.parent,
             chain |-> [password |-> c.chain.password, upto |-> c.chain.upto + 1, crossed |-> TRUE]]

\* Mutant of RevokeAll: updateOne in place of updateMany.
RevokeOne(r) ==
  /\ calls[r].pc = "revokeAll"
  /\ \E t \in Requests :
       /\ refreshTokens[t].state = "live"
       /\ refreshTokens' = [refreshTokens EXCEPT ![t] = Revoked(@)]
  /\ calls' = [q \in Requests |->
       IF q = r THEN [pc |-> "over", parent |-> None, chain |-> NoChain]
       ELSE IF calls[q].pc \in Carrying THEN Cross(calls[q]) ELSE calls[q]]
  /\ epoch' = epoch + 1
  /\ finished' = IF calls[r].chain.password > finished THEN calls[r].chain.password ELSE finished
  /\ UNCHANGED <<user, served>>

RevokeAll(r) ==
  /\ calls[r].pc = "revokeAll"
  /\ refreshTokens' = [t \in Requests |->
       IF refreshTokens[t].state = "live" THEN Revoked(refreshTokens[t]) ELSE refreshTokens[t]]
  /\ calls' = [q \in Requests |->
       IF q = r THEN [pc |-> "over", parent |-> None, chain |-> NoChain]
       ELSE IF calls[q].pc \in Carrying THEN Cross(calls[q]) ELSE calls[q]]
  /\ epoch' = epoch + 1
  /\ finished' = IF calls[r].chain.password > finished THEN calls[r].chain.password ELSE finished
  /\ UNCHANGED <<user, served>>

(***************************************************************************)
(* blockUser writes both flags by one update and leaves the tokens.        *)
(***************************************************************************)
BlockUser ==
  /\ user.password > 0
  /\ user' = [user EXCEPT !.isBlocked = ~@]
  /\ served' = {}
  /\ UNCHANGED <<refreshTokens, calls, epoch, finished>>

(***************************************************************************)
(* A call throws or the process ends: the client gets no token.            *)
(***************************************************************************)
Throw(r) ==
  /\ calls[r].pc \in Steps
  /\ Leave(r, "over")
  /\ UNCHANGED <<user, refreshTokens, epoch, finished, served>>

Request(r) ==
  \/ \E password \in 1..user.password : Login(r, password)
  \/ OauthSignIn(r)
  \/ SignUp(r)
  \/ \E t \in Requests : RefreshFind(r, t)
  \/ RefreshRotate(r)
  \/ RefreshUser(r)
  \/ GenerateTokens(r)
  \/ Answer(r)
  \/ Logout(r)
  \/ ResetFind(r)
  \/ ResetSetHash(r)
  \/ RevokeAll(r)
  \/ Throw(r)

Next == BlockUser \/ \E r \in Requests : Request(r)

Spec == Init /\ [][Next]_vars

-----------------------------------------------------------------------------
Successors(t) == {s \in Requests : refreshTokens[s].parent = t}

(***************************************************************************)
(* Rotation: a token that has a successor is no longer accepted, whatever  *)
(* requests ran between its revocation and the successor's creation.       *)
(***************************************************************************)
RotatedFirst == \A s \in Requests : refreshTokens[s].parent # None =>
                  refreshTokens[refreshTokens[s].parent].state = "revoked"

(***************************************************************************)
(* A token is found, then revoked without a second look: requests that     *)
(* overlap get a successor each, and no more of them than overlap.         *)
(***************************************************************************)
SuccessorsBounded == \A t \in Requests : Cardinality(Successors(t)) <= Together

(***************************************************************************)
(* Signing out or resetting ends every session that exists: one that is    *)
(* accepted afterwards began later, or had a request in progress at each   *)
(* revocation it outlived.                                                 *)
(***************************************************************************)
SessionsEnd == \A t \in Requests : refreshTokens[t].state = "live" =>
                 refreshTokens[t].chain.upto = epoch

(***************************************************************************)
(* After a reset has finished, no session that signed in with an older     *)
(* password is accepted, unless one of its requests was in progress when   *)
(* tokens were revoked.  It depends on the new hash being written before   *)
(* the revocation.                                                         *)
(***************************************************************************)
OldPasswordsEnd == \A t \in Requests :
                     /\ refreshTokens[t].state = "live"
                     /\ refreshTokens[t].chain.password < finished
                     => refreshTokens[t].chain.crossed

(***************************************************************************)
(* Blocking leaves tokens as they are, and still a blocked account is      *)
(* issued no more of them than requests had passed the check before.       *)
(***************************************************************************)
BlockedIsEnd == Cardinality(served) <= Together

-----------------------------------------------------------------------------
(***************************************************************************)
(* The inductive invariant.  A request that carries a session passed every *)
(* revocation; what it refreshes is revoked before it looks at the user;   *)
(* its own row does not exist before it signs; and the requests that hold  *)
(* or succeed a revoked token, like those about to be issued a token for a *)
(* blocked account, only become fewer.                                     *)
(***************************************************************************)
Heirs(t) == Successors(t) \cup {r \in Requests : calls[r].pc \in Carrying /\ calls[r].parent = t}
Signing == {r \in Requests : calls[r].pc = "sign"}

BoundOK == Cardinality(InProgress) <= Together

ChainsOK == \A r \in Requests : calls[r].pc \in Carrying =>
              /\ calls[r].chain.upto = epoch
              /\ calls[r].chain.password < finished => calls[r].chain.crossed

PasswordsOK == /\ finished <= user.password
               /\ user.password = 0 => ~user.isBlocked
               /\ \A r \in Requests : calls[r].pc = "revokeAll" =>
                    calls[r].chain.password <= user.password

ParentsOK == \A r \in Requests : calls[r].parent # None =>
               /\ calls[r].pc \in Carrying
               /\ refreshTokens[calls[r].parent].state # "none"
               /\ calls[r].pc # "rotate" => refreshTokens[calls[r].parent].state = "revoked"

RotateOK == \A r \in Requests : calls[r].pc = "rotate" => calls[r].parent # None

FreshOK == \A r \in Requests : calls[r].pc \notin {"answer", "done", "over"} =>
             refreshTokens[r].state = "none" /\ refreshTokens[r].parent = None

HeirsOK == \A t \in Requests : Cardinality(Heirs(t)) <= Together

ServedOK == IF user.isBlocked THEN Cardinality(served \cup Signing) <= Together
                              ELSE served = {}

IInv == /\ TypeOK /\ BoundOK
        /\ ChainsOK /\ PasswordsOK /\ SessionsEnd /\ OldPasswordsEnd
        /\ ParentsOK /\ RotateOK /\ FreshOK /\ RotatedFirst
        /\ HeirsOK /\ ServedOK
=============================================================================
