------------------------- MODULE VerificationProofs -------------------------
(***************************************************************************)
(* Proofs about the verification of users, for any number of users, jobs   *)
(* and requests.                                                           *)
(***************************************************************************)
EXTENDS Verification, TLAPS

\* A request is about one user, and holds a profile from its first write on.
CallsOK ==
    \A c \in Calls :
        /\ \A u, v \in call[c].of : u = v
        /\ call[c].pc \in {"write", "save", "user", "mirror"} =>
             call[c].doc \in Row /\ \A u \in call[c].of : profile[u] \in Row
        /\ call[c].op \in OwnOps \/ call[c].pc = "mirror" => call[c].old \in KYCStatus
        /\ call[c].op = "override" => call[c].say \in KycApplicationStatus
        /\ call[c].op \in {"submit", "webhook"} => call[c].say \in ProviderStatus \ {"none"}
        /\ call[c].pc = "save" => call[c].op \in {"submit"} \cup ReviewOps
        /\ call[c].op = "none" => call[c].pc = "idle"

\* Does the profile, or the copy of it, speak of an approval?
Speaks(d) == d \in Row /\ (d.status = "APPROVED" \/ d.provider = "APPROVED")

\* Every trace of an approval, in the user, in the profile, and in what a request
\* has read of them, is of one that was given.
TracesOK ==
    /\ \A u \in Users : user[u].kyc = "VERIFIED" \/ Speaks(profile[u]) => u \in cleared
    /\ \A c \in Calls : \A u \in call[c].of :
         call[c].old = "VERIFIED" \/ Speaks(call[c].doc) => u \in cleared

IInv == TypeOK /\ CallsOK /\ TracesOK

LEMMA NoProfileIsNoRow == NoProfile \notin Row
<1>1. \A d \in Row : d.status \in KycApplicationStatus
  BY DEF Row
<1>2. NoProfile.status = "none" /\ "none" \notin KycApplicationStatus
  BY DEF NoProfile, KycApplicationStatus
<1> QED BY <1>1, <1>2

LEMMA NoCallType ==
    /\ NoCall \in CallRow /\ NoCall.of = {} /\ NoCall.pc = "idle" /\ NoCall.op = "none"
  BY DEF NoCall, CallRow

LEMMA InitInv == Init => IInv
<1> SUFFICES ASSUME Init PROVE IInv
  OBVIOUS
<1>1. UserTypeOK
  BY DEF Init, UserInit, UserTypeOK, UserRow, JobRow, SessionRow, KYCStatus, SmileStatus
<1>2. KycTypeOK /\ calm \in BOOLEAN
  BY NoCallType DEF Init, KycInit, KycTypeOK
<1>3. \A c \in Calls : call[c] = NoCall
  BY DEF Init, KycInit
<1>4. CallsOK
  BY <1>3, NoCallType DEF CallsOK, OwnOps
<1>5. TracesOK
  BY <1>3, NoCallType, NoProfileIsNoRow DEF Init, UserInit, KycInit, TracesOK, Speaks
<1> QED BY <1>1, <1>2, <1>4, <1>5 DEF IInv, TypeOK

-----------------------------------------------------------------------------
\* UsersService.

LEMMA ToldType ==
    ASSUME job \in [Jobs -> JobRow], NEW u \in Users, NEW j \in Jobs, Told(u, j)
    PROVE  /\ job' \in [Jobs -> JobRow]
           /\ \A i \in Jobs : job'[i].told \subseteq job[i].told \cup (IF i = j THEN {u} ELSE {})
           /\ Early(j) => \A i \in Jobs : job'[i].told = job[i].told
<1> DEFINE t == IF Early(j) THEN job[j].told ELSE job[j].told \cup {u}
           r == [job[j] EXCEPT !.told = t]
<1>1. t \in SUBSET Users /\ t \subseteq job[j].told \cup {u} /\ (Early(j) => t = job[j].told)
  BY DEF JobRow
<1>2. r \in JobRow /\ r.told = t
  <2> HIDE DEF t
  <2> QED BY <1>1 DEF JobRow
<1>3. job' = [job EXCEPT ![j] = r]
  BY DEF Told
<1> HIDE DEF t, r
<1> QED BY <1>1, <1>2, <1>3

LEMMA StartedType ==
    ASSUME NEW r \in UserRow, NEW j \in Jobs \cup {NoJob}
    PROVE  LET started == [r EXCEPT !.kyc = "PENDING", !.session = j, !.smile = "IN_PROGRESS"]
           IN  started \in UserRow /\ started.kyc = "PENDING"
<1>1. "PENDING" \in KYCStatus /\ "IN_PROGRESS" \in SmileStatus
  BY DEF KYCStatus, SmileStatus
<1> QED BY <1>1 DEF UserRow

\* A step that keeps the profiles and the requests, and makes nobody verified who
\* is not cleared.
LEMMA UserStepInv ==
    ASSUME IInv, UserTypeOK', calm' \in BOOLEAN, UNCHANGED <<profile, call>>,
           cleared \subseteq cleared',
           \A u \in Users : user'[u].kyc = "VERIFIED" => user[u].kyc = "VERIFIED" \/ u \in cleared'
    PROVE  IInv'
  BY DEF IInv, TypeOK, KycTypeOK, CallsOK, TracesOK

\* One user's document is written with a status that is cleared when it is
\* VERIFIED.
LEMMA StandingInv ==
    ASSUME IInv, NEW u \in Users, NEW s \in KYCStatus, NEW row \in UserRow, row.kyc = s,
           user' = [user EXCEPT ![u] = row], Standing(u, s),
           job' \in [Jobs -> JobRow],
           sess' \in [Sessions -> SessionRow],
           calm' \in BOOLEAN, UNCHANGED <<profile, call>>
    PROVE  IInv'
<1>1. /\ user \in [Users -> UserRow] /\ cleared \subseteq Users
      /\ author \in [Users -> {"users", "kyc"}]
  BY DEF IInv, TypeOK, UserTypeOK
<1>2. UserTypeOK'
  BY <1>1 DEF UserTypeOK, Standing
<1>3. cleared \subseteq cleared'
  BY DEF Standing
<1>4. \A v \in Users : user'[v].kyc = "VERIFIED" => user[v].kyc = "VERIFIED" \/ v \in cleared'
  BY <1>1 DEF Standing
<1> QED BY <1>2, <1>3, <1>4, UserStepInv

LEMMA UserNextInv ==
    ASSUME IInv, UserNext, Begins, UNCHANGED <<profile, call>>
    PROVE  IInv'
<1>0. /\ user \in [Users -> UserRow] /\ cleared \subseteq Users
      /\ author \in [Users -> {"users", "kyc"}]
      /\ job \in [Jobs -> JobRow]
      /\ sess \in [Sessions -> SessionRow]
  BY DEF IInv, TypeOK, UserTypeOK
<1>00. calm' \in BOOLEAN
  BY DEF Begins, IInv, TypeOK
<1>1. ASSUME NEW u \in Users, NEW s \in KYCStatus, user' = [user EXCEPT ![u].kyc = s],
             Standing(u, s), UNCHANGED <<job, sess>>
      PROVE  IInv'
  <2> DEFINE row == [kyc |-> s, session |-> user[u].session, smile |-> user[u].smile]
  <2>1. user[u] \in UserRow
    BY <1>0
  <2>2. row \in UserRow /\ row.kyc = s /\ row = [user[u] EXCEPT !.kyc = s]
    BY <2>1 DEF UserRow
  <2>3. user' = [user EXCEPT ![u] = row]
    BY <1>1, <2>2
  <2> HIDE DEF row
  <2> QED BY <1>0, <1>00, <1>1, <2>2, <2>3, StandingInv
<1>2. ASSUME NEW u \in Users, SubmitKyc(u) PROVE IInv'
  BY <1>1, <1>2 DEF SubmitKyc, KYCStatus
<1>3. ASSUME NEW u \in Users, NEW s \in DecideTo, UpdateKycStatus(u, s) PROVE IInv'
  BY <1>1, <1>3, VerificationBounds DEF UpdateKycStatus
<1>4. ASSUME NEW s \in Sessions, NEW u \in Users, NEW j \in Jobs, PostJob(s, u, j) PROVE IInv'
  <2>1. UserTypeOK'
    BY <1>0, <1>4 DEF PostJob, JobRow, SessionRow, UserTypeOK
  <2> QED BY <1>00, <1>4, <2>1, UserStepInv DEF PostJob
<1>5. ASSUME NEW j \in Jobs, NEW u \in Users, NEW result \in {"VERIFIED", "REJECTED"},
             HandleSmileWebhook(j, u, result)
      PROVE  IInv'
  <2> DEFINE row == [kyc |-> result, session |-> j, smile |-> result]
  <2>1. result \in KYCStatus /\ result \in SmileStatus
    BY DEF KYCStatus, SmileStatus
  <2>2. row \in UserRow /\ row.kyc = result
    BY <2>1 DEF UserRow
  <2>3. user' = [user EXCEPT ![u] = row]
    BY <1>5 DEF HandleSmileWebhook
  <2> HIDE DEF row
  <2>4. job' \in [Jobs -> JobRow] /\ sess' = sess /\ Standing(u, result)
    BY <1>0, <1>5, ToldType DEF HandleSmileWebhook
  <2> QED BY <1>0, <1>00, <2>1, <2>2, <2>3, <2>4, StandingInv
<1> QED BY <1>2, <1>3, <1>4, <1>5 DEF UserNext

LEMMA SessionInv ==
    ASSUME IInv, UNCHANGED <<profile, call>>, calm' \in BOOLEAN,
           \E s \in Sessions : StartKycSession(s) \/ SessionThrows(s)
    PROVE  IInv'
<1>0. /\ user \in [Users -> UserRow] /\ cleared \subseteq Users
      /\ author \in [Users -> {"users", "kyc"}]
      /\ job \in [Jobs -> JobRow]
      /\ sess \in [Sessions -> SessionRow]
  BY DEF IInv, TypeOK, UserTypeOK
<1>1. ASSUME NEW s \in Sessions, StartKycSession(s) PROVE IInv'
  <2>1. PICK u \in sess[s].of :
            /\ user' = [user EXCEPT ![u].kyc = "PENDING", ![u].session = sess[s].id,
                                    ![u].smile = "IN_PROGRESS"]
            /\ Standing(u, "PENDING")
    BY <1>1 DEF StartKycSession
  <2> DEFINE row == [user[u] EXCEPT !.kyc = "PENDING", !.session = sess[s].id,
                                    !.smile = "IN_PROGRESS"]
  <2>2. u \in Users /\ sess[s].id \in Jobs \cup {NoJob} /\ user[u] \in UserRow
    BY <1>0 DEF SessionRow
  <2>3. row \in UserRow /\ row.kyc = "PENDING" /\ "PENDING" \in KYCStatus
    BY <2>2, StartedType DEF KYCStatus
  <2>4. user' = [user EXCEPT ![u] = row]
    BY <2>1
  <2> HIDE DEF row
  <2>5. [sess[s] EXCEPT !.pc = "done"] \in SessionRow
    BY <1>0 DEF SessionRow
  <2>6. sess' = [sess EXCEPT ![s] = [sess[s] EXCEPT !.pc = "done"]] /\ job' = job
    BY <1>1 DEF StartKycSession
  <2>7. sess' \in [Sessions -> SessionRow] /\ job' = job
    BY <1>0, <2>5, <2>6
  <2> QED BY <1>0, <2>1, <2>2, <2>3, <2>4, <2>7, StandingInv
<1>2. ASSUME NEW s \in Sessions, SessionThrows(s) PROVE IInv'
  <2>1. UserTypeOK'
    BY <1>0, <1>2 DEF SessionThrows, SessionRow, UserTypeOK
  <2> QED BY <1>2, <2>1, UserStepInv DEF SessionThrows
<1> QED BY <1>1, <1>2

-----------------------------------------------------------------------------
\* KycService.

\* What CallsOK and TracesOK say of one request.
CallOK(r, profiles) ==
    /\ \A u, v \in r.of : u = v
    /\ r.pc \in {"write", "save", "user", "mirror"} =>
         r.doc \in Row /\ \A u \in r.of : profiles[u] \in Row
    /\ r.op \in OwnOps \/ r.pc = "mirror" => r.old \in KYCStatus
    /\ r.op = "override" => r.say \in KycApplicationStatus
    /\ r.op \in {"submit", "webhook"} => r.say \in ProviderStatus \ {"none"}
    /\ r.pc = "save" => r.op \in {"submit"} \cup ReviewOps
    /\ r.op = "none" => r.pc = "idle"

TraceOK(r, users) == \A u \in r.of : r.old = "VERIFIED" \/ Speaks(r.doc) => u \in users

LEMMA NoCallOK == \A profiles, users : CallOK(NoCall, profiles) /\ TraceOK(NoCall, users)
  BY NoCallType DEF CallOK, TraceOK, OwnOps

\* A request goes on as r; the profiles stay or become more.
LEMMA CallInv ==
    ASSUME IInv, NEW c \in Calls, NEW r \in CallRow, call' = [call EXCEPT ![c] = r],
           CallOK(r, profile'), TraceOK(r, cleared'), UserTypeOK', calm' \in BOOLEAN,
           profile' \in [Users -> Row \cup {NoProfile}],
           \A u \in Users : profile[u] \in Row => profile'[u] \in Row,
           cleared \subseteq cleared',
           \A u \in Users : user'[u].kyc = "VERIFIED" \/ Speaks(profile'[u]) => u \in cleared'
    PROVE  IInv'
<1>1. TypeOK'
  BY DEF IInv, TypeOK, KycTypeOK
<1>2. call'[c] = r /\ \A d \in Calls \ {c} : call'[d] = call[d]
  BY DEF IInv, TypeOK, KycTypeOK
<1>3. \A d \in Calls : call[d].of \subseteq Users
  BY DEF IInv, TypeOK, KycTypeOK, CallRow
<1>4. CallsOK'
  <2> SUFFICES ASSUME NEW d \in Calls PROVE CallOK(call'[d], profile')
    BY DEF CallsOK, CallOK
  <2>1. CASE d = c
    BY <2>1, <1>2 DEF CallOK
  <2>2. CASE d # c
    BY <2>2, <1>2, <1>3 DEF CallOK, IInv, CallsOK
  <2> QED BY <2>1, <2>2
<1>5. TracesOK'
  <2> SUFFICES ASSUME NEW d \in Calls PROVE TraceOK(call'[d], cleared')
    BY DEF TracesOK, TraceOK, Speaks
  <2>1. CASE d = c
    BY <2>1, <1>2 DEF TraceOK
  <2>2. CASE d # c
    BY <2>2, <1>2, <1>3 DEF TraceOK, IInv, TracesOK, Speaks
  <2> QED BY <2>1, <2>2
<1> QED BY <1>1, <1>4, <1>5 DEF IInv

LEMMA FinishInv ==
    ASSUME IInv, NEW c \in Calls, Finish(c), UserTypeOK', calm' \in BOOLEAN,
           profile' \in [Users -> Row \cup {NoProfile}],
           \A u \in Users : profile[u] \in Row => profile'[u] \in Row,
           cleared \subseteq cleared',
           \A u \in Users : user'[u].kyc = "VERIFIED" \/ Speaks(profile'[u]) => u \in cleared'
    PROVE  IInv'
  BY CallInv, NoCallOK, NoCallType DEF Finish

\* What holds when only requests change.
LEMMA Unwritten ==
    ASSUME IInv, UNCHANGED <<profile, userVars>>
    PROVE  /\ UserTypeOK' /\ profile' \in [Users -> Row \cup {NoProfile}]
           /\ \A u \in Users : profile[u] \in Row => profile'[u] \in Row
           /\ cleared \subseteq cleared'
           /\ \A u \in Users : user'[u].kyc = "VERIFIED" \/ Speaks(profile'[u]) => u \in cleared'
  BY DEF IInv, TypeOK, UserTypeOK, KycTypeOK, TracesOK, userVars, Speaks

LEMMA KycRequestInv ==
    ASSUME IInv, NEW c \in Calls, KycRequest(c), Begins, UNCHANGED <<profile, userVars>>
    PROVE  IInv'
<1>0. calm' \in BOOLEAN
  BY DEF Begins, IInv, TypeOK
<1>00. user \in [Users -> UserRow] /\ userVars' = userVars /\ cleared' = cleared
  BY DEF IInv, TypeOK, UserTypeOK, userVars
<1>1. ASSUME NEW op \in OwnOps, NEW u \in Users, OwnRequest(c, op, u) PROVE IInv'
  <2> DEFINE r == [pc |-> "find", op |-> op, of |-> {u}, doc |-> NoProfile,
                   say |-> IF op = "submit" THEN "APPROVED" ELSE "none", old |-> user[u].kyc]
  <2>1. r \in CallRow
    BY <1>00 DEF CallRow, UserRow, OwnOps, KycApplicationStatus
  <2>2. CallOK(r, profile') /\ TraceOK(r, cleared')
    BY <1>00, NoProfileIsNoRow 
       DEF CallOK, TraceOK, Speaks, OwnOps, ReviewOps, UserRow, ProviderStatus, IInv, TracesOK
  <2>3. call' = [call EXCEPT ![c] = r]
    BY <1>1 DEF OwnRequest
  <2> HIDE DEF r
  <2> QED BY <1>0, <2>1, <2>2, <2>3, Unwritten, CallInv
<1>2. ASSUME NEW op \in ReviewOps, NEW u \in Users,
             NEW say \in {"none"} \cup KycApplicationStatus \cup ProviderStatus,
             ReviewRequest(c, op, u, say)
      PROVE  IInv'
  <2> DEFINE r == [pc |-> "find", op |-> op, of |-> {u}, doc |-> NoProfile, say |-> say,
                   old |-> "none"]
  <2>1. r \in CallRow
    BY DEF CallRow
  <2>2. CallOK(r, profile') /\ TraceOK(r, cleared')
    BY <1>2, NoProfileIsNoRow 
       DEF CallOK, TraceOK, Speaks, OwnOps, ReviewOps, ReviewRequest
  <2>3. call' = [call EXCEPT ![c] = r]
    BY <1>2 DEF ReviewRequest
  <2> HIDE DEF r
  <2> QED BY <1>0, <2>1, <2>2, <2>3, Unwritten, CallInv
<1> QED BY <1>1, <1>2, VerificationBounds DEF KycRequest, ReviewOps

\* What is known of a request.
LEMMA CallFacts ==
    ASSUME IInv, NEW c \in Calls
    PROVE  /\ call[c] \in CallRow /\ CallOK(call[c], profile) /\ TraceOK(call[c], cleared)
           /\ call[c].of \subseteq Users
           /\ profile \in [Users -> Row \cup {NoProfile}] /\ calm \in BOOLEAN
           /\ user \in [Users -> UserRow] /\ cleared \subseteq Users
           /\ author \in [Users -> {"users", "kyc"}]
           /\ \A u \in Users : user[u].kyc = "VERIFIED" \/ Speaks(profile[u]) => u \in cleared
  BY DEF IInv, TypeOK, UserTypeOK, KycTypeOK, CallsOK, TracesOK, CallOK, TraceOK, CallRow

\* A request that got a profile d of its user.
LEMMA GotInv ==
    ASSUME IInv, NEW c \in Calls, NEW u \in call[c].of, NEW d \in Row, Got(c, d),
           call[c].op # "none", Speaks(d) => u \in cleared, UNCHANGED <<userVars, calm>>,
           profile' \in [Users -> Row \cup {NoProfile}], profile'[u] \in Row,
           \A v \in Users : profile[v] \in Row => profile'[v] \in Row,
           \A v \in Users : Speaks(profile'[v]) => v \in cleared
    PROVE  IInv'
<1>1. UserTypeOK' /\ calm' \in BOOLEAN /\ cleared' = cleared /\ user' = user
  BY DEF IInv, TypeOK, UserTypeOK, userVars
<1>2. \A v \in Users : user'[v].kyc = "VERIFIED" \/ Speaks(profile'[v]) => v \in cleared'
  BY <1>1, CallFacts
<1>3. CASE With(c, d) = "idle"
  BY <1>1, <1>2, <1>3, FinishInv DEF Got
<1>4. CASE With(c, d) # "idle"
  <2> DEFINE r == [call[c] EXCEPT !.pc = With(c, d), !.doc = d]
  <2>1. With(c, d) \in {"write", "save"}
    BY <1>4 DEF With
  <2>2. With(c, d) = "save" => call[c].op \in {"submit"} \cup ReviewOps
    BY DEF With, ReviewOps
  <2>3. /\ r \in CallRow /\ r.pc = With(c, d) /\ r.doc = d /\ r.of = call[c].of
        /\ r.op = call[c].op /\ r.say = call[c].say /\ r.old = call[c].old
    BY <2>1, CallFacts DEF CallRow
  <2>4. call' = [call EXCEPT ![c] = r]
    BY <1>4 DEF Got
  <2> HIDE DEF r
  <2>5. \A v \in call[c].of : v = u
    BY CallFacts DEF CallOK
  <2>6. CallOK(r, profile')
    BY <2>1, <2>2, <2>3, <2>5, CallFacts DEF CallOK
  <2>7. TraceOK(r, cleared')
    BY <1>1, <2>3, <2>5, CallFacts DEF TraceOK
  <2> QED BY <1>1, <1>2, <2>3, <2>4, <2>6, <2>7, CallInv
<1> QED BY <1>3, <1>4

LEMMA FindInv ==
    ASSUME IInv, NEW c \in Calls, Find(c), UNCHANGED calm
    PROVE  IInv'
<1>1. PICK u \in call[c].of :
          IF profile[u] # NoProfile THEN Got(c, profile[u])
          ELSE IF call[c].op \in OwnOps THEN Goto(c, "create") ELSE Finish(c)
  BY DEF Find
<1>2. call[c].pc = "find" /\ UNCHANGED <<profile, userVars>> /\ u \in Users /\ calm' \in BOOLEAN
  BY CallFacts DEF Find
<1>3. CASE profile[u] # NoProfile
  <2>1. profile[u] \in Row /\ Got(c, profile[u]) /\ call[c].op # "none"
    BY <1>1, <1>2, <1>3, CallFacts DEF CallOK
  <2> QED BY <1>2, <2>1, CallFacts, Unwritten, GotInv
<1>4. CASE profile[u] = NoProfile /\ call[c].op \in OwnOps
  <2> DEFINE r == [call[c] EXCEPT !.pc = "create"]
  <2>1. /\ r \in CallRow /\ r.pc = "create" /\ r.doc = call[c].doc /\ r.of = call[c].of
        /\ r.op = call[c].op /\ r.say = call[c].say /\ r.old = call[c].old
        /\ call' = [call EXCEPT ![c] = r]
    BY <1>1, <1>4, CallFacts DEF CallRow, Goto
  <2> HIDE DEF r
  <2>2. CallOK(r, profile') /\ TraceOK(r, cleared')
    BY <1>2, <1>4, <2>1, CallFacts DEF CallOK, TraceOK, OwnOps, userVars, Speaks
  <2> QED BY <1>2, <2>1, <2>2, Unwritten, CallInv
<1>5. CASE Finish(c)
  BY <1>2, <1>5, Unwritten, FinishInv
<1> QED BY <1>1, <1>3, <1>4, <1>5

LEMMA FreshType == Fresh \in Row /\ ~Speaks(Fresh)
  BY DEF Fresh, Row, KycApplicationStatus, ProviderStatus, Speaks

LEMMA CreateInv ==
    ASSUME IInv, NEW c \in Calls, Create(c), UNCHANGED calm
    PROVE  IInv'
<1>1. PICK u \in call[c].of :
          IF profile[u] # NoProfile THEN profile' = profile /\ Finish(c)
          ELSE profile' = [profile EXCEPT ![u] = Fresh] /\ Got(c, Fresh)
  BY DEF Create
<1>2. call[c].pc = "create" /\ UNCHANGED userVars /\ u \in Users /\ calm' \in BOOLEAN
  BY CallFacts DEF Create
<1>3. CASE profile[u] # NoProfile
  BY <1>1, <1>2, <1>3, Unwritten, FinishInv
<1>4. CASE profile[u] = NoProfile
  <2>1. profile' = [profile EXCEPT ![u] = Fresh] /\ Got(c, Fresh) /\ call[c].op # "none"
    BY <1>1, <1>2, <1>4, CallFacts DEF CallOK
  <2>2. profile' \in [Users -> Row \cup {NoProfile}] /\ profile'[u] \in Row
    BY <2>1, <1>2, CallFacts, FreshType
  <2>3. \A v \in Users : profile[v] \in Row => profile'[v] \in Row
    BY <2>1, <1>2, CallFacts, FreshType
  <2>4. \A v \in Users : Speaks(profile'[v]) => v \in cleared
    BY <2>1, <1>2, CallFacts, FreshType
  <2> QED BY <1>2, <2>1, <2>2, <2>3, <2>4, FreshType, GotInv
<1> QED BY <1>3, <1>4

\* A profile is written with a row that speaks of no new approval, and the request
\* ends.
LEMMA WriteInv ==
    ASSUME IInv, NEW c \in Calls, NEW u \in call[c].of, NEW row \in Row,
           profile' = [profile EXCEPT ![u] = row], Speaks(row) => u \in cleared,
           Finish(c), UNCHANGED <<userVars, calm>>
    PROVE  IInv'
<1>1. UserTypeOK' /\ calm' \in BOOLEAN /\ cleared' = cleared /\ user' = user
  BY DEF IInv, TypeOK, UserTypeOK, userVars
<1>2. /\ profile' \in [Users -> Row \cup {NoProfile}]
      /\ \A v \in Users : profile[v] \in Row => profile'[v] \in Row
  BY CallFacts
<1>3. \A v \in Users : user'[v].kyc = "VERIFIED" \/ Speaks(profile'[v]) => v \in cleared'
  BY <1>1, CallFacts
<1> QED BY <1>1, <1>2, <1>3, FinishInv

LEMMA UpdateProfileInv ==
    ASSUME IInv, NEW c \in Calls, NEW fields \in BOOLEAN, UpdateProfile(c, fields), UNCHANGED calm
    PROVE  IInv'
<1> DEFINE Status(d) == IF call[c].doc.status \in {"UNVERIFIED", "DRAFT"} THEN "DRAFT" ELSE d.status
<1>1. PICK u \in call[c].of :
          profile' = [profile EXCEPT ![u].complete = @ \/ fields, ![u].status = Status(profile[u])]
  BY DEF UpdateProfile
<1>2. profile[u] \in Row /\ u \in Users
  BY CallFacts DEF CallOK, UpdateProfile
<1> DEFINE row == [profile[u] EXCEPT !.complete = @ \/ fields, !.status = Status(profile[u])]
<1>3. Status(profile[u]) \in KycApplicationStatus
  BY <1>2 DEF Row, KycApplicationStatus
<1>4. row \in Row
  BY <1>2, <1>3 DEF Row
<1>5. Speaks(row) => u \in cleared
  <2>1. row.provider = profile[u].provider /\ row.status = Status(profile[u])
    BY <1>2 DEF Row
  <2>2. Status(profile[u]) = "APPROVED" => profile[u].status = "APPROVED"
    OBVIOUS
  <2> HIDE DEF row, Status
  <2> QED BY <1>2, <2>1, <2>2, CallFacts DEF Speaks
<1>6. profile' = [profile EXCEPT ![u] = row]
  BY <1>1, <1>2, CallFacts
<1> HIDE DEF row
<1> QED BY <1>4, <1>5, <1>6, WriteInv DEF UpdateProfile

LEMMA UploadDocumentInv ==
    ASSUME IInv, NEW c \in Calls, UploadDocument(c), UNCHANGED calm
    PROVE  IInv'
<1>1. PICK u \in call[c].of : profile' = [profile EXCEPT ![u].docs = TRUE]
  BY DEF UploadDocument
<1>2. profile[u] \in Row /\ u \in Users
  BY CallFacts DEF CallOK, UploadDocument
<1> DEFINE row == [profile[u] EXCEPT !.docs = TRUE]
<1>3. /\ row \in Row /\ row.provider = profile[u].provider /\ row.status = profile[u].status
      /\ profile' = [profile EXCEPT ![u] = row]
  BY <1>1, <1>2 DEF Row
<1> HIDE DEF row
<1>4. Speaks(row) => u \in cleared
  BY <1>2, <1>3, CallFacts DEF Speaks
<1> QED BY <1>3, <1>4, WriteInv DEF UploadDocument

LEMMA SaveInv ==
    ASSUME IInv, NEW c \in Calls, Save(c), UNCHANGED calm
    PROVE  IInv'
<1> DEFINE d == call[c].doc
           verdict == Verdict(c, d)
           decision == Decision(c, d)
<1>1. PICK u \in call[c].of :
          /\ profile' = [profile EXCEPT ![u] = Saved(c, profile[u], d)]
          /\ cleared' = IF verdict = "APPROVED" THEN cleared \cup {u} ELSE cleared
  BY DEF Save
<1>2. /\ profile[u] \in Row /\ d \in Row /\ u \in Users /\ call[c].pc = "save"
      /\ call[c].op \in {"submit"} \cup ReviewOps /\ \A v \in call[c].of : v = u
  BY CallFacts DEF CallOK, Save
<1>3. /\ call[c].op = "override" => call[c].say \in KycApplicationStatus
      /\ call[c].op \in {"submit", "webhook"} => call[c].say \in ProviderStatus \ {"none"}
      /\ d.status \in KycApplicationStatus /\ d.provider \in ProviderStatus
      /\ Speaks(d) => u \in cleared
  BY <1>2, CallFacts DEF CallOK, TraceOK, Row
<1>4. /\ call[c].op # "override" => verdict \in ProviderStatus
      /\ decision \in KycApplicationStatus
  BY <1>2, <1>3 DEF Verdict, Decision, Mapped, ReviewOps, ProviderStatus, KycApplicationStatus
\* What is decided and stored is an approval only if one was given.
<1>5. /\ verdict = "APPROVED" => u \in cleared'
      /\ decision = "APPROVED" => u \in cleared'
      /\ cleared \subseteq cleared' /\ cleared' \subseteq Users
  <2>1. decision = "APPROVED" => verdict = "APPROVED" \/ d.status = "APPROVED"
    BY DEF Decision, Mapped, Verdict
  <2> HIDE DEF verdict, decision
  <2> QED BY <1>1, <1>2, <1>3, <2>1, CallFacts DEF Speaks
<1> DEFINE row == Saved(c, profile[u], d)
<1>6. /\ row \in Row /\ row.status \in {profile[u].status, decision}
      /\ row.provider = profile[u].provider \/ row.provider = verdict
  <2>1. /\ (IF decision = d.status THEN profile[u].status ELSE decision) \in KycApplicationStatus
        /\ (IF call[c].op = "override" \/ verdict = d.provider THEN profile[u].provider
            ELSE verdict) \in ProviderStatus
    <3> HIDE DEF verdict, decision
    <3> QED BY <1>2, <1>4 DEF Row
  <2>2. row = [profile[u] EXCEPT
                 !.status = IF decision = d.status THEN profile[u].status ELSE decision,
                 !.sent = @ \/ call[c].op = "submit",
                 !.provider = IF call[c].op = "override" \/ verdict = d.provider
                              THEN profile[u].provider ELSE verdict]
    BY DEF Saved
  <2> HIDE DEF row, verdict, decision
  <2> QED BY <1>2, <2>1, <2>2 DEF Row
<1> HIDE DEF row
<1>7. Speaks(row) => u \in cleared'
  <2> HIDE DEF verdict, decision
  <2> QED BY <1>2, <1>5, <1>6, CallFacts DEF Speaks
<1>8. /\ profile' = [profile EXCEPT ![u] = row]
      /\ UNCHANGED <<user, job, sess, author>> /\ calm' \in BOOLEAN
  BY <1>1, CallFacts DEF Save, row
<1>9. UserTypeOK'
  BY <1>5, <1>8 DEF IInv, TypeOK, UserTypeOK
<1>10. /\ profile' \in [Users -> Row \cup {NoProfile}]
       /\ \A v \in Users : profile[v] \in Row => profile'[v] \in Row
  BY <1>6, <1>8, CallFacts
<1>11. \A v \in Users : user'[v].kyc = "VERIFIED" \/ Speaks(profile'[v]) => v \in cleared'
  BY <1>2, <1>5, <1>7, <1>8, CallFacts
<1> DEFINE doc == [d EXCEPT !.status = decision]
           pc == IF call[c].op = "submit" THEN "mirror" ELSE "user"
           r == [call[c] EXCEPT !.pc = pc, !.doc = doc]
<1>12. doc \in Row /\ doc.status = decision /\ doc.provider = d.provider
  BY <1>2, <1>4 DEF Row
<1>13. call' = [call EXCEPT ![c] = r]
  BY DEF Save
<1>14. Speaks(doc) => u \in cleared'
  <2> HIDE DEF doc, decision, verdict
  <2> QED BY <1>2, <1>3, <1>5, <1>12 DEF Speaks
<1>15. pc \in {"user", "mirror"} /\ (pc = "mirror" => call[c].op = "submit")
  OBVIOUS
<1> HIDE DEF doc, pc
<1>16. /\ r \in CallRow /\ r.pc = pc /\ r.doc = doc /\ r.of = call[c].of
       /\ r.op = call[c].op /\ r.say = call[c].say /\ r.old = call[c].old
  BY <1>12, <1>15, CallFacts DEF CallRow
<1> HIDE DEF r
<1>17. CallOK(r, profile')
  <2>1. \A v \in r.of : profile'[v] \in Row
    BY <1>2, <1>10, <1>16
  <2> QED BY <2>1, <1>2, <1>12, <1>15, <1>16, CallFacts DEF CallOK, OwnOps, ReviewOps
<1>18. TraceOK(r, cleared')
  <2>1. \A v \in r.of : r.old = "VERIFIED" => v \in cleared
    BY <1>16, CallFacts DEF TraceOK
  <2> QED BY <2>1, <1>2, <1>5, <1>14, <1>16 DEF TraceOK, Speaks
<1> QED BY <1>5, <1>8, <1>9, <1>10, <1>11, <1>13, <1>16, <1>17, <1>18, CallInv

LEMMA FindUserInv ==
    ASSUME IInv, NEW c \in Calls, FindUser(c), UNCHANGED calm
    PROVE  IInv'
<1>1. PICK u \in call[c].of :
          call' = [call EXCEPT ![c].pc = "mirror", ![c].old = user[u].kyc]
  BY DEF FindUser
<1> DEFINE r == [call[c] EXCEPT !.pc = "mirror", !.old = user[u].kyc]
<1>2. /\ u \in Users /\ user[u].kyc \in KYCStatus /\ call[c].pc = "user"
      /\ UNCHANGED <<profile, userVars>> /\ calm' \in BOOLEAN /\ \A v \in call[c].of : v = u
  BY CallFacts DEF FindUser, UserRow, CallOK
<1>3. /\ r \in CallRow /\ r.pc = "mirror" /\ r.doc = call[c].doc /\ r.of = call[c].of
      /\ r.op = call[c].op /\ r.say = call[c].say /\ r.old = user[u].kyc
      /\ call' = [call EXCEPT ![c] = r]
  BY <1>1, <1>2, CallFacts DEF CallRow
<1> HIDE DEF r
<1>4. CallOK(r, profile')
  BY <1>2, <1>3, CallFacts DEF CallOK
<1>5. TraceOK(r, cleared')
  BY <1>2, <1>3, CallFacts DEF TraceOK, userVars, Speaks
<1> QED BY <1>2, <1>3, <1>4, <1>5, Unwritten, CallInv

LEMMA SyncInv ==
    ASSUME IInv, NEW c \in Calls, SyncUserKycStatus(c), UNCHANGED calm
    PROVE  IInv'
<1> DEFINE d == call[c].doc
           status == Mirrored(d.status, call[c].old)
<1>1. PICK u \in call[c].of :
          /\ user' = [user EXCEPT ![u].kyc = status]
          /\ author' = [author EXCEPT ![u] = "kyc"]
  BY DEF SyncUserKycStatus
<1>2. /\ u \in Users /\ d \in Row /\ call[c].old \in {"none"} \cup KYCStatus
      /\ Finish(c) /\ UNCHANGED <<profile, job, sess, cleared>> /\ calm' \in BOOLEAN
  BY CallFacts DEF CallOK, SyncUserKycStatus, CallRow
<1>3. status = "VERIFIED" => u \in cleared
  <2>1. status = "VERIFIED" => d.status = "APPROVED" \/ call[c].old = "VERIFIED"
    BY DEF Mirrored
  <2> HIDE DEF status
  <2> QED BY <1>2, <2>1, CallFacts DEF TraceOK, Speaks
<1>4. \A v \in Users : user'[v].kyc = "VERIFIED" \/ Speaks(profile'[v]) => v \in cleared'
  <2> HIDE DEF status
  <2>1. \A v \in Users : user'[v].kyc = "VERIFIED" => user[v].kyc = "VERIFIED" \/ v \in cleared
    BY <1>1, <1>2, <1>3, CallFacts DEF UserRow
  <2> QED BY <1>2, <2>1, CallFacts DEF Speaks
<1>5. UserTypeOK'
  <2>1. status \in KYCStatus
    BY <1>2, CallFacts DEF Mirrored, KYCStatus, CallOK, SyncUserKycStatus
  <2> HIDE DEF status
  <2>2. user' \in [Users -> UserRow] /\ author' \in [Users -> {"users", "kyc"}]
    BY <1>1, <1>2, <2>1, CallFacts DEF UserRow
  <2> QED BY <1>2, <2>2 DEF IInv, TypeOK, UserTypeOK
<1>6. /\ profile' \in [Users -> Row \cup {NoProfile}]
      /\ \A v \in Users : profile[v] \in Row => profile'[v] \in Row
      /\ cleared \subseteq cleared'
  BY <1>2, CallFacts
<1> QED BY <1>2, <1>4, <1>5, <1>6, FinishInv

LEMMA StepInv == IInv /\ [Next]_vars => IInv'
<1> SUFFICES ASSUME IInv, [Next]_vars PROVE IInv'
  OBVIOUS
<1>0. calm \in BOOLEAN
  BY DEF IInv, TypeOK
<1>1. ASSUME NEW c \in Calls, KycStep(c), UNCHANGED calm PROVE IInv'
  BY <1>1, FindInv, CreateInv, UploadDocumentInv, SaveInv, FindUserInv, SyncInv,
     UpdateProfileInv DEF KycStep
<1>2. ASSUME NEW c \in Calls, CallThrows(c), calm' = FALSE PROVE IInv'
  BY <1>2, Unwritten, FinishInv DEF CallThrows
<1>3. CASE UNCHANGED vars
  <2>1. UNCHANGED <<profile, call, userVars, calm>> /\ UNCHANGED <<user, cleared>>
    BY <1>3 DEF vars, userVars
  <2> QED BY <2>1, <1>0, Unwritten, UserStepInv
<1> QED BY <1>0, <1>1, <1>2, <1>3, UserNextInv, SessionInv, KycRequestInv DEF Next

LEMMA Invariant == Spec => []IInv
  BY InitInv, StepInv, PTL DEF Spec

\* The types of the users, jobs, profiles and requests.
THEOREM TypesOK == Spec => []TypeOK
<1>1. IInv => TypeOK
  BY DEF IInv
<1> QED BY <1>1, Invariant, PTL

\* users.service.ts and kyc.service.ts: nobody becomes verified for whom no call ever
\* brought a positive verdict, whatever requests overlap, fail, repeat themselves or
\* act on what they read long ago.
THEOREM VerifiedWereCleared == Spec => []VerifiedWasCleared
<1>1. IInv => VerifiedWasCleared
  BY DEF IInv, TracesOK, VerifiedWasCleared
<1> QED BY <1>1, Invariant, PTL

-----------------------------------------------------------------------------
\* While nothing overlaps or fails.

\* Does the user's status say what the profile's says, if KycService wrote it last?
SaysTheSame(u) ==
    author[u] = "kyc" /\ Mirrored(profile[u].status, "other") # "other"
      => user[u].kyc = Mirrored(profile[u].status, "other")

Copying(u) == \E c \in Calls : u \in call[c].of /\ call[c].pc \in {"user", "mirror"}

\* One request is in progress, what it has read is still so, and the two
\* collections differ only while it copies.
MirrorOK ==
    calm =>
        /\ \A c, d \in Calls : call[c] # NoCall /\ call[d] # NoCall => c = d
        /\ \A c \in Calls : \A u \in call[c].of :
             /\ call[c].pc \in {"write", "save"} => call[c].doc = profile[u]
             /\ call[c].pc \in {"user", "mirror"} => call[c].doc.status = profile[u].status
        /\ \A u \in Users : Copying(u) \/ SaysTheSame(u)

LEMMA MirrorInit == Init => MirrorOK
<1> SUFFICES ASSUME Init PROVE MirrorOK
  OBVIOUS
<1>1. \A c \in Calls : call[c] = NoCall
  BY DEF Init, KycInit
<1>2. \A u \in Users : author[u] = "users"
  BY DEF Init, UserInit
<1> QED BY <1>1, <1>2, NoCallType DEF MirrorOK, SaysTheSame

\* A step of UsersService.
LEMMA MirrorUser ==
    ASSUME MirrorOK, calm' => calm, UNCHANGED <<profile, call>>,
           \A u \in Users : author'[u] = "users"
                              \/ (author'[u] = author[u] /\ user'[u].kyc = user[u].kyc)
    PROVE  MirrorOK'
<1> SUFFICES ASSUME calm' PROVE MirrorOK'
  BY DEF MirrorOK
<1>1. \A u \in Users : SaysTheSame(u) => SaysTheSame(u)'
  BY DEF SaysTheSame
<1>2. \A u \in Users : Copying(u)' = Copying(u)
  BY DEF Copying
<1> QED BY <1>1, <1>2 DEF MirrorOK

\* A step of the one request in progress, which goes on as r.
LEMMA MirrorCall ==
    ASSUME IInv, MirrorOK, NEW c \in Calls, call[c] # NoCall, NEW r \in CallRow,
           call' = [call EXCEPT ![c] = r], UNCHANGED calm,
           \A u \in r.of :
             /\ r.pc \in {"write", "save"} => r.doc = profile'[u]
             /\ r.pc \in {"user", "mirror"} => r.doc.status = profile'[u].status,
           calm => \A u \in Users : (u \in r.of /\ r.pc \in {"user", "mirror"}) \/ SaysTheSame(u)'
    PROVE  MirrorOK'
<1> SUFFICES ASSUME calm' PROVE MirrorOK'
  BY DEF MirrorOK
<1>0. calm
  OBVIOUS
<1>1. call'[c] = r /\ \A d \in Calls \ {c} : call'[d] = call[d] /\ call[d] = NoCall
  BY <1>0 DEF IInv, TypeOK, KycTypeOK, MirrorOK
<1>2. \A d \in Calls \ {c} : call'[d].of = {}
  BY <1>1, NoCallType
<1>3. \A u \in Users : Copying(u)' \/ SaysTheSame(u)'
  BY <1>0, <1>1 DEF Copying
<1>4. \A d, e \in Calls : call'[d] # NoCall /\ call'[e] # NoCall => d = e
  BY <1>1
<1>5. \A d \in Calls : \A u \in call'[d].of :
          /\ call'[d].pc \in {"write", "save"} => call'[d].doc = profile'[u]
          /\ call'[d].pc \in {"user", "mirror"} => call'[d].doc.status = profile'[u].status
  BY <1>1, <1>2
<1> QED BY <1>3, <1>4, <1>5 DEF MirrorOK

\* The same when it ends.
LEMMA MirrorFinish ==
    ASSUME IInv, MirrorOK, NEW c \in Calls, call[c] # NoCall, Finish(c), UNCHANGED calm,
           calm => \A u \in Users : SaysTheSame(u)'
    PROVE  MirrorOK'
  BY MirrorCall, NoCallType DEF Finish

\* A request that is not copying leaves all that agreed as it was.
LEMMA NotCopying ==
    ASSUME IInv, MirrorOK, calm, NEW c \in Calls, call[c].pc \notin {"idle", "user", "mirror"}
    PROVE  call[c] # NoCall /\ \A u \in Users : SaysTheSame(u)
<1>1. call[c] # NoCall
  BY NoCallType
<1>2. \A d \in Calls : call[d].pc \in {"user", "mirror"} => FALSE
  BY <1>1, NoCallType DEF MirrorOK
<1> QED BY <1>1, <1>2 DEF MirrorOK, Copying

LEMMA MirrorGot ==
    ASSUME IInv, MirrorOK, NEW c \in Calls, call[c].pc \in {"find", "create"},
           NEW u \in call[c].of, NEW d \in Row, Got(c, d), d = profile'[u],
           UNCHANGED <<userVars, calm>>,
           profile' = profile \/ (profile' = [profile EXCEPT ![u] = Fresh] /\ u \in Users)
    PROVE  MirrorOK'
<1>1. call[c] # NoCall
  BY NoCallType
<1>2. calm => \A v \in Users : SaysTheSame(v)'
  <2> SUFFICES ASSUME calm, NEW v \in Users PROVE SaysTheSame(v)'
    OBVIOUS
  <2>1. SaysTheSame(v)
    BY NotCopying
  <2>2. CASE profile'[v] = profile[v]
    BY <2>1, <2>2 DEF SaysTheSame, userVars
  <2>3. CASE profile'[v] # profile[v]
    <3>1. profile'[v] = Fresh
      BY <2>3, CallFacts
    <3>2. Mirrored(profile'[v].status, "other") = "other"
      BY <3>1 DEF Fresh, Mirrored
    <3> QED BY <3>2 DEF SaysTheSame, Mirrored
  <2> QED BY <2>2, <2>3
<1>3. CASE With(c, d) = "idle"
  BY <1>1, <1>2, <1>3, MirrorFinish DEF Got
<1>4. CASE With(c, d) # "idle"
  <2> DEFINE r == [call[c] EXCEPT !.pc = With(c, d), !.doc = d]
  <2>1. With(c, d) \in {"write", "save"}
    BY <1>4 DEF With
  <2>2. /\ r \in CallRow /\ r.pc = With(c, d) /\ r.doc = d /\ r.of = call[c].of
        /\ r.op = call[c].op /\ r.say = call[c].say /\ r.old = call[c].old
    BY <2>1, CallFacts DEF CallRow
  <2>3. call' = [call EXCEPT ![c] = r]
    BY <1>4 DEF Got
  <2> HIDE DEF r
  <2>4. \A v \in r.of : v = u
    BY <2>2, CallFacts DEF CallOK
  <2> QED BY <1>1, <1>2, <2>1, <2>2, <2>3, <2>4, MirrorCall
<1> QED BY <1>3, <1>4

LEMMA MirrorFind ==
    ASSUME IInv, MirrorOK, NEW c \in Calls, Find(c), UNCHANGED calm
    PROVE  MirrorOK'
<1>1. PICK u \in call[c].of :
          IF profile[u] # NoProfile THEN Got(c, profile[u])
          ELSE IF call[c].op \in OwnOps THEN Goto(c, "create") ELSE Finish(c)
  BY DEF Find
<1>2. call[c].pc = "find" /\ UNCHANGED <<profile, userVars>> /\ u \in Users /\ call[c] # NoCall
  BY CallFacts, NoCallType DEF Find
<1>3. calm => \A v \in Users : SaysTheSame(v)'
  BY <1>2, NotCopying DEF SaysTheSame, userVars
<1>4. CASE profile[u] # NoProfile
  BY <1>1, <1>2, <1>4, CallFacts, MirrorGot
<1>5. CASE profile[u] = NoProfile /\ call[c].op \in OwnOps
  <2> DEFINE r == [call[c] EXCEPT !.pc = "create"]
  <2>1. r \in CallRow /\ r.pc = "create" /\ call' = [call EXCEPT ![c] = r]
    BY <1>1, <1>5, CallFacts DEF CallRow, Goto
  <2> HIDE DEF r
  <2> QED BY <1>2, <1>3, <2>1, MirrorCall
<1>6. CASE Finish(c)
  BY <1>2, <1>3, <1>6, MirrorFinish
<1> QED BY <1>1, <1>4, <1>5, <1>6

LEMMA MirrorCreate ==
    ASSUME IInv, MirrorOK, NEW c \in Calls, Create(c), UNCHANGED calm
    PROVE  MirrorOK'
<1>1. PICK u \in call[c].of :
          IF profile[u] # NoProfile THEN profile' = profile /\ Finish(c)
          ELSE profile' = [profile EXCEPT ![u] = Fresh] /\ Got(c, Fresh)
  BY DEF Create
<1>2. call[c].pc = "create" /\ UNCHANGED userVars /\ u \in Users /\ call[c] # NoCall
  BY CallFacts, NoCallType DEF Create
<1>3. CASE profile[u] # NoProfile
  <2>1. calm => \A v \in Users : SaysTheSame(v)'
    BY <1>1, <1>2, <1>3, NotCopying DEF SaysTheSame, userVars
  <2> QED BY <1>1, <1>2, <1>3, <2>1, MirrorFinish
<1>4. CASE profile[u] = NoProfile
  <2>1. profile' = [profile EXCEPT ![u] = Fresh] /\ Got(c, Fresh) /\ profile'[u] = Fresh
    BY <1>1, <1>2, <1>4, CallFacts
  <2> QED BY <1>2, <2>1, FreshType, MirrorGot
<1> QED BY <1>3, <1>4

LEMMA MirrorUpdateProfile ==
    ASSUME IInv, MirrorOK, NEW c \in Calls, NEW fields \in BOOLEAN, UpdateProfile(c, fields),
           UNCHANGED calm
    PROVE  MirrorOK'
<1> DEFINE Status(d) == IF call[c].doc.status \in {"UNVERIFIED", "DRAFT"} THEN "DRAFT" ELSE d.status
<1>1. PICK u \in call[c].of :
          profile' = [profile EXCEPT ![u].complete = @ \/ fields, ![u].status = Status(profile[u])]
  BY DEF UpdateProfile
<1>2. /\ profile[u] \in Row /\ u \in Users /\ call[c].pc = "write" /\ call[c] # NoCall
      /\ Finish(c) /\ UNCHANGED userVars
  BY CallFacts, NoCallType DEF CallOK, UpdateProfile
<1>3. ASSUME calm, NEW v \in Users PROVE SaysTheSame(v)'
  <2>1. SaysTheSame(v) /\ call[c].doc = profile[u]
    BY <1>2, <1>3, NotCopying DEF MirrorOK
  <2>2. v # u => profile'[v] = profile[v]
    BY <1>1, <1>2, CallFacts
  <2>3. profile'[u].status = Status(profile[u])
    BY <1>1, <1>2, CallFacts DEF Row
  <2>4. Mirrored(Status(profile[u]), "other") \in {"other", Mirrored(profile[u].status, "other")}
    BY <2>1 DEF Mirrored
  <2> HIDE DEF Status
  <2>5. CASE v = u
    BY <1>2, <2>1, <2>3, <2>4, <2>5 DEF SaysTheSame, userVars
  <2>6. CASE v # u
    BY <1>2, <2>1, <2>2, <2>6 DEF SaysTheSame, userVars
  <2> QED BY <2>5, <2>6
<1> QED BY <1>2, <1>3, MirrorFinish

LEMMA MirrorUploadDocument ==
    ASSUME IInv, MirrorOK, NEW c \in Calls, UploadDocument(c), UNCHANGED calm
    PROVE  MirrorOK'
<1>1. PICK u \in call[c].of : profile' = [profile EXCEPT ![u].docs = TRUE]
  BY DEF UploadDocument
<1>2. /\ profile[u] \in Row /\ u \in Users /\ call[c].pc = "write" /\ call[c] # NoCall
      /\ Finish(c) /\ UNCHANGED userVars
  BY CallFacts, NoCallType DEF CallOK, UploadDocument
<1>3. \A v \in Users : profile'[v].status = profile[v].status
  BY <1>1, <1>2, CallFacts DEF Row
<1>4. calm => \A v \in Users : SaysTheSame(v)'
  BY <1>2, <1>3, NotCopying DEF SaysTheSame, userVars
<1> QED BY <1>2, <1>4, MirrorFinish

LEMMA MirrorSave ==
    ASSUME IInv, MirrorOK, NEW c \in Calls, Save(c), UNCHANGED calm
    PROVE  MirrorOK'
<1> DEFINE d == call[c].doc
           decision == Decision(c, d)
           pc == IF call[c].op = "submit" THEN "mirror" ELSE "user"
           doc == [d EXCEPT !.status = decision]
           r == [call[c] EXCEPT !.pc = pc, !.doc = doc]
<1>1. PICK u \in call[c].of : profile' = [profile EXCEPT ![u] = Saved(c, profile[u], d)]
  BY DEF Save
<1>2. /\ profile[u] \in Row /\ d \in Row /\ u \in Users /\ call[c].pc = "save"
      /\ call[c] # NoCall /\ UNCHANGED <<user, author>> /\ \A v \in call[c].of : v = u
  BY CallFacts, NoCallType DEF CallOK, Save
<1>3. \A v \in Users \ {u} : profile'[v] = profile[v]
  BY <1>1, <1>2, CallFacts
<1>4. calm => profile'[u].status = decision
  <2> SUFFICES ASSUME calm PROVE profile'[u].status = decision
    OBVIOUS
  <2>1. d = profile[u]
    BY <1>2 DEF MirrorOK
  <2>2. profile'[u] = Saved(c, profile[u], d)
    BY <1>1, <1>2, CallFacts
  <2>3. Saved(c, profile[u], d).status =
          (IF decision = d.status THEN profile[u].status ELSE decision)
    BY <1>2 DEF Saved, Row
  <2> HIDE DEF decision
  <2> QED BY <2>1, <2>2, <2>3
<1>5. call' = [call EXCEPT ![c] = r]
  BY DEF Save
<1>6. call' \in [Calls -> CallRow]
  <2>1. IInv'
    BY SaveInv
  <2> QED BY <2>1 DEF IInv, TypeOK, KycTypeOK
<1>7. r \in CallRow
  <2>1. call'[c] = r
    BY <1>5 DEF IInv, TypeOK, KycTypeOK
  <2> HIDE DEF r
  <2> QED BY <1>6, <2>1
<1>8. doc.status = decision
  BY <1>2 DEF Row
<1>9. pc \in {"user", "mirror"}
  OBVIOUS
<1> HIDE DEF pc, doc, decision
<1>10. r.pc = pc /\ r.doc = doc /\ r.of = call[c].of
  BY CallFacts DEF CallRow
<1> HIDE DEF r
<1>11. ASSUME calm, NEW v \in Users, v # u PROVE SaysTheSame(v)'
  BY <1>2, <1>3, <1>11, NotCopying DEF SaysTheSame
<1>12. CASE calm
  <2>1. \A v \in r.of : /\ r.pc \in {"write", "save"} => r.doc = profile'[v]
                        /\ r.pc \in {"user", "mirror"} => r.doc.status = profile'[v].status
    BY <1>2, <1>4, <1>8, <1>9, <1>10, <1>12
  <2>2. \A v \in Users : (v \in r.of /\ r.pc \in {"user", "mirror"}) \/ SaysTheSame(v)'
    BY <1>9, <1>10, <1>11, <1>12
  <2> QED BY <1>2, <1>5, <1>7, <2>1, <2>2, MirrorCall
<1>13. CASE ~calm
  BY <1>13 DEF MirrorOK
<1> QED BY <1>12, <1>13

\* While a request copies, the other users' statuses agree.
LEMMA OthersAgree ==
    ASSUME IInv, MirrorOK, calm, NEW c \in Calls, call[c].pc \in {"user", "mirror"},
           NEW u \in call[c].of
    PROVE  call[c] # NoCall /\ \A v \in Users \ {u} : SaysTheSame(v)
<1>1. call[c] # NoCall
  BY NoCallType
<1>2. \A d \in Calls \ {c} : call[d].of = {}
  BY <1>1, NoCallType DEF MirrorOK
<1>3. \A v \in call[c].of : v = u
  BY CallFacts DEF CallOK
<1>4. \A v \in Users \ {u} : ~Copying(v)
  BY <1>2, <1>3 DEF Copying
<1> QED BY <1>1, <1>4 DEF MirrorOK

LEMMA MirrorFindUser ==
    ASSUME IInv, MirrorOK, NEW c \in Calls, FindUser(c), UNCHANGED calm
    PROVE  MirrorOK'
<1>1. PICK u \in call[c].of :
          call' = [call EXCEPT ![c].pc = "mirror", ![c].old = user[u].kyc]
  BY DEF FindUser
<1> DEFINE r == [call[c] EXCEPT !.pc = "mirror", !.old = user[u].kyc]
<1>2. /\ u \in Users /\ user[u].kyc \in KYCStatus /\ call[c].pc = "user" /\ call[c] # NoCall
      /\ UNCHANGED <<profile, userVars>> /\ \A v \in call[c].of : v = u
  BY CallFacts, NoCallType DEF FindUser, UserRow, CallOK
<1>3. /\ r \in CallRow /\ r.pc = "mirror" /\ r.doc = call[c].doc /\ r.of = call[c].of
      /\ call' = [call EXCEPT ![c] = r]
  BY <1>1, <1>2, CallFacts DEF CallRow
<1> HIDE DEF r
<1>4. CASE calm
  <2>1. \A v \in Users : v \in r.of \/ SaysTheSame(v)'
    BY <1>2, <1>3, <1>4, OthersAgree DEF SaysTheSame, userVars
  <2>2. \A v \in r.of : r.doc.status = profile'[v].status
    BY <1>2, <1>3, <1>4 DEF MirrorOK
  <2> QED BY <1>2, <1>3, <2>1, <2>2, MirrorCall
<1>5. CASE ~calm
  BY <1>5 DEF MirrorOK
<1> QED BY <1>4, <1>5

LEMMA MirrorSync ==
    ASSUME IInv, MirrorOK, NEW c \in Calls, SyncUserKycStatus(c), UNCHANGED calm
    PROVE  MirrorOK'
<1> DEFINE status == Mirrored(call[c].doc.status, call[c].old)
<1>1. PICK u \in call[c].of :
          /\ user' = [user EXCEPT ![u].kyc = status]
          /\ author' = [author EXCEPT ![u] = "kyc"]
  BY DEF SyncUserKycStatus
<1>2. /\ u \in Users /\ Finish(c) /\ UNCHANGED profile /\ call[c].pc = "mirror"
      /\ call[c] # NoCall
  BY CallFacts, NoCallType DEF SyncUserKycStatus
<1>3. ASSUME calm, NEW v \in Users PROVE SaysTheSame(v)'
  <2>1. call[c].doc.status = profile[u].status
    BY <1>2, <1>3 DEF MirrorOK
  <2>2. user'[u].kyc = status /\ (v # u => user'[v] = user[v] /\ author'[v] = author[v])
    BY <1>1, <1>2, CallFacts DEF UserRow
  <2>3. Mirrored(profile[u].status, "other") # "other"
          => status = Mirrored(profile[u].status, "other")
    BY <2>1 DEF Mirrored
  <2> HIDE DEF status
  <2>4. CASE v = u
    BY <1>2, <2>2, <2>3, <2>4 DEF SaysTheSame
  <2>5. CASE v # u
    BY <1>2, <1>3, <2>2, <2>5, OthersAgree DEF SaysTheSame
  <2> QED BY <2>4, <2>5
<1> QED BY <1>2, <1>3, MirrorFinish

LEMMA MirrorRequest ==
    ASSUME IInv, MirrorOK, NEW c \in Calls, KycRequest(c), Begins, UNCHANGED <<profile, userVars>>
    PROVE  MirrorOK'
<1> SUFFICES ASSUME calm' PROVE MirrorOK'
  BY DEF MirrorOK
<1>1. calm /\ \A d \in Calls : call[d] = NoCall
  BY DEF Begins, Quiet
<1>2. PICK r : call' = [call EXCEPT ![c] = r] /\ r.pc = "find"
  <2>1. ASSUME NEW op \in OwnOps, NEW u \in Users, OwnRequest(c, op, u)
        PROVE  \E r : call' = [call EXCEPT ![c] = r] /\ r.pc = "find"
    <3> DEFINE r == [pc |-> "find", op |-> op, of |-> {u}, doc |-> NoProfile,
                     say |-> IF op = "submit" THEN "APPROVED" ELSE "none", old |-> user[u].kyc]
    <3>1. call' = [call EXCEPT ![c] = r] /\ r.pc = "find"
      BY <2>1 DEF OwnRequest
    <3> QED BY <3>1
  <2>2. ASSUME NEW op, NEW u, NEW say, ReviewRequest(c, op, u, say)
        PROVE  \E r : call' = [call EXCEPT ![c] = r] /\ r.pc = "find"
    <3> DEFINE r == [pc |-> "find", op |-> op, of |-> {u}, doc |-> NoProfile, say |-> say,
                     old |-> "none"]
    <3>1. call' = [call EXCEPT ![c] = r] /\ r.pc = "find"
      BY <2>2 DEF ReviewRequest
    <3> QED BY <3>1
  <2> QED BY <2>1, <2>2 DEF KycRequest
<1>3. call'[c] = r /\ \A d \in Calls \ {c} : call'[d] = NoCall
  BY <1>1, <1>2 DEF IInv, TypeOK, KycTypeOK
<1>4. \A u \in Users : ~Copying(u)
  BY <1>1, NoCallType DEF Copying
<1>5. \A u \in Users : SaysTheSame(u)'
  BY <1>1, <1>4 DEF MirrorOK, SaysTheSame, userVars
<1>6. \A d \in Calls : call'[d].pc \in {"find", "idle"}
  BY <1>2, <1>3, NoCallType
<1> QED BY <1>3, <1>5, <1>6 DEF MirrorOK

LEMMA MirrorStep == IInv /\ MirrorOK /\ [Next]_vars => MirrorOK'
<1> SUFFICES ASSUME IInv, MirrorOK, [Next]_vars PROVE MirrorOK'
  OBVIOUS
<1>0. /\ user \in [Users -> UserRow] /\ author \in [Users -> {"users", "kyc"}]
  BY DEF IInv, TypeOK, UserTypeOK
<1>1. CASE UserNext /\ Begins /\ UNCHANGED <<profile, call>>
  <2>1. \A u \in Users : author'[u] = "users"
                          \/ (author'[u] = author[u] /\ user'[u].kyc = user[u].kyc)
    BY <1>0, <1>1 DEF UserNext, SubmitKyc, UpdateKycStatus, PostJob, HandleSmileWebhook, Standing
  <2> QED BY <1>1, <2>1, MirrorUser DEF Begins
<1>2. ASSUME NEW s \in Sessions, StartKycSession(s), UNCHANGED <<profile, call, calm>>
      PROVE  MirrorOK'
  <2>1. \A u \in Users : author'[u] = "users"
                          \/ (author'[u] = author[u] /\ user'[u].kyc = user[u].kyc)
    BY <1>0, <1>2 DEF StartKycSession, Standing
  <2> QED BY <1>2, <2>1, MirrorUser
<1>3. CASE calm' = FALSE
  BY <1>3 DEF MirrorOK
<1>4. ASSUME NEW c \in Calls, KycStep(c), UNCHANGED calm PROVE MirrorOK'
  BY <1>4, MirrorFind, MirrorCreate, MirrorUploadDocument, MirrorSave, MirrorFindUser, MirrorSync,
     MirrorUpdateProfile DEF KycStep
<1>5. CASE UNCHANGED vars
  <2>1. UNCHANGED <<profile, call, calm, user, author>>
    BY <1>5 DEF vars, userVars
  <2> QED BY <2>1, MirrorUser
<1> QED BY <1>1, <1>2, <1>3, <1>4, <1>5, MirrorRequest DEF Next

\* kyc.service.ts, syncUserKycStatus: while nothing overlaps or fails, a status that
\* KycService wrote last says what the profile says.
THEOREM StatusMirrorsProfile == Spec => []MirrorsProfile
<1>1. MirrorOK => MirrorsProfile
  BY NoCallType DEF MirrorOK, MirrorsProfile, Quiet, Copying, SaysTheSame
<1> QED BY <1>1, Invariant, MirrorInit, MirrorStep, PTL DEF Spec

-----------------------------------------------------------------------------
\* Callbacks in Smile ID's name.

\* Whoever waits for a job was marked by his own session, and no callback for the
\* job counts against a user before he is marked.
WaitsOK ==
    /\ WaitsOnlyIfEarly
    /\ \A s \in Sessions : sess[s].pc = "mark" =>
         sess[s].id \in Jobs /\ job[sess[s].id].told = {} /\ \A u, v \in sess[s].of : u = v

LEMMA WaitsInit == Init => WaitsOK
  BY DEF Init, UserInit, WaitsOK, WaitsOnlyIfEarly

\* Steps that mark nobody, keep the sessions done, and add to no job the name of
\* somebody who waits for it.
LEMMA WaitsQuiet ==
    ASSUME WaitsOK,
           \A u \in Users : user'[u].smile = "IN_PROGRESS" =>
             user[u].smile = "IN_PROGRESS" /\ user'[u].session = user[u].session,
           \A u \in Users, j \in Jobs :
             user'[u].smile = "IN_PROGRESS" /\ u \in job'[j].told => u \in job[j].told,
           \A s \in Sessions : sess[s].pc = "done" => sess'[s] = sess[s]
    PROVE  WaitsOnlyIfEarly'
<1> SUFFICES ASSUME NEW u \in Users, NEW j \in Jobs,
                    user'[u].smile = "IN_PROGRESS", user'[u].session = j
             PROVE  /\ \E s \in Sessions : sess'[s].pc = "done" /\ sess'[s].of = {u} /\ sess'[s].id = j
                    /\ u \notin job'[j].told
  BY DEF WaitsOnlyIfEarly
<1>1. user[u].smile = "IN_PROGRESS" /\ user[u].session = j
  OBVIOUS
<1>2. PICK s \in Sessions : sess[s].pc = "done" /\ sess[s].of = {u} /\ sess[s].id = j
  BY <1>1 DEF WaitsOK, WaitsOnlyIfEarly
<1>3. sess'[s].pc = "done" /\ sess'[s].of = {u} /\ sess'[s].id = j
  BY <1>2
<1>4. u \notin job'[j].told
  BY <1>1 DEF WaitsOK, WaitsOnlyIfEarly
<1> QED BY <1>3, <1>4

LEMMA WaitsStep == IInv /\ WaitsOK /\ [Next]_vars => WaitsOK'
<1> SUFFICES ASSUME IInv, WaitsOK, [Next]_vars PROVE WaitsOK'
  OBVIOUS
<1>0. /\ user \in [Users -> UserRow] /\ job \in [Jobs -> JobRow] /\ sess \in [Sessions -> SessionRow]
  BY DEF IInv, TypeOK, UserTypeOK
<1>1. ASSUME NEW u \in Users, NEW s, user' = [user EXCEPT ![u].kyc = s], UNCHANGED <<job, sess>>
      PROVE  WaitsOK'
  <2>1. \A v \in Users : user'[v].smile = user[v].smile /\ user'[v].session = user[v].session
    BY <1>0, <1>1 DEF UserRow
  <2>2. WaitsOnlyIfEarly'
    BY <1>1, <2>1, WaitsQuiet
  <2> QED BY <1>1, <2>2 DEF WaitsOK
<1>2. ASSUME NEW s \in Sessions, NEW u \in Users, NEW j \in Jobs, PostJob(s, u, j)
      PROVE  WaitsOK'
  <2> DEFINE posted == [state |-> "posted", told |-> {}]
             marked == [pc |-> "mark", of |-> {u}, id |-> j]
  <2>1. /\ job' = [job EXCEPT ![j] = posted] /\ sess' = [sess EXCEPT ![s] = marked]
        /\ user' = user /\ sess[s].pc = "new"
    BY <1>2 DEF PostJob
  <2>2. posted.told = {} /\ marked.of = {u} /\ marked.id = j
    OBVIOUS
  <2> HIDE DEF posted, marked
  <2>3. job'[j].told = {} /\ \A i \in Jobs \ {j} : job'[i] = job[i]
    BY <1>0, <2>1, <2>2
  <2>4. sess'[s] = marked /\ \A t \in Sessions \ {s} : sess'[t] = sess[t]
    BY <1>0, <2>1
  <2>5. WaitsOnlyIfEarly'
    BY <2>1, <2>3, <2>4, WaitsQuiet
  <2> QED BY <2>2, <2>3, <2>4, <2>5 DEF WaitsOK
<1>3. ASSUME NEW j \in Jobs, NEW u \in Users, NEW result \in {"VERIFIED", "REJECTED"},
             HandleSmileWebhook(j, u, result)
      PROVE  WaitsOK'
  <2> DEFINE row == [kyc |-> result, session |-> j, smile |-> result]
  <2>1. user' = [user EXCEPT ![u] = row] /\ sess' = sess /\ Told(u, j)
    BY <1>3 DEF HandleSmileWebhook
  <2>2. row.smile # "IN_PROGRESS"
    OBVIOUS
  <2> HIDE DEF row
  <2>3. user'[u] = row /\ \A v \in Users \ {u} : user'[v] = user[v]
    BY <1>0, <2>1
  <2>4. /\ \A i \in Jobs : job'[i].told \subseteq job[i].told \cup (IF i = j THEN {u} ELSE {})
        /\ Early(j) => \A i \in Jobs : job'[i].told = job[i].told
    BY <1>0, <2>1, ToldType
  <2>5. WaitsOnlyIfEarly'
    BY <2>1, <2>2, <2>3, <2>4, WaitsQuiet
  <2>6. ASSUME NEW s \in Sessions, sess'[s].pc = "mark"
        PROVE  sess'[s].id \in Jobs /\ job'[sess'[s].id].told = {} /\ \A v, w \in sess'[s].of : v = w
    <3>1. /\ sess[s].pc = "mark" /\ sess[s].id \in Jobs /\ job[sess[s].id].told = {}
          /\ \A v, w \in sess[s].of : v = w
      BY <2>1, <2>6 DEF WaitsOK
    <3>2. sess[s].id = j => Early(j)
      BY <3>1 DEF Early
    <3> QED BY <2>1, <2>4, <3>1, <3>2
  <2> QED BY <2>5, <2>6 DEF WaitsOK
<1>4. ASSUME NEW s \in Sessions, StartKycSession(s) PROVE WaitsOK'
  <2>1. PICK u \in sess[s].of : user' = [user EXCEPT ![u].kyc = "PENDING",
                                  ![u].session = sess[s].id, ![u].smile = "IN_PROGRESS"]
    BY <1>4 DEF StartKycSession
  <2>2. u \in Users /\ job' = job /\ sess' = [sess EXCEPT ![s].pc = "done"] /\ sess[s].pc = "mark"
    BY <1>0, <1>4 DEF StartKycSession, SessionRow
  <2>3. user'[u].session = sess[s].id /\ \A v \in Users \ {u} : user'[v] = user[v]
    BY <1>0, <2>1, <2>2 DEF UserRow
  <2>4. /\ \A t \in Sessions \ {s} : sess'[t] = sess[t]
        /\ sess'[s].pc = "done" /\ sess'[s].id = sess[s].id /\ sess'[s].of = sess[s].of
    BY <1>0, <2>2 DEF SessionRow
  <2>5. sess[s].of = {u} /\ sess[s].id \in Jobs /\ job[sess[s].id].told = {}
    BY <2>2 DEF WaitsOK
  <2>6. ASSUME NEW v \in Users, NEW j \in Jobs,
               user'[v].smile = "IN_PROGRESS", user'[v].session = j
        PROVE  /\ \E t \in Sessions : sess'[t].pc = "done" /\ sess'[t].of = {v} /\ sess'[t].id = j
               /\ v \notin job'[j].told
    <3>1. CASE v = u
      BY <2>2, <2>3, <2>4, <2>5, <2>6, <3>1
    <3>2. CASE v # u
      <4>1. user[v].smile = "IN_PROGRESS" /\ user[v].session = j
        BY <2>3, <2>6, <3>2
      <4>2. PICK t \in Sessions : sess[t].pc = "done" /\ sess[t].of = {v} /\ sess[t].id = j
        BY <4>1 DEF WaitsOK, WaitsOnlyIfEarly
      <4>3. sess'[t] = sess[t]
        BY <2>2, <2>4, <4>2
      <4>4. v \notin job'[j].told
        BY <2>2, <4>1 DEF WaitsOK, WaitsOnlyIfEarly
      <4> QED BY <4>2, <4>3, <4>4
    <3> QED BY <3>1, <3>2
  <2>7. WaitsOnlyIfEarly'
    BY <2>6 DEF WaitsOnlyIfEarly
  <2> QED BY <2>2, <2>4, <2>7 DEF WaitsOK
<1>5. ASSUME UNCHANGED <<user, job, sess>> PROVE WaitsOK'
  <2>1. WaitsOnlyIfEarly'
    BY <1>5, WaitsQuiet
  <2> QED BY <1>5, <2>1 DEF WaitsOK
<1>6. ASSUME NEW s \in Sessions, SessionThrows(s) PROVE WaitsOK'
  <2>1. /\ user' = user /\ job' = job /\ sess[s].pc = "mark"
        /\ \A t \in Sessions : sess'[t] = sess[t] \/ (t = s /\ sess'[t].pc = "done")
    BY <1>0, <1>6 DEF SessionThrows, SessionRow
  <2>2. WaitsOnlyIfEarly'
    BY <2>1, WaitsQuiet
  <2> QED BY <2>1, <2>2 DEF WaitsOK
<1>7. ASSUME NEW c \in Calls, KycStep(c) PROVE WaitsOK'
  <2>1. CASE UNCHANGED <<user, job, sess>>
    BY <1>5, <2>1
  <2>2. CASE SyncUserKycStatus(c)
    <3>1. PICK u \in call[c].of :
              user' = [user EXCEPT ![u].kyc = Mirrored(call[c].doc.status, call[c].old)]
      BY <2>2 DEF SyncUserKycStatus
    <3> QED BY <1>1, <2>2, <3>1, CallFacts DEF SyncUserKycStatus
  <2> QED BY <1>7, <2>1, <2>2
          DEF KycStep, Find, Create, UploadDocument, Save, FindUser, UpdateProfile, userVars
<1>8. CASE UNCHANGED userVars
  BY <1>5, <1>8 DEF userVars
<1>9. CASE UserNext
  BY <1>1, <1>2, <1>3, <1>9 DEF UserNext, SubmitKyc, UpdateKycStatus
<1>10. CASE UNCHANGED vars
  BY <1>8, <1>10 DEF vars
<1>11. ASSUME NEW c \in Calls, CallThrows(c) PROVE WaitsOK'
  BY <1>8, <1>11 DEF CallThrows
<1> QED BY <1>4, <1>6, <1>7, <1>8, <1>9, <1>10, <1>11 DEF Next

\* users.service.ts: whatever overlaps, fails or repeats, whoever is shown as waiting
\* for a job of Smile ID was marked by his own session, and no callback for that job
\* has named him since.
THEOREM WaitersWereEarly == Spec => []WaitsOnlyIfEarly
<1>1. WaitsOK => WaitsOnlyIfEarly
  BY DEF WaitsOK
<1> QED BY <1>1, Invariant, WaitsInit, WaitsStep, PTL DEF Spec
=============================================================================
