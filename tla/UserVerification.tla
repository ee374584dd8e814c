-------------------------- MODULE UserVerification --------------------------
(***************************************************************************)
(* What UsersService does to the verification of a user: documents sent to *)
(* the platform, identity checks posted to Smile ID and answered by a      *)
(* public callback, and the public endpoint that sets the status.  Each    *)
(* changes the user's document with one update; starting a Smile ID job    *)
(* awaits Smile ID before it.                                              *)
(***************************************************************************)
EXTENDS Naturals, FiniteSets

CONSTANTS
    Users,
    Jobs, NoJob,   \* Smile ID's job ids
    Sessions       \* requests for a Smile ID session

ASSUME JobsAssumption == NoJob \notin Jobs
ASSUME SessionsAssumption == IsFiniteSet(Sessions)

VARIABLES
    user,      \* [Users -> what the user's document says of the verification]
    job,       \* [Jobs -> was it posted, and whom have callbacks named since then?]
    sess,      \* [Sessions -> the handler of createSmileKycSession]
    cleared,   \* users for whom some call ever brought a positive verdict
    author     \* [Users -> who last wrote kycStatus]

userVars == <<user, job, sess, cleared, author>>

KYCStatus == {"NOT_VERIFIED", "PENDING", "VERIFIED", "REJECTED", "EXPIRED"}

SmileStatus == {"none", "IN_PROGRESS", "VERIFIED", "REJECTED"}

\* kycStatus (kyc.status always has its value), kyc.providerSessionId and
\* kyc.providerStatus.
UserRow == [kyc : KYCStatus, session : Jobs \cup {NoJob}, smile : SmileStatus]

JobRow == [state : {"free", "posted"}, told : SUBSET Users]

SessionRow == [pc : {"new", "mark", "done"}, of : SUBSET Users, id : Jobs \cup {NoJob}]

UserTypeOK ==
    /\ user \in [Users -> UserRow]
    /\ job \in [Jobs -> JobRow]
    /\ sess \in [Sessions -> SessionRow]
    /\ cleared \subseteq Users
    /\ author \in [Users -> {"users", "kyc"}]

UserInit ==
    /\ user = [u \in Users |-> [kyc |-> "NOT_VERIFIED", session |-> NoJob,
                                smile |-> "none"]]
    /\ job = [j \in Jobs |-> [state |-> "free", told |-> {}]]
    /\ sess = [s \in Sessions |-> [pc |-> "new", of |-> {}, id |-> NoJob]]
    /\ cleared = {}
    /\ author = [u \in Users |-> "users"]

\* kycStatus of u becomes s, as the call says.
Standing(u, s) ==
    /\ cleared' = IF s = "VERIFIED" THEN cleared \cup {u} ELSE cleared
    /\ author' = [author EXCEPT ![u] = "users"]

-----------------------------------------------------------------------------

\* The user sends documents to the platform itself.
SubmitKyc(u) ==
    /\ user' = [user EXCEPT ![u].kyc = "PENDING"]
    /\ Standing(u, "PENDING")
    /\ UNCHANGED <<job, sess>>

\* createSmileKycSession: the job is posted under a new id ...
PostJob(s, u, j) ==
    /\ sess[s].pc = "new" /\ job[j].state = "free"
    /\ job' = [job EXCEPT ![j] = [state |-> "posted", told |-> {}]]
    /\ sess' = [sess EXCEPT ![s] = [pc |-> "mark", of |-> {u}, id |-> j]]
    /\ UNCHANGED <<user, cleared, author>>

\* ... and the user is marked once Smile ID has answered.
StartKycSession(s) ==
    /\ sess[s].pc = "mark"
    /\ \E u \in sess[s].of :
         /\ user' = [user EXCEPT ![u].kyc = "PENDING", ![u].session = sess[s].id,
                                 ![u].smile = "IN_PROGRESS"]
         /\ Standing(u, "PENDING")
    /\ sess' = [sess EXCEPT ![s].pc = "done"]
    /\ UNCHANGED job

\* The post fails, its answer is lost, or the update throws.
SessionThrows(s) ==
    /\ sess[s].pc = "mark"
    /\ sess' = [sess EXCEPT ![s].pc = "done"]
    /\ UNCHANGED <<user, job, cleared, author>>

\* Is the session that posted job j still about to mark its user?
Early(j) == \E s \in Sessions : sess[s].pc = "mark" /\ sess[s].id = j

\* A callback for j has named u; one that came before the mark is not held
\* against it.
Told(u, j) == job' = [job EXCEPT ![j].told = IF Early(j) THEN @ ELSE @ \cup {u}]

\* Mutant of HandleSmileWebhook: the user keeps waiting for the result.
HandleSmileWebhookUnread(j, u, result) ==
    /\ job[j].state = "posted"
    /\ user' = [user EXCEPT ![u].kyc = result]
    /\ Standing(u, result)
    /\ Told(u, j)
    /\ UNCHANGED sess

\* The signature is over the job's id, and there is one for every job posted.  The
\* user and the result it does not cover: any callback for the job counts, for
\* whomever it names, whichever session he is in, and however often it comes.
HandleSmileWebhook(j, u, result) ==
    /\ job[j].state = "posted"
    /\ user' = [user EXCEPT ![u] = [kyc |-> result, session |-> j, smile |-> result]]
    /\ Standing(u, result)
    /\ Told(u, j)
    /\ UNCHANGED sess

\* A call of admin/users/:id/kyc, by whoever makes it, sets kycStatus.
UpdateKycStatus(u, s) ==
    /\ user' = [user EXCEPT ![u].kyc = s]
    /\ Standing(u, s)
    /\ UNCHANGED <<job, sess>>
=============================================================================
