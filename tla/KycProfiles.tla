----------------------------- MODULE KycProfiles -----------------------------
(***************************************************************************)
(* KycService over the kyc_profiles collection and the provider injected   *)
(* into it.  A request reads the profile, may await more, and saves what   *)
(* differs from what it read; a verdict is then copied to the user by a    *)
(* second update, computed from the user read before it.                   *)
(***************************************************************************)
EXTENDS UserVerification

CONSTANTS Calls   \* requests to KycService

ASSUME CallsAssumption == IsFiniteSet(Calls)

VARIABLES
    profile,  \* [Users -> KycProfile, or NoProfile]
    call      \* [Calls -> the request in progress]

KycApplicationStatus ==
    {"UNVERIFIED", "DRAFT", "PENDING", "SUBMITTED_TO_PROVIDER", "UNDER_REVIEW",
     "APPROVED", "REJECTED", "NEEDS_MORE_INFO", "EXPIRED"}

\* What the provider may say; anything else is "OTHER".
ProviderStatus ==
    {"none", "APPROVED", "REJECTED", "PENDING", "NEEDS_MORE_INFO", "OTHER"}

\* The profile: has it country and idType, has it documents, has it the
\* provider's reference, and what did the provider say last?  The dates of the
\* verdicts are left out.
Row == [status : KycApplicationStatus, complete : BOOLEAN, docs : BOOLEAN,
        sent : BOOLEAN, provider : ProviderStatus]

NoProfile == [status |-> "none"]

Fresh == [status |-> "UNVERIFIED", complete |-> FALSE, docs |-> FALSE, sent |-> FALSE,
          provider |-> "none"]

OwnOps == {"get", "update", "upload", "submit"}

ReviewOps == {"webhook", "override", "sync"}

\* op and of: the handler and whose profile; doc: the profile read; say: the
\* status it is about to give; old: the user read.
NoCall == [pc |-> "idle", op |-> "none", of |-> {}, doc |-> NoProfile, say |-> "none",
           old |-> "none"]

CallRow == [pc : {"idle", "find", "create", "write", "save", "user", "mirror"},
            op : {"none"} \cup OwnOps \cup ReviewOps, of : SUBSET Users,
            doc : Row \cup {NoProfile},
            say : {"none"} \cup KycApplicationStatus \cup ProviderStatus,
            old : {"none"} \cup KYCStatus]

KycTypeOK ==
    /\ profile \in [Users -> Row \cup {NoProfile}]
    /\ call \in [Calls -> CallRow]

KycInit ==
    /\ profile = [u \in Users |-> NoProfile]
    /\ call = [c \in Calls |-> NoCall]

Goto(c, p) == call' = [call EXCEPT ![c].pc = p]

Finish(c) == call' = [call EXCEPT ![c] = NoCall]

-----------------------------------------------------------------------------

\* applyMappedStatus: what a provider's answer makes of a status.
Mapped(answer, status) ==
    IF answer \in {"APPROVED", "REJECTED", "NEEDS_MORE_INFO"} THEN answer
    ELSE IF answer = "PENDING" THEN "UNDER_REVIEW" ELSE status

\* What the request c says of the profile d it read: the status of an override,
\* the provider's answer, or for a synchronisation the answer stored last.
Verdict(c, d) ==
    IF call[c].op # "sync" THEN call[c].say
    ELSE IF d.provider = "none" THEN "PENDING" ELSE d.provider

\* The status it gives the profile.
Decision(c, d) ==
    IF call[c].op = "override" THEN call[c].say ELSE Mapped(Verdict(c, d), d.status)

\* syncUserKycStatus: the user's status for a profile's, or the one it had.
Mirrored(status, old) ==
    IF status = "APPROVED" THEN "VERIFIED"
    ELSE IF status = "REJECTED" THEN "REJECTED"
    ELSE IF status \in {"PENDING", "SUBMITTED_TO_PROVIDER", "UNDER_REVIEW"} THEN "PENDING"
    ELSE old

\* A user's own request begins with reading the user.
OwnRequest(c, op, u) ==
    /\ call[c] = NoCall
    /\ call' = [call EXCEPT ![c] =
         [pc |-> "find", op |-> op, of |-> {u}, doc |-> NoProfile,
          say |-> IF op = "submit" THEN "APPROVED" ELSE "none", old |-> user[u].kyc]]

\* The webhook, or a request to one of the admin endpoints.
ReviewRequest(c, op, u, say) ==
    /\ call[c] = NoCall
    /\ op = "webhook" => say \in ProviderStatus \ {"none"}
    /\ op = "override" => say \in KycApplicationStatus
    /\ op = "sync" => say = "none"
    /\ call' = [call EXCEPT ![c] =
         [pc |-> "find", op |-> op, of |-> {u}, doc |-> NoProfile, say |-> say,
          old |-> "none"]]

\* Where a request goes with the profile d: a submission needs country, idType
\* and a document, a webhook the reference that a submission stored.
With(c, d) ==
    LET op == call[c].op
    IN  IF op \in {"update", "upload"} THEN "write"
        ELSE IF \/ op = "submit" /\ d.complete /\ d.docs
                \/ op = "webhook" /\ d.sent
                \/ op \in {"override", "sync"}
        THEN "save" ELSE "idle"

Got(c, d) ==
    IF With(c, d) = "idle" THEN Finish(c)
    ELSE call' = [call EXCEPT ![c].pc = With(c, d), ![c].doc = d]

\* findOne or findById; a user's own request creates the profile it misses.
Find(c) ==
    /\ call[c].pc = "find"
    /\ \E u \in call[c].of :
         IF profile[u] # NoProfile THEN Got(c, profile[u])
         ELSE IF call[c].op \in OwnOps THEN Goto(c, "create") ELSE Finish(c)
    /\ UNCHANGED <<profile, userVars>>

\* The unique index on userId refuses a second profile.
Create(c) ==
    /\ call[c].pc = "create"
    /\ \E u \in call[c].of :
         IF profile[u] # NoProfile THEN profile' = profile /\ Finish(c)
         ELSE profile' = [profile EXCEPT ![u] = Fresh] /\ Got(c, Fresh)
    /\ UNCHANGED userVars

\* The fields sent are set, and the status becomes DRAFT if it was still before
\* submission when it was read.
UpdateProfile(c, fields) ==
    /\ call[c].pc = "write" /\ call[c].op = "update"
    /\ \E u \in call[c].of : profile' =
         [profile EXCEPT ![u].complete = @ \/ fields,
              ![u].status = IF call[c].doc.status \in {"UNVERIFIED", "DRAFT"} THEN "DRAFT" ELSE @]
    /\ Finish(c)
    /\ UNCHANGED userVars

\* A document is pushed onto the stored ones.
UploadDocument(c) ==
    /\ call[c].pc = "write" /\ call[c].op = "upload"
    /\ \E u \in call[c].of : profile' = [profile EXCEPT ![u].docs = TRUE]
    /\ Finish(c)
    /\ UNCHANGED userVars

\* profile.save() sends what differs from what was read.
Saved(c, stored, read) ==
    [stored EXCEPT
        !.status = IF Decision(c, read) = read.status THEN @ ELSE Decision(c, read),
        !.sent = @ \/ call[c].op = "submit",
        !.provider = IF call[c].op = "override" \/ Verdict(c, read) = read.provider THEN @
                     ELSE Verdict(c, read)]

\* Mutant of Save: an override is not copied to the user.
SaveUncopied(c) ==
    /\ call[c].pc = "save"
    /\ \E u \in call[c].of :
         /\ profile' = [profile EXCEPT ![u] = Saved(c, @, call[c].doc)]
         /\ cleared' = IF Verdict(c, call[c].doc) = "APPROVED" THEN cleared \cup {u} ELSE cleared
    /\ IF call[c].op = "override" THEN Finish(c)
       ELSE call' = [call EXCEPT ![c].pc = IF call[c].op = "submit" THEN "mirror" ELSE "user",
                                 ![c].doc.status = Decision(c, call[c].doc)]
    /\ UNCHANGED <<user, job, sess, author>>

\* A submission goes on with the user it read at its start.
Save(c) ==
    /\ call[c].pc = "save"
    /\ \E u \in call[c].of :
         /\ profile' = [profile EXCEPT ![u] = Saved(c, @, call[c].doc)]
         /\ cleared' = IF Verdict(c, call[c].doc) = "APPROVED" THEN cleared \cup {u} ELSE cleared
    /\ call' = [call EXCEPT ![c].pc = IF call[c].op = "submit" THEN "mirror" ELSE "user",
                            ![c].doc.status = Decision(c, call[c].doc)]
    /\ UNCHANGED <<user, job, sess, author>>

\* The others read the user now.
FindUser(c) ==
    /\ call[c].pc = "user"
    /\ \E u \in call[c].of :
         call' = [call EXCEPT ![c].pc = "mirror", ![c].old = user[u].kyc]
    /\ UNCHANGED <<profile, userVars>>

\* Mutant of SyncUserKycStatus: whatever is not rejected counts as verified.
SyncUserKycStatusLax(c) ==
    /\ call[c].pc = "mirror"
    /\ \E u \in call[c].of :
         /\ user' = [user EXCEPT ![u].kyc =
                        IF call[c].doc.status = "REJECTED" THEN "REJECTED" ELSE "VERIFIED"]
         /\ author' = [author EXCEPT ![u] = "kyc"]
    /\ Finish(c)
    /\ UNCHANGED <<profile, job, sess, cleared>>

\* The user's status is overwritten with the profile's, or with the one read.
SyncUserKycStatus(c) ==
    /\ call[c].pc = "mirror"
    /\ \E u \in call[c].of :
         /\ user' = [user EXCEPT ![u].kyc = Mirrored(call[c].doc.status, call[c].old)]
         /\ author' = [author EXCEPT ![u] = "kyc"]
    /\ Finish(c)
    /\ UNCHANGED <<profile, job, sess, cleared>>

\* An awaited call throws, or the process ends.
CallThrows(c) ==
    /\ call[c] # NoCall
    /\ Finish(c)
    /\ UNCHANGED <<profile, userVars>>

KycStep(c) ==
    \/ Find(c) \/ Create(c) \/ UploadDocument(c) \/ Save(c) \/ FindUser(c)
    \/ SyncUserKycStatus(c)
    \/ \E fields \in BOOLEAN : UpdateProfile(c, fields)
=============================================================================
