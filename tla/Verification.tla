---------------------------- MODULE Verification ----------------------------
(***************************************************************************)
(* One user, two services: KycProfiles keeps a profile per user and copies *)
(* its verdict into the user's document, UserVerification writes the same  *)
(* field from three other sides.  Nothing orders the two.                  *)
(***************************************************************************)
EXTENDS KycProfiles

CONSTANTS
    OverrideTo,   \* the statuses overrides give, and
    Answers,      \* the answers of the provider's webhook (bounds)
    DecideTo      \* the kycStatus set directly (a bound)

ASSUME VerificationBounds ==
    /\ OverrideTo \subseteq KycApplicationStatus
    /\ Answers \subseteq ProviderStatus \ {"none"}
    /\ DecideTo \subseteq KYCStatus

VARIABLE
    calm       \* so far no two requests overlapped and none failed

vars == <<userVars, profile, call, calm>>

TypeOK == UserTypeOK /\ KycTypeOK /\ calm \in BOOLEAN

Init == UserInit /\ KycInit /\ calm = TRUE

Quiet == (\A c \in Calls : call[c] = NoCall) /\ (\A s \in Sessions : sess[s].pc # "mark")

\* A request begins: if another one is in progress, they overlap.
Begins == calm' = (calm /\ Quiet)

\* Requests to UsersService, and callbacks in Smile ID's name.
UserNext ==
    \/ \E u \in Users : SubmitKyc(u) \/ \E s \in DecideTo : UpdateKycStatus(u, s)
    \/ \E s \in Sessions, u \in Users, j \in Jobs : PostJob(s, u, j)
    \/ \E j \in Jobs, u \in Users, result \in {"VERIFIED", "REJECTED"} :
          HandleSmileWebhook(j, u, result)

KycRequest(c) ==
    \E u \in Users :
        \/ \E op \in OwnOps : OwnRequest(c, op, u)
        \/ \E say \in Answers : ReviewRequest(c, "webhook", u, say)
        \/ \E say \in OverrideTo : ReviewRequest(c, "override", u, say)
        \/ ReviewRequest(c, "sync", u, "none")

Next ==
    \/ UserNext /\ Begins /\ UNCHANGED <<profile, call>>
    \/ \E s \in Sessions : StartKycSession(s) /\ UNCHANGED <<profile, call, calm>>
    \/ \E s \in Sessions : SessionThrows(s) /\ calm' = FALSE /\ UNCHANGED <<profile, call>>
    \/ \E c \in Calls : KycRequest(c) /\ Begins /\ UNCHANGED <<profile, userVars>>
    \/ \E c \in Calls : KycStep(c) /\ UNCHANGED calm
    \/ \E c \in Calls : CallThrows(c) /\ calm' = FALSE

Spec == Init /\ [][Next]_vars

-----------------------------------------------------------------------------

\* No interleaving of the two services, of stale reads, failures and repeated
\* callbacks makes a user verified for whom no call ever brought a positive
\* verdict: a provider's answer, an override, a callback signed for some job, or
\* the status set directly.  Whether the caller may give one is not checked here,
\* as it is not by the code.
VerifiedWasCleared == \A u \in Users : user[u].kyc = "VERIFIED" => u \in cleared

\* "syncUserKycStatus": while nothing overlaps or fails, a status that KycService
\* wrote last says what the profile says.
MirrorsProfile ==
    calm /\ Quiet =>
        \A u \in Users :
            author[u] = "kyc" /\ Mirrored(profile[u].status, "other") # "other"
              => user[u].kyc = Mirrored(profile[u].status, "other")

\* Whatever overlaps, fails or repeats: a user shown as waiting for a job was
\* marked by a session of his own, and no callback for that job has named him
\* since the session marked him.  Only a result that came before the mark leaves
\* him waiting in vain.
WaitsOnlyIfEarly ==
    \A u \in Users, j \in Jobs :
        user[u].smile = "IN_PROGRESS" /\ user[u].session = j =>
            /\ \E s \in Sessions : sess[s].pc = "done" /\ sess[s].of = {u} /\ sess[s].id = j
            /\ u \notin job[j].told
=============================================================================
