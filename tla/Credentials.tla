----------------------------- MODULE Credentials -----------------------------
(***************************************************************************)
(* auth.service.ts: what proves that a client is the owner of one e-mail   *)
(* account.  Registering and resending mail a verification code, which has *)
(* to be guessed within its life and a number of attempts; forgotPassword  *)
(* mails a link; mails are limited by a count in the user's document and   *)
(* by one in memory.  MFA is set up, enabled and disabled.                 *)
(*                                                                         *)
(* Requests read the document and write fields computed from what they     *)
(* read.  Times are what is left of them; Tick takes one unit off.  In     *)
(* development and test no code is mailed; this is production.             *)
(***************************************************************************)
EXTENDS Naturals, FiniteSets

CONSTANTS
    Clients,       \* requests in progress at a time
    MaxAttempts,   \* emailVerificationMaxAttempts
    MaxSends,      \* emailVerificationMaxSends, and forgotPassword's 3
    BlockTime,     \* emailVerificationBlockMs
    CodeLife,      \* ttlMs of a code
    Window         \* emailVerificationWindowMs

ASSUME ClientsAssumption == IsFiniteSet(Clients)
ASSUME TimesAssumption ==
    /\ {MaxAttempts, MaxSends, BlockTime, CodeLife, Window} \subseteq Nat \ {0}
    /\ CodeLife < 2 * BlockTime

VARIABLES
    account,   \* the user's document, but for MFA
    mfa,       \* its mfa
    limits,    \* rateLimits, in memory
    work,      \* [Clients -> the request in progress]
    \* History.
    calmly,    \* so far no two requests overlapped and none failed
    guesses,   \* wrong guesses at the code stored now
    mails      \* mails sent since the stored window opened

credentials == <<account, mfa, limits, work, calmly, guesses, mails>>

Kinds == {"verify", "reset"}

\* coded and life: is a code stored, and for how long is it valid; attempts:
\* emailVerificationAttempts (all from MaxAttempts on are alike); block:
\* emailVerificationBlockedUntil; sent and window: the count of mails and when
\* it starts again.
Document == [state : {"none", "unverified", "verified"}, coded : BOOLEAN, life : 0..CodeLife,
             attempts : 0..MaxAttempts, block : 0..BlockTime,
             sent : [Kinds -> Nat], window : [Kinds -> 0..Window]]

Mfa == [enabled : BOOLEAN, secret : BOOLEAN, setup : BOOLEAN]

NoMfa == [enabled |-> FALSE, secret |-> FALSE, setup |-> FALSE]

MfaOps == {"start", "enable", "disable"}

\* right: is the code the stored one; attempts, count, left, mfa: what was read
\* or computed from it.
Free == [pc |-> "free", op |-> "none", right |-> FALSE, attempts |-> 0, count |-> 0,
         left |-> 0, mfa |-> NoMfa]

Work == [pc : {"free", "find", "mail", "store", "write"},
         op : {"none", "register", "resend", "forgot", "guess"} \cup MfaOps,
         right : BOOLEAN, attempts : 0..MaxAttempts, count : Nat, left : 0..Window, mfa : Mfa]

CredentialsTypeOK ==
    /\ account \in Document /\ mfa \in Mfa
    /\ limits \in [Kinds -> [count : 0..MaxSends, left : 0..Window]]
    /\ work \in [Clients -> Work]
    /\ calmly \in BOOLEAN /\ guesses \in Nat /\ mails \in [Kinds -> Nat]

CredentialsInit ==
    /\ account = [state |-> "none", coded |-> FALSE, life |-> 0, attempts |-> 0, block |-> 0,
                  sent |-> [k \in Kinds |-> 0], window |-> [k \in Kinds |-> 0]]
    /\ mfa = NoMfa
    /\ limits = [k \in Kinds |-> [count |-> 0, left |-> 0]]
    /\ work = [c \in Clients |-> Free]
    /\ calmly = TRUE /\ guesses = 0 /\ mails = [k \in Kinds |-> 0]

Kind(op) == IF op = "forgot" THEN "reset" ELSE "verify"

Release(c) == work' = [work EXCEPT ![c] = Free]

Proceed(c, pc) == work' = [work EXCEPT ![c].pc = pc]

\* Two requests overlap if one begins while another is in progress.
Overlaps == calmly' = (calmly /\ \A c \in Clients : work[c] = Free)

-----------------------------------------------------------------------------
\* Requests arrive.

\* enforceRateLimit counts the requests of a kind in memory.
RateLimited(k) == limits[k].left > 0 /\ limits[k].count >= MaxSends

Counted(k) ==
    limits' = [limits EXCEPT ![k] =
        IF @.left = 0 THEN [count |-> 1, left |-> Window]
                      ELSE [count |-> @.count + 1, left |-> @.left]]

\* register, while there is no account: it is created before the code is mailed.
\* The unique index on email refuses a second one.
Register(c) ==
    /\ work[c] = Free /\ account.state = "none"
    /\ account' = [account EXCEPT !.state = "unverified"]
    /\ work' = [work EXCEPT ![c] = [Free EXCEPT !.pc = "mail", !.op = "register",
                                                !.left = Window]]
    /\ Overlaps
    /\ UNCHANGED <<mfa, limits, guesses, mails>>

\* oauthLogin creates the account or, if the provider vouches for the address,
\* verifies it.
OauthLogin(vouched) ==
    /\ account' = [account EXCEPT !.state =
         IF vouched THEN "verified" ELSE IF @ = "none" THEN "unverified" ELSE @]
    /\ Overlaps
    /\ UNCHANGED <<mfa, limits, work, guesses, mails>>

\* resendVerificationEmail and forgotPassword.
AskForMail(c, op) ==
    /\ op \in {"resend", "forgot"}
    /\ work[c] = Free /\ ~RateLimited(Kind(op))
    /\ Counted(Kind(op))
    /\ work' = [work EXCEPT ![c] = [Free EXCEPT !.pc = "find", !.op = op]]
    /\ Overlaps
    /\ UNCHANGED <<account, mfa, guesses, mails>>

\* verifyEmail with the code that was mailed or with another one, and the
\* handlers of MFA.
Ask(c, op) ==
    /\ op \in {"guess"} \cup MfaOps
    /\ work[c] = Free
    /\ work' = [work EXCEPT ![c] = [Free EXCEPT !.pc = "find", !.op = op]]
    /\ Overlaps
    /\ UNCHANGED <<account, mfa, limits, guesses, mails>>

-----------------------------------------------------------------------------
\* Mails.

\* The user is read; assertSendWithinWindow refuses the mail or says what the
\* count will be.
FindForMail(c) ==
    /\ work[c].pc = "find" /\ work[c].op \in {"resend", "forgot"}
    /\ LET k == Kind(work[c].op)
           opens == account.window[k] = 0
           count == IF opens THEN 0 ELSE account.sent[k]
       IN  IF \/ account.state = "none"
              \/ k = "verify" /\ account.state = "verified"
              \/ count >= MaxSends
           THEN Release(c) /\ UNCHANGED mails
           ELSE /\ mails' = IF opens THEN [mails EXCEPT ![k] = 0] ELSE mails
                /\ work' = [work EXCEPT ![c].pc = "mail", ![c].count = count,
                                          ![c].left = IF opens THEN Window ELSE account.window[k]]
    /\ UNCHANGED <<account, mfa, limits, calmly, guesses>>

\* The mail goes out before anything is stored of it.
SendMail(c) ==
    /\ work[c].pc = "mail"
    /\ mails' = [mails EXCEPT ![Kind(work[c].op)] = @ + 1]
    /\ Proceed(c, "store")
    /\ UNCHANGED <<account, mfa, limits, calmly, guesses>>

\* Mutant of StoreMail: the count is not stored.
StoreMailUncounted(c) ==
    /\ work[c].pc = "store"
    /\ LET k == Kind(work[c].op)
       IN  /\ account' =
                [account EXCEPT !.window[k] = work[c].left,
                    !.coded = @ \/ k = "verify",
                    !.life = IF k = "verify" THEN CodeLife ELSE @,
                    !.attempts = IF k = "verify" THEN 0 ELSE @]
           /\ guesses' = IF k = "verify" THEN 0 ELSE guesses
    /\ Release(c)
    /\ UNCHANGED <<mfa, limits, calmly, mails>>

\* issueVerificationCode, or the update of forgotPassword.  A block goes on: it is
\* set to undefined, and undefined values are not sent to the database.
StoreMail(c) ==
    /\ work[c].pc = "store"
    /\ LET k == Kind(work[c].op)
       IN  /\ account' =
                [account EXCEPT !.sent[k] = work[c].count + 1, !.window[k] = work[c].left,
                    !.coded = @ \/ k = "verify",
                    !.life = IF k = "verify" THEN CodeLife ELSE @,
                    !.attempts = IF k = "verify" THEN 0 ELSE @]
           /\ guesses' = IF k = "verify" THEN 0 ELSE guesses
    /\ Release(c)
    /\ UNCHANGED <<mfa, limits, calmly, mails>>

-----------------------------------------------------------------------------
\* Guessing the code.

\* The code is compared with the one read, unless guessing is blocked.
FindForGuess(c, right) ==
    /\ work[c].pc = "find" /\ work[c].op = "guess"
    /\ right => account.coded /\ account.life > 0
    /\ IF account.state # "unverified" \/ account.block > 0
       THEN Release(c) /\ UNCHANGED guesses
       ELSE /\ work' = [work EXCEPT ![c].pc = "write", ![c].right = right,
                                    ![c].attempts = account.attempts]
            /\ guesses' = IF account.life > 0 /\ ~right THEN guesses + 1 ELSE guesses
    /\ UNCHANGED <<account, mfa, limits, calmly, mails>>

\* Mutant of WriteGuess: a block starts the count of attempts again.
WriteGuessAfresh(c) ==
    /\ work[c].pc = "write" /\ work[c].op = "guess"
    /\ account' =
         IF work[c].right THEN [account EXCEPT !.state = "verified", !.attempts = 0]
         ELSE IF work[c].attempts + 1 < MaxAttempts
         THEN [account EXCEPT !.attempts = work[c].attempts + 1]
         ELSE [account EXCEPT !.attempts = 0, !.block = BlockTime]
    /\ Release(c)
    /\ UNCHANGED <<mfa, limits, calmly, guesses, mails>>

\* The address is verified, or the attempts that were read are counted up; from
\* the last on, every one blocks.
WriteGuess(c) ==
    /\ work[c].pc = "write" /\ work[c].op = "guess"
    /\ account' =
         IF work[c].right THEN [account EXCEPT !.state = "verified", !.attempts = 0]
         ELSE IF work[c].attempts + 1 < MaxAttempts
         THEN [account EXCEPT !.attempts = work[c].attempts + 1]
         ELSE [account EXCEPT !.attempts = MaxAttempts, !.block = BlockTime]
    /\ Release(c)
    /\ UNCHANGED <<mfa, limits, calmly, guesses, mails>>

-----------------------------------------------------------------------------
\* MFA.  Each handler reads mfa and saves it as a whole.

\* startMfaSetup reads the user without the secrets, so that the whole it saves
\* has the new one only.
StartMfaSetup(c) ==
    /\ work[c].pc = "find" /\ work[c].op = "start"
    /\ work' = [work EXCEPT ![c].pc = "write",
                  ![c].mfa = [enabled |-> mfa.enabled, secret |-> FALSE, setup |-> TRUE]]
    /\ UNCHANGED <<account, mfa, limits, calmly, guesses, mails>>

\* Mutant of EnableMfa: the secret is taken from the one in use.
EnableMfaUnkept(c, passed) ==
    /\ work[c].pc = "find" /\ work[c].op = "enable"
    /\ IF mfa.setup /\ passed
       THEN work' = [work EXCEPT ![c].pc = "write",
                       ![c].mfa = [enabled |-> TRUE, secret |-> mfa.secret, setup |-> FALSE]]
       ELSE Release(c)
    /\ UNCHANGED <<account, mfa, limits, calmly, guesses, mails>>

\* A code of the secret being set up passes.
EnableMfa(c, passed) ==
    /\ work[c].pc = "find" /\ work[c].op = "enable"
    /\ IF mfa.setup /\ passed
       THEN work' = [work EXCEPT ![c].pc = "write",
                       ![c].mfa = [enabled |-> TRUE, secret |-> TRUE, setup |-> FALSE]]
       ELSE Release(c)
    /\ UNCHANGED <<account, mfa, limits, calmly, guesses, mails>>

DisableMfa(c, passed) ==
    /\ work[c].pc = "find" /\ work[c].op = "disable"
    /\ IF mfa.secret /\ mfa.enabled /\ passed
       THEN work' = [work EXCEPT ![c].pc = "write", ![c].mfa = NoMfa]
       ELSE Release(c)
    /\ UNCHANGED <<account, mfa, limits, calmly, guesses, mails>>

SaveMfa(c) ==
    /\ work[c].pc = "write" /\ work[c].op \in MfaOps
    /\ mfa' = work[c].mfa
    /\ Release(c)
    /\ UNCHANGED <<account, limits, calmly, guesses, mails>>

-----------------------------------------------------------------------------

Less(n) == IF n = 0 THEN 0 ELSE n - 1

Tick ==
    /\ account' = [account EXCEPT !.life = Less(@), !.block = Less(@),
                                  !.window = [k \in Kinds |-> Less(@[k])]]
    /\ limits' = [k \in Kinds |-> [limits[k] EXCEPT !.left = Less(@)]]
    /\ work' = [c \in Clients |-> [work[c] EXCEPT !.left = Less(@)]]
    /\ UNCHANGED <<mfa, calmly, guesses, mails>>

\* An awaited call throws.
GiveUp(c) ==
    /\ work[c] # Free
    /\ Release(c)
    /\ calmly' = FALSE
    /\ UNCHANGED <<account, mfa, limits, guesses, mails>>

\* The process ends and starts again: what it counted in memory is gone.
Restart ==
    /\ calmly' = (calmly /\ \A c \in Clients : work[c] = Free)
    /\ work' = [c \in Clients |-> Free]
    /\ limits' = [k \in Kinds |-> [count |-> 0, left |-> 0]]
    /\ UNCHANGED <<account, mfa, guesses, mails>>

CredentialsNext ==
    \/ \E c \in Clients :
         \/ Register(c) \/ FindForMail(c) \/ SendMail(c) \/ StoreMail(c)
         \/ WriteGuess(c) \/ StartMfaSetup(c) \/ SaveMfa(c) \/ GiveUp(c)
         \/ \E op \in {"resend", "forgot"} : AskForMail(c, op)
         \/ \E op \in {"guess"} \cup MfaOps : Ask(c, op)
         \/ \E yes \in BOOLEAN : FindForGuess(c, yes) \/ EnableMfa(c, yes) \/ DisableMfa(c, yes)
    \/ \E vouched \in BOOLEAN : OauthLogin(vouched)
    \/ Tick
    \/ Restart

CredentialsSpec == CredentialsInit /\ [][CredentialsNext]_credentials

-----------------------------------------------------------------------------

\* While nothing overlaps or fails, a code can be guessed at MaxAttempts times,
\* and once more when the block is over and the code is not.
GuessesBounded == calmly => guesses <= MaxAttempts + 1

\* While nothing overlaps or fails, no more mails go out in a window than the
\* limit, whatever restarts do to the limit in memory.
MailsBounded == calmly => \A k \in Kinds : mails[k] <= MaxSends

\* Whatever overlaps or fails, an account that asks for MFA codes has a secret to
\* make them of, or a setup in progress that leads to one.
MfaCanBePassed == mfa.enabled => mfa.secret \/ mfa.setup
=============================================================================
