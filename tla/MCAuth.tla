------------------------------- MODULE MCAuth -------------------------------
(***************************************************************************)
(* Three scenes of AuthService, one chosen at the start: requests for      *)
(* sessions that overlap; a code mailed and guessed at and links mailed,   *)
(* one request at a time; and MFA handlers that overlap.                   *)
(*                                                                         *)
(* Requests are interchangeable: no step and no property names one.        *)
(***************************************************************************)
EXTENDS Sessions, Credentials, TLC

VARIABLE scene

MCInit == Init /\ CredentialsInit /\ scene \in {"sessions", "codes", "mfa"}

MfaNext ==
    \E c \in Clients :
        \/ \E op \in MfaOps : Ask(c, op)
        \/ \E passed \in BOOLEAN : EnableMfa(c, passed) \/ DisableMfa(c, passed)
        \/ StartMfaSetup(c) \/ SaveMfa(c) \/ GiveUp(c)

\* With one request at a time, one client is enough.
Alone ==
    LET one == CHOOSE c \in Clients : TRUE
    IN  calmly' /\ \A c \in Clients \ {one} : work'[c] = Free

MCNext ==
    /\ \/ scene = "sessions" /\ Next /\ UNCHANGED credentials
       \/ scene = "codes" /\ CredentialsNext /\ Alone /\ mfa' = mfa /\ UNCHANGED vars
       \/ scene = "mfa" /\ MfaNext /\ UNCHANGED vars
    /\ scene' = scene

MCSpec == MCInit /\ [][MCNext]_<<vars, credentials, scene>>

Symmetry == Permutations(Requests)
=============================================================================
