--------------------------- MODULE MCVerification ---------------------------
(***************************************************************************)
(* Three scenes, one chosen at the start.  "calm": every operation on one  *)
(* user, one request at a time and nothing failing; "races": requests to   *)
(* KycService about one user that overlap and fail; "smile": two users and *)
(* two Smile ID sessions that overlap, fail and are called back, without   *)
(* KycService.                                                             *)
(***************************************************************************)
EXTENDS Verification, TLC

VARIABLE scene

Racing == {<<"none", "none">>, <<"update", "none">>, <<"upload", "none">>,
           <<"submit", "APPROVED">>, <<"webhook", "REJECTED">>, <<"override", "NEEDS_MORE_INFO">>}

Untouched(u) == user[u].kyc = "NOT_VERIFIED" /\ profile[u] = NoProfile
                  /\ \A c \in Calls : u \notin call[c].of

AtMostOne(S) == Cardinality(S) <= 1

Played ==
    /\ scene \in {"calm", "races"} => AtMostOne({u \in Users : ~ Untouched(u)})
    /\ scene = "calm" => calm /\ AtMostOne({s \in Sessions : sess[s].pc # "new"})
    /\ scene = "races" =>
         /\ \A s \in Sessions : sess[s].pc = "new"
         /\ \A c \in Calls : <<call[c].op, call[c].say>> \in Racing
    /\ scene = "smile" => \A c \in Calls : call[c] = NoCall

MCInit == Init /\ scene \in {"calm", "races", "smile"}

MCNext == Next /\ scene' = scene /\ Played'

MCSpec == MCInit /\ [][MCNext]_<<vars, scene>>

Symmetric == Permutations(Calls) \cup Permutations(Users) \cup Permutations(Jobs)
               \cup Permutations(Sessions)
=============================================================================
