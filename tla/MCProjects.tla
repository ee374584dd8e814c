----------------------------- MODULE MCProjects -----------------------------
(***************************************************************************)
(* Three scenes, one chosen at the start: one request at a time with every *)
(* operation; overlapping requests of the creator that replace the         *)
(* milestones; and submissions, decisions and a deployment that overlap.   *)
(***************************************************************************)
EXTENDS Projects, TLC

VARIABLE scene

Played ==
    /\ scene = "calm" => calm
    /\ scene = "races" =>
         /\ required = {} /\ ~standing.kyc /\ standing.active
         /\ standing.creator = "NOT_SUBMITTED" /\ plainIds
         /\ \A p \in Campaigns : project[p] # NoProject =>
              project[p].status = "PENDING_REVIEW" /\ ~project[p].logged
         /\ \A r \in Requests : req[r].op \in {"none", "create", "update"} /\ ~req[r].anew
         /\ \A r \in Requests : req[r].op = "update" => req[r].files = Keep
    /\ scene = "decisions" =>
         /\ required = {} /\ plainIds
         /\ \A p \in Campaigns : project[p] # NoProject => ~project[p].logged
         /\ \A r \in Requests : req[r].op \in {"none", "create", "submit", "decide"}
         /\ \A r \in Requests : req[r].plan = NoPlan

MCInit == Init /\ scene \in {"calm", "races", "decisions"} /\ Played

MCNext == Next /\ scene' = scene /\ Played'

MCSpec == MCInit /\ [][MCNext]_<<vars, scene>>

Symmetric == Permutations(Requests) \cup Permutations(Titles) \cup Permutations(Plans)
=============================================================================
