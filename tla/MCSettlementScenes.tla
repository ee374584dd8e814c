------------------------- MODULE MCSettlementScenes -------------------------
(***************************************************************************)
(* Three scenes of the server, one chosen at the start, with two workers.  *)
(* They race on a Flutterwave payment, on a donation paid through DPO, or  *)
(* on two payments of one investor, from the wallet and through DPO, with  *)
(* neither a callback, nor a decline, nor a decision about the project.    *)
(***************************************************************************)
EXTENDS Settlement

CONSTANTS f1, d1, v1

VARIABLES
    scene,
    met    \* have two runs met at the duplicate check, or at the key, so far?

Scenes == {"flutterwave", "donation", "investor"}

Untouched(t) == status[t] = "none" /\ gateway[t] = "none"

Played ==
    /\ scene = "flutterwave" => Untouched(d1) /\ Untouched(v1)
    /\ scene = "donation" => Untouched(f1) /\ Untouched(v1)
    /\ scene = "investor" =>
         /\ Untouched(f1) /\ gateway[d1] # "failed" /\ projectStatus = "APPROVED"
         /\ \A w \in Workers : req[w].pc # "dpoHook"

MCInit == Init /\ scene \in Scenes /\ met = [check |-> FALSE, key |-> FALSE]

Remember == met' = [check |-> met.check \/ ~ RunsApart', key |-> met.key \/ ~ KeysApart']

MCNext == Next /\ scene' = scene /\ Played' /\ Remember

MCSpec == MCInit /\ [][MCNext]_<<vars, scene, met>>

\* The workers are interchangeable.
Symmetric == {[w \in Workers |-> p[w]] : p \in {q \in [Workers -> Workers] : {q[w] : w \in Workers} = Workers}}

\* "Check for existing investment to avoid duplicates": whatever else overlaps,
\* repeats, fails or is taken back and settled again, one payment becomes one
\* investment unless two runs for it have met between the check and the creation.
InvestedOnceApart == met.check \/ InvestedOnce

\* The investor's NFTs are held by the address the platform keeps the key of, over
\* all payments and restarts, unless two runs have generated a key at once.
KeyKeptApart == met.key \/ HoldersKeepTheirKey
=============================================================================
