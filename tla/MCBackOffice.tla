---------------------------- MODULE MCBackOffice ----------------------------
(***************************************************************************)
(* Six collections that share nothing, one looked at in each behaviour:    *)
(* the locks of a milestone, the treasury's balances, a document of the    *)
(* deal room, the users' wallets, one wallet's withdrawal methods and the  *)
(* documents of the NFT service.                                           *)
(*                                                                         *)
(* But for the methods no step and no property tells requests apart, so    *)
(* they arrive in their order.                                             *)
(***************************************************************************)
EXTENDS MilestoneLocks, Treasury, DealRoom, UserWallets, WithdrawalMethods, NftRecords

VARIABLE scene

MCInit ==
    /\ Init /\ TreasuryInit /\ DealRoomInit /\ UserWalletsInit
    /\ WithdrawalMethodsInit /\ NftRecordsInit
    /\ scene \in {"locks", "treasury", "deal room", "wallets", "methods", "nfts"}

\* pcs: where each request is; the new ones are the last.
InOrder(pcs) ==
    \A r, s \in DOMAIN pcs : r < s /\ pcs[r] = "new" => pcs[s] = "new"

MCNext ==
    /\ \/ /\ scene = "locks"
          /\ Next /\ InOrder(pc')
          /\ UNCHANGED <<treasuryVars, dealRoom, userWallets, withdrawalMethods, nftRecords>>
       \/ /\ scene = "treasury"
          /\ TreasuryNext /\ InOrder([b \in Bookings |-> booking'[b].pc])
          /\ UNCHANGED <<vars, dealRoom, userWallets, withdrawalMethods, nftRecords>>
       \/ /\ scene = "deal room"
          /\ DealRoomNext /\ InOrder([v \in Visits |-> visit'[v].pc])
          /\ UNCHANGED <<vars, treasuryVars, userWallets, withdrawalMethods, nftRecords>>
       \/ /\ scene = "wallets"
          /\ UserWalletsNext /\ InOrder([f \in Forms |-> form'[f].pc])
          /\ UNCHANGED <<vars, treasuryVars, dealRoom, withdrawalMethods, nftRecords>>
       \/ /\ scene = "methods"
          /\ WithdrawalMethodsNext
          /\ UNCHANGED <<vars, treasuryVars, dealRoom, userWallets, nftRecords>>
       \/ /\ scene = "nfts"
          /\ NftRecordsNext /\ InOrder([r \in Mints |-> minting'[r].pc])
          /\ UNCHANGED <<vars, treasuryVars, dealRoom, userWallets, withdrawalMethods>>
    /\ scene' = scene

MCVars == <<vars, treasuryVars, dealRoom, userWallets, withdrawalMethods, nftRecords, scene>>

MCSpec == MCInit /\ [][MCNext]_MCVars
=============================================================================
