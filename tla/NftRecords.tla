----------------------------- MODULE NftRecords -----------------------------
(***************************************************************************)
(* nft.service.ts: an administrator has a token minted by a contract that  *)
(* is not in the repository, and the service stores what the receipt says  *)
(* of it.  The transaction may be mined, reverted, or mined without the    *)
(* service hearing of it; the receiver may move other tokens in it.        *)
(***************************************************************************)
EXTENDS Naturals, Sequences, FiniteSets

CONSTANTS
    Mints,          \* POST /nfts/mint requests
    Valuations,     \* PATCH /nfts/:id/value requests
    Worths,         \* amounts invested and values
    MintsTogether   \* mints in progress at the same time (a bound)

ASSUME NftRecordsAssumption ==
    IsFiniteSet(Mints) /\ Worths \subseteq Nat \ {0} /\ MintsTogether \in Nat

VARIABLES
    chain,       \* the tokens as the contract numbers them: who had each minted
    minting,     \* [Mints -> progress, the amount, the Transfer events of the receipt]
    nfts,        \* the Nft documents: mint -> token, amount invested, value
    valuation    \* [Valuations -> progress, the document found, the value asked for]

nftRecords == <<chain, minting, nfts, valuation>>

\* Minted, or moved by its holder.
Transfer == [from : {"zero", "holder"}, token : Nat \ {0}]

Nft == [token : Nat \ {0}, amount : Worths, value : Worths \cup {0}]

Untold == [pc |-> "new", amount |-> 0, logs |-> <<>>]

NftRecordsTypeOK ==
    /\ chain \in Seq(Mints)
    /\ minting \in [Mints -> [pc : {"new", "send", "parse", "done", "failed"},
                              amount : Worths \cup {0}, logs : Seq(Transfer)]]
    /\ DOMAIN nfts \subseteq Mints /\ \A r \in DOMAIN nfts : nfts[r] \in Nft
    /\ valuation \in [Valuations -> [pc : {"new", "save", "done"}, of : SUBSET Mints,
                                     value : Worths \cup {0}]]

NftRecordsInit ==
    /\ chain = <<>>
    /\ minting = [r \in Mints |-> Untold]
    /\ nfts = <<>>
    /\ valuation = [u \in Valuations |-> [pc |-> "new", of |-> {}, value |-> 0]]

Mining == {r \in Mints : minting[r].pc \in {"send", "parse"}}

TurnsTo(r, pc) == minting' = [minting EXCEPT ![r].pc = pc]

-----------------------------------------------------------------------------

\* mintNft, up to the contract call.
MintNft(r, amount) ==
    /\ minting[r].pc = "new" /\ Cardinality(Mining) < MintsTogether
    /\ minting' = [minting EXCEPT ![r] = [@ EXCEPT !.pc = "send", !.amount = amount]]
    /\ UNCHANGED <<chain, nfts, valuation>>

Moves(tokens) == [n \in DOMAIN tokens |-> [from |-> "holder", token |-> tokens[n]]]

Events(before, t, after) ==
    Moves(before) \o <<[from |-> "zero", token |-> t]>> \o Moves(after)

\* The token is minted, and in the same transaction tokens minted earlier may be
\* moved before or after it.
Mined(r, before, after) ==
    /\ minting[r].pc = "send"
    /\ chain' = Append(chain, r)
    /\ minting' = [minting EXCEPT ![r] =
         [@ EXCEPT !.pc = "parse", !.logs = Events(before, Len(chain) + 1, after)]]
    /\ UNCHANGED <<nfts, valuation>>

\* The receipt of a reverted transaction has no events; the client does not look at
\* its status.
Reverted(r) ==
    /\ minting[r].pc = "send"
    /\ TurnsTo(r, "parse")
    /\ UNCHANGED <<chain, nfts, valuation>>

\* Waiting for the receipt throws, and the token is minted all the same.
Unheard(r) ==
    /\ minting[r].pc = "send"
    /\ chain' = Append(chain, r)
    /\ TurnsTo(r, "failed")
    /\ UNCHANGED <<nfts, valuation>>

\* Mutant of ParseMintEvent: whichever event comes first.
ParseFirstEvent(logs) == logs[1].token

\* parseMintEvent: the first transfer from the zero address, or else the first one.
ParseMintEvent(logs) ==
    LET fromZero == {n \in DOMAIN logs : logs[n].from = "zero"}
        first    == CHOOSE n \in fromZero : \A m \in fromZero : n <= m
    IN  logs[IF fromZero = {} THEN 1 ELSE first].token

\* The rest of mintNft: without events it throws, and the unique index refuses a
\* token stored already.
StoreNft(r) ==
    /\ minting[r].pc = "parse"
    /\ LET logs   == minting[r].logs
           stored == {nfts[s].token : s \in DOMAIN nfts}
       IN  IF logs = <<>> \/ ParseMintEvent(logs) \in stored
           THEN nfts' = nfts /\ TurnsTo(r, "failed")
           ELSE /\ nfts' = [s \in DOMAIN nfts \cup {r} |->
                              IF s = r THEN [token  |-> ParseMintEvent(logs),
                                             amount |-> minting[r].amount,
                                             value  |-> minting[r].amount]
                              ELSE nfts[s]]
                /\ TurnsTo(r, "done")
    /\ UNCHANGED <<chain, valuation>>

\* The server stops, or a call throws before the contract is called or after its
\* receipt came.
MintThrows(r) ==
    /\ r \in Mining
    /\ TurnsTo(r, "failed")
    /\ UNCHANGED <<chain, nfts, valuation>>

-----------------------------------------------------------------------------
\* updateNFTValue finds the document and saves the one field that it changes.

FindNft(u, r, value) ==
    /\ valuation[u].pc = "new" /\ r \in DOMAIN nfts
    /\ valuation' = [valuation EXCEPT ![u] = [pc |-> "save", of |-> {r}, value |-> value]]
    /\ UNCHANGED <<chain, minting, nfts>>

SaveNftValue(u) ==
    /\ valuation[u].pc = "save"
    /\ nfts' = [r \in DOMAIN nfts |->
         IF r \in valuation[u].of THEN [nfts[r] EXCEPT !.value = valuation[u].value] ELSE nfts[r]]
    /\ valuation' = [valuation EXCEPT ![u].pc = "done"]
    /\ UNCHANGED <<chain, minting>>

NftRecordsNext ==
    \/ \E r \in Mints :
         \/ \E amount \in Worths : MintNft(r, amount)
         \/ \E before, after \in {<<>>} \cup {<<t>> : t \in DOMAIN chain} : Mined(r, before, after)
         \/ Reverted(r) \/ Unheard(r) \/ StoreNft(r) \/ MintThrows(r)
    \/ \E u \in Valuations :
         \/ \E r \in Mints, value \in Worths \cup {0} : FindNft(u, r, value)
         \/ SaveNftValue(u)

NftRecordsSpec == NftRecordsInit /\ [][NftRecordsNext]_nftRecords

-----------------------------------------------------------------------------

\* A document is about the token its own request had minted, whatever else was
\* minted, moved, reverted or lost meanwhile, so that no two are about one token;
\* and a value differs from the amount invested only by a valuation of that token.
DocumentsOfMints ==
    \A r \in DOMAIN nfts :
        /\ nfts[r].token \in DOMAIN chain /\ chain[nfts[r].token] = r
        /\ nfts[r].value # nfts[r].amount =>
             \E u \in Valuations : r \in valuation[u].of /\ valuation[u].value = nfts[r].value
=============================================================================
