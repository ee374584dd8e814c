--------------------------- MODULE InvestmentNFT ---------------------------
(***************************************************************************)
(* contracts/InvestmentNFT.sol over OpenZeppelin's ERC721.  A transaction  *)
(* is atomic and one that reverts leaves no trace, but _safeMint and       *)
(* safeTransferFrom call a receiving contract back before this contract    *)
(* has finished its own bookkeeping; meanwhile holders may transfer again. *)
(* The calls waiting for a callback are the stack.                         *)
(***************************************************************************)
EXTENDS Naturals, Sequences, FiniteSets

CONSTANTS
    Addr,          \* addresses that may hold tokens
    Contracts,     \* those that are contracts, and are called back
    Projects, Investments,   \* backend ids
    MaxTokens, MaxValue, MaxMoves, MaxDepth    \* bounds

ASSUME ContractsAssumption == Contracts \subseteq Addr
ASSUME TokenBounds == MaxTokens \in Nat /\ MaxValue \in Nat \ {0}

VARIABLES
    minted,      \* _tokenIds
    owner,       \* [1 .. minted -> Addr], ERC721's _owners
    data,        \* tokenId -> InvestmentData, for the tokens that have one
    projectToNFTs, investorToNFTs, investmentIdToTokenId,
    stack,       \* the calls that wait for a callback to return
    moves        \* transfers so far (a bound)

vars == <<minted, owner, data, projectToNFTs, investorToNFTs,
          investmentIdToTokenId, stack, moves>>

Tokens == 1 .. minted

InvestmentData ==
    [projectId : Projects, investor : Addr, initialAmount : 1 .. MaxValue,
     currentValue : 0 .. MaxValue, isActive : BOOLEAN, investmentId : Investments]

Frame ==
    [call : {"mint"}, token : Nat, to : Addr, datum : InvestmentData]
        \cup [call : {"safeTransferFrom"}, token : Nat, to : Addr]

TypeOK ==
    /\ minted \in Nat
    /\ owner \in [Tokens -> Addr]
    /\ DOMAIN data \subseteq Tokens /\ data \in [DOMAIN data -> InvestmentData]
    /\ projectToNFTs \in [Projects -> Seq(Nat)]
    /\ investorToNFTs \in [Addr -> Seq(Nat)]
    /\ investmentIdToTokenId \in [Investments -> Nat]
    /\ stack \in Seq(Frame)
    /\ moves \in Nat

Init ==
    /\ minted = 0 /\ owner = <<>> /\ data = <<>>
    /\ projectToNFTs = [p \in Projects |-> <<>>]
    /\ investorToNFTs = [a \in Addr |-> <<>>]
    /\ investmentIdToTokenId = [i \in Investments |-> 0]
    /\ stack = <<>> /\ moves = 0

-----------------------------------------------------------------------------

Push(f, k, t) == [f EXCEPT ![k] = Append(@, t)]

\* What mintInvestmentNFT does once _safeMint has returned.
Record(t, to, d) ==
    /\ data' = [u \in DOMAIN data \cup {t} |-> IF u = t THEN d ELSE data[u]]
    /\ projectToNFTs' = Push(projectToNFTs, d.projectId, t)
    /\ investorToNFTs' = Push(investorToNFTs, to, t)
    /\ investmentIdToTokenId' = [investmentIdToTokenId EXCEPT ![d.investmentId] = t]

Enter(frame) == stack' = Append(stack, frame)

\* mintInvestmentNFT, by the holder of MINTER_ROLE.
Mint(to, p, a, i) ==
    /\ stack = <<>> /\ minted < MaxTokens
    /\ minted' = minted + 1
    /\ owner' = [t \in 1 .. minted + 1 |-> IF t = minted + 1 THEN to ELSE owner[t]]
    /\ LET d == [projectId |-> p, investor |-> to, initialAmount |-> a,
                 currentValue |-> a, isActive |-> TRUE, investmentId |-> i]
       IN IF to \in Contracts
          THEN /\ Enter([call |-> "mint", token |-> minted + 1, to |-> to, datum |-> d])
               /\ UNCHANGED <<data, projectToNFTs, investorToNFTs, investmentIdToTokenId>>
          ELSE Record(minted + 1, to, d) /\ stack' = stack
    /\ moves' = moves

\* Mutant of Moved: the new holder's list is forgotten.
MovedUnlisted(t, to) ==
    /\ data' = [u \in DOMAIN data |-> IF u = t THEN [data[u] EXCEPT !.investor = to] ELSE data[u]]
    /\ investorToNFTs' = investorToNFTs

\* Mutant of Moved: the recorded investor stays.
MovedInvestorKept(t, to) ==
    /\ data' = data
    /\ investorToNFTs' = Push(investorToNFTs, to, t)

\* The contract's bookkeeping after a transfer.  A token whose mint is still in
\* its callback has no data yet: what is written then is replaced by Record.
Moved(t, to) ==
    /\ data' = [u \in DOMAIN data |-> IF u = t THEN [data[u] EXCEPT !.investor = to] ELSE data[u]]
    /\ investorToNFTs' = Push(investorToNFTs, to, t)

\* Transfers are made by themselves or from within a callback.
Transferable(t) ==
    /\ t \in Tokens /\ moves < MaxMoves
    /\ moves' = moves + 1

\* transferFrom, by the owner or someone the owner approved.
TransferFrom(t, to) ==
    /\ Transferable(t)
    /\ owner' = [owner EXCEPT ![t] = to]
    /\ Moved(t, to)
    /\ UNCHANGED <<minted, projectToNFTs, investmentIdToTokenId, stack>>

\* safeTransferFrom: the bookkeeping waits for the receiver.
SafeTransferFrom(t, to) ==
    /\ Transferable(t)
    /\ owner' = [owner EXCEPT ![t] = to]
    /\ IF to \in Contracts
       THEN /\ Len(stack) < MaxDepth
            /\ Enter([call |-> "safeTransferFrom", token |-> t, to |-> to])
            /\ UNCHANGED <<data, investorToNFTs>>
       ELSE Moved(t, to) /\ stack' = stack
    /\ UNCHANGED <<minted, projectToNFTs, investmentIdToTokenId>>

\* Mutant of Return: a mint is finished like a transfer.
ReturnMoved ==
    /\ stack # <<>>
    /\ Moved(stack[Len(stack)].token, stack[Len(stack)].to)
    /\ stack' = SubSeq(stack, 1, Len(stack) - 1)
    /\ UNCHANGED <<minted, owner, moves, projectToNFTs, investmentIdToTokenId>>

\* onERC721Received returns to the call that made it.
Return ==
    /\ stack # <<>>
    /\ LET f == stack[Len(stack)]
       IN IF f.call = "mint"
          THEN Record(f.token, f.to, f.datum)
          ELSE /\ Moved(f.token, f.to)
               /\ UNCHANGED <<projectToNFTs, investmentIdToTokenId>>
    /\ stack' = SubSeq(stack, 1, Len(stack) - 1)
    /\ UNCHANGED <<minted, owner, moves>>

SetData(t, d) ==
    /\ data' = [data EXCEPT ![t] = d]
    /\ UNCHANGED <<minted, owner, projectToNFTs, investorToNFTs,
                   investmentIdToTokenId, stack, moves>>

\* updateInvestmentValue, by the holder of UPDATER_ROLE.
UpdateInvestmentValue(t, v) ==
    /\ stack = <<>> /\ t \in Tokens /\ data[t].isActive
    /\ SetData(t, [data[t] EXCEPT !.currentValue = v])

\* Mutant of Updatable: inactive investments are updated too.
UpdatableAll(ts) == {n \in DOMAIN ts : ts[n] \in Tokens}

\* The entries batchUpdateValues does not skip.
Updatable(ts) == {n \in DOMAIN ts : ts[n] \in Tokens /\ data[ts[n]].isActive}

\* batchUpdateValues: of two values for one token the later one stays.
BatchUpdateValues(ts, vs) ==
    /\ stack = <<>> /\ Len(ts) = Len(vs)
    /\ data' = [t \in DOMAIN data |->
         LET at == {n \in Updatable(ts) : ts[n] = t}
         IN IF at = {} THEN data[t]
            ELSE [data[t] EXCEPT !.currentValue = vs[CHOOSE n \in at : \A k \in at : k <= n]]]
    /\ UNCHANGED <<minted, owner, projectToNFTs, investorToNFTs,
                   investmentIdToTokenId, stack, moves>>

DeactivateInvestment(t) ==
    /\ stack = <<>> /\ t \in Tokens
    /\ SetData(t, [data[t] EXCEPT !.isActive = FALSE])

Next ==
    \/ \E to \in Addr, p \in Projects, a \in 1 .. MaxValue, i \in Investments : Mint(to, p, a, i)
    \/ \E t \in Tokens, to \in Addr : TransferFrom(t, to) \/ SafeTransferFrom(t, to)
    \/ Return
    \/ \E t \in Tokens :
         \/ DeactivateInvestment(t)
         \/ \E v \in 0 .. MaxValue : UpdateInvestmentValue(t, v)
    \/ \E ts \in [1 .. 2 -> 1 .. MaxTokens], vs \in [1 .. 2 -> 0 .. MaxValue] :
         BatchUpdateValues(ts, vs)

Spec == Init /\ [][Next]_vars

-----------------------------------------------------------------------------

getProjectNFTs(projectId) == projectToNFTs[projectId]

getTokenIdByInvestmentId(investmentId) == investmentIdToTokenId[investmentId]

\* The token minted last; 0 is the id of no token.
Newest(S) == IF S = {} THEN 0 ELSE CHOOSE t \in S : \A u \in S : u <= t

Listed(s, t) == \E n \in DOMAIN s : s[n] = t

Occurrences(s, t) == {n \in DOMAIN s : s[n] = t}

\* Between transactions, the list of every token's holder has it: however a
\* receiver forwarded a token from within the callback that brought it.
HolderIsListed == stack = <<>> => \A t \in Tokens : Listed(investorToNFTs[owner[t]], t)

\* Between transactions the contract's two indexes are exact: every token is in its own
\* project's list, once, and in no other, and an investment id, which may be minted for
\* again, leads to the newest token minted for it.
IndexesExact ==
    stack = <<>> =>
        /\ DOMAIN data = Tokens
        /\ \A p \in Projects, t \in Tokens :
             Cardinality(Occurrences(getProjectNFTs(p), t)) = IF data[t].projectId = p THEN 1 ELSE 0
        /\ \A i \in Investments :
             getTokenIdByInvestmentId(i) = Newest({t \in Tokens : data[t].investmentId = i})

\* "Current owner": between transactions the recorded investor owns the token, or
\* is a contract that forwarded it from within its callback.
InvestorIsOwner ==
    stack = <<>> => \A t \in DOMAIN data :
        data[t].investor = owner[t] \/ data[t].investor \in Contracts

\* A deactivated investment keeps its value, and stays deactivated.
DeactivatedIsFrozen ==
    [][\A t \in DOMAIN data : ~ data[t].isActive =>
         /\ t \in DOMAIN data' /\ ~ data'[t].isActive
         /\ data'[t].currentValue = data[t].currentValue]_data

-----------------------------------------------------------------------------
(* The inductive strengthening of the safety properties.                   *)

\* Does a waiting call still have to list t for its holder?
Awaited(t) == \E n \in DOMAIN stack : stack[n].token = t /\ stack[n].to = owner[t]

HoldersOK == \A t \in Tokens : Listed(investorToNFTs[owner[t]], t) \/ Awaited(t)

\* Every waiting call is about a token, and a mint is the first of them: it is
\* the one token that has no data yet.
CallsOK ==
    \A n \in DOMAIN stack :
        /\ stack[n].token \in Tokens
        /\ stack[n].call = "mint" => n = 1 /\ stack[n].token \notin DOMAIN data

DataOK == \A t \in Tokens : t \in DOMAIN data \/ \E n \in DOMAIN stack : stack[n].call = "mint" /\ stack[n].token = t

IInv == TypeOK /\ CallsOK /\ DataOK /\ HoldersOK
=============================================================================
