------------------------ MODULE InvestmentNFTProofs ------------------------
(***************************************************************************)
(* Proofs about the investment NFT contract, for any holders, contracts    *)
(* and projects and any nesting of callbacks.                              *)
(***************************************************************************)
EXTENDS InvestmentNFT, FiniteSetTheorems, TLAPS

\* A new element at the end of a sequence: the ones before it stay.
LEMMA Entered ==
    ASSUME NEW S, NEW s \in Seq(S), NEW f \in S
    PROVE  /\ Append(s, f) \in Seq(S) /\ DOMAIN Append(s, f) = DOMAIN s \cup {Len(s) + 1}
           /\ Append(s, f)[Len(s) + 1] = f
           /\ \A n \in DOMAIN s : Append(s, f)[n] = s[n] /\ n # Len(s) + 1
  OBVIOUS

\* The last element leaves: the ones before it stay.
LEMMA Left ==
    ASSUME NEW S, NEW s \in Seq(S), s # <<>>
    PROVE  /\ SubSeq(s, 1, Len(s) - 1) \in Seq(S)
           /\ DOMAIN s = DOMAIN SubSeq(s, 1, Len(s) - 1) \cup {Len(s)}
           /\ s[Len(s)] \in S /\ Len(s) \in DOMAIN s
           /\ \A n \in DOMAIN SubSeq(s, 1, Len(s) - 1) :
                SubSeq(s, 1, Len(s) - 1)[n] = s[n] /\ n # Len(s)
<1> DEFINE r == SubSeq(s, 1, Len(s) - 1)
<1>1. Len(s) \in Nat \ {0} /\ DOMAIN s = 1 .. Len(s)
  OBVIOUS
<1>2. \A n \in 1 .. Len(s) - 1 : s[n] \in S
  BY <1>1
<1>3. r \in Seq(S) /\ Len(r) = Len(s) - 1
  BY <1>1, <1>2
<1>4. \A n \in 1 .. Len(s) - 1 : r[n] = s[n]
  BY <1>1
<1>5. DOMAIN r = 1 .. Len(s) - 1
  BY <1>3
<1>6. s[Len(s)] \in S
  BY <1>1
<1>7. 1 .. Len(s) = (1 .. Len(s) - 1) \cup {Len(s)}
  BY <1>1
<1>8. \A n \in 1 .. Len(s) - 1 : n # Len(s)
  <2>1. \A m \in Nat : \A n \in 1 .. m - 1 : n # m
    OBVIOUS
  <2> QED BY <1>1, <2>1
<1> QED BY <1>1, <1>3, <1>4, <1>5, <1>6, <1>7, <1>8

\* Appending to one list of a family keeps the family well typed, what the
\* lists have, and adds the new element.
LEMMA PushLists ==
    ASSUME NEW K, NEW f \in [K -> Seq(Nat)], NEW k \in K, NEW t \in Nat
    PROVE  /\ Push(f, k, t) \in [K -> Seq(Nat)]
           /\ Listed(Push(f, k, t)[k], t)
           /\ \A j \in K, u \in Nat : Listed(f[j], u) => Listed(Push(f, k, t)[j], u)
<1>1. Append(f[k], t) \in Seq(Nat) /\ Len(Append(f[k], t)) = Len(f[k]) + 1
  OBVIOUS
<1>2. Push(f, k, t) = [f EXCEPT ![k] = Append(f[k], t)]
  BY DEF Push
<1>3. Push(f, k, t)[k] = Append(f[k], t)
  BY <1>2
<1>4. Listed(Append(f[k], t), t)
  BY Entered DEF Listed
<1>5. \A u \in Nat : Listed(f[k], u) => Listed(Append(f[k], t), u)
  BY Entered DEF Listed
<1>6. \A j \in K \ {k} : Push(f, k, t)[j] = f[j]
  BY <1>2
<1>7. Push(f, k, t) \in [K -> Seq(Nat)]
  BY <1>1, <1>2
<1> QED BY <1>3, <1>4, <1>5, <1>6, <1>7

LEMMA InitInv == Init => IInv
  BY DEF Init, IInv, TypeOK, CallsOK, DataOK, HoldersOK, Tokens

\* What a call that waits becomes when it is recorded keeps data well typed.
LEMMA RecordTyped ==
    ASSUME TypeOK, NEW t \in Nat, NEW to \in Addr, NEW d \in InvestmentData, Record(t, to, d)
    PROVE  /\ DOMAIN data' = DOMAIN data \cup {t}
           /\ data' \in [DOMAIN data' -> InvestmentData]
           /\ projectToNFTs' \in [Projects -> Seq(Nat)]
           /\ investorToNFTs' \in [Addr -> Seq(Nat)]
           /\ investmentIdToTokenId' \in [Investments -> Nat]
           /\ Listed(investorToNFTs'[to], t)
           /\ \A a \in Addr, u \in Nat : Listed(investorToNFTs[a], u) => Listed(investorToNFTs'[a], u)
           /\ \A u \in DOMAIN data \ {t} : data'[u] = data[u]
<1>1. d.projectId \in Projects /\ d.investmentId \in Investments
  BY DEF InvestmentData
<1>2. projectToNFTs' \in [Projects -> Seq(Nat)]
  BY <1>1, PushLists DEF Record, TypeOK
<1>3. /\ investorToNFTs' \in [Addr -> Seq(Nat)]
      /\ Listed(investorToNFTs'[to], t)
      /\ \A a \in Addr, u \in Nat : Listed(investorToNFTs[a], u) => Listed(investorToNFTs'[a], u)
  <2>1. investorToNFTs' = Push(investorToNFTs, to, t) /\ investorToNFTs \in [Addr -> Seq(Nat)]
    BY DEF Record, TypeOK
  <2> QED BY <2>1, PushLists
<1>4. investmentIdToTokenId' \in [Investments -> Nat]
  BY <1>1 DEF Record, TypeOK
<1>5. data' = [u \in DOMAIN data \cup {t} |-> IF u = t THEN d ELSE data[u]]
  BY DEF Record
<1>6. data \in [DOMAIN data -> InvestmentData]
  BY DEF TypeOK
<1> QED BY <1>2, <1>3, <1>4, <1>5, <1>6

LEMMA MovedTyped ==
    ASSUME TypeOK, NEW t \in Nat, NEW to \in Addr, Moved(t, to)
    PROVE  /\ DOMAIN data' = DOMAIN data
           /\ data' \in [DOMAIN data' -> InvestmentData]
           /\ investorToNFTs' \in [Addr -> Seq(Nat)]
           /\ Listed(investorToNFTs'[to], t)
           /\ \A a \in Addr, u \in Nat : Listed(investorToNFTs[a], u) => Listed(investorToNFTs'[a], u)
           /\ \A u \in DOMAIN data : /\ data'[u].isActive = data[u].isActive
                                     /\ data'[u].currentValue = data[u].currentValue
<1>1. /\ investorToNFTs' \in [Addr -> Seq(Nat)]
      /\ Listed(investorToNFTs'[to], t)
      /\ \A a \in Addr, u \in Nat : Listed(investorToNFTs[a], u) => Listed(investorToNFTs'[a], u)
  <2>1. investorToNFTs' = Push(investorToNFTs, to, t) /\ investorToNFTs \in [Addr -> Seq(Nat)]
    BY DEF Moved, TypeOK
  <2> QED BY <2>1, PushLists
<1>2. data' = [u \in DOMAIN data |-> IF u = t THEN [data[u] EXCEPT !.investor = to] ELSE data[u]]
  BY DEF Moved
<1>3. \A u \in DOMAIN data : data[u] \in InvestmentData
  BY DEF TypeOK
<1>4. \A u \in DOMAIN data : /\ [data[u] EXCEPT !.investor = to] \in InvestmentData
                             /\ [data[u] EXCEPT !.investor = to].isActive = data[u].isActive
                             /\ [data[u] EXCEPT !.investor = to].currentValue = data[u].currentValue
  BY <1>3 DEF InvestmentData
<1> QED BY <1>1, <1>2, <1>3, <1>4

LEMMA MintInv ==
    ASSUME IInv, NEW to \in Addr, NEW p \in Projects, NEW a \in 1 .. MaxValue,
           NEW i \in Investments, Mint(to, p, a, i)
    PROVE  IInv'
<1> DEFINE d == [projectId |-> p, investor |-> to, initialAmount |-> a,
                 currentValue |-> a, isActive |-> TRUE, investmentId |-> i]
           t == minted + 1
           f == [call |-> "mint", token |-> t, to |-> to, datum |-> d]
<1>1. d \in InvestmentData /\ t \in Nat /\ f \in Frame
  BY TokenBounds DEF InvestmentData, Frame, IInv, TypeOK
<1>2. /\ minted' = t /\ Tokens' = Tokens \cup {t} /\ t \notin Tokens
      /\ owner' \in [Tokens' -> Addr] /\ owner'[t] = to /\ \A u \in Tokens : owner'[u] = owner[u]
      /\ moves' \in Nat
  BY DEF Mint, Tokens, IInv, TypeOK
<1>3. stack = <<>> /\ DOMAIN stack = {} /\ Tokens = DOMAIN data
  <2>1. stack = <<>> /\ DOMAIN stack = {}
    BY DEF Mint
  <2> QED BY <2>1 DEF IInv, DataOK, TypeOK
<1>4. CASE to \in Contracts
  <2>1. /\ stack' = Append(stack, f)
        /\ UNCHANGED <<data, projectToNFTs, investorToNFTs, investmentIdToTokenId>>
    BY <1>4 DEF Mint, Enter
  <2>2. /\ stack' \in Seq(Frame) /\ DOMAIN stack' = {1} /\ stack'[1] = f
    BY <1>1, <1>3, <2>1
  <2>3. TypeOK'
    BY <1>2, <2>1, <2>2 DEF TypeOK, IInv
  <2>4. CallsOK' /\ DataOK'
    BY <1>2, <1>3, <2>1, <2>2 DEF CallsOK, DataOK
  <2>5. HoldersOK'
    <3>1. \E n \in DOMAIN stack' : stack'[n].token = t /\ stack'[n].to = owner'[t]
      BY <1>2, <2>2
    <3>2. \A u \in Tokens : Listed(investorToNFTs[owner[u]], u)
      BY <1>3 DEF IInv, HoldersOK, Awaited
    <3>3. \A u \in Tokens : Listed(investorToNFTs'[owner'[u]], u)
      BY <3>2, <2>1, <1>2
    <3> QED BY <3>1, <3>3, <1>2 DEF HoldersOK, Awaited
  <2> QED BY <2>3, <2>4, <2>5 DEF IInv
<1>5. CASE to \notin Contracts
  <2>1. Record(t, to, d) /\ stack' = stack
    BY <1>5 DEF Mint
  <2>2. TypeOK
    BY DEF IInv
  <2>3. /\ DOMAIN data' = DOMAIN data \cup {t}
        /\ data' \in [DOMAIN data' -> InvestmentData]
        /\ projectToNFTs' \in [Projects -> Seq(Nat)]
        /\ investorToNFTs' \in [Addr -> Seq(Nat)]
        /\ investmentIdToTokenId' \in [Investments -> Nat]
        /\ Listed(investorToNFTs'[to], t)
        /\ \A b \in Addr, u \in Nat : Listed(investorToNFTs[b], u) => Listed(investorToNFTs'[b], u)
    BY <2>1, <2>2, <1>1, RecordTyped
  <2>4. TypeOK'
    BY <1>2, <1>3, <2>1, <2>2, <2>3 DEF TypeOK
  <2>5. CallsOK' /\ DataOK'
    BY <1>2, <1>3, <2>1, <2>3 DEF CallsOK, DataOK
  <2>6. HoldersOK'
    <3>1. \A u \in Tokens : Listed(investorToNFTs[owner[u]], u) /\ owner[u] \in Addr /\ u \in Nat
      BY <1>3, <2>2 DEF IInv, HoldersOK, Awaited, TypeOK, Tokens
    <3>2. \A u \in Tokens : Listed(investorToNFTs'[owner'[u]], u)
      BY <3>1, <2>3, <1>2
    <3> QED BY <3>2, <2>3, <1>2 DEF HoldersOK
  <2> QED BY <2>4, <2>5, <2>6 DEF IInv
<1> QED BY <1>4, <1>5

LEMMA TransferInv ==
    ASSUME IInv, NEW t \in Tokens, NEW to \in Addr, TransferFrom(t, to)
    PROVE  IInv'
<1>1. TypeOK /\ t \in Nat /\ Moved(t, to)
  BY DEF IInv, TransferFrom, Tokens, TypeOK
<1>2. /\ DOMAIN data' = DOMAIN data
      /\ data' \in [DOMAIN data' -> InvestmentData]
      /\ investorToNFTs' \in [Addr -> Seq(Nat)]
      /\ Listed(investorToNFTs'[to], t)
      /\ \A a \in Addr, u \in Nat : Listed(investorToNFTs[a], u) => Listed(investorToNFTs'[a], u)
  BY <1>1, MovedTyped
<1>3. /\ Tokens' = Tokens /\ minted' = minted /\ stack' = stack /\ moves' \in Nat
      /\ owner' \in [Tokens -> Addr] /\ owner'[t] = to
      /\ \A u \in Tokens \ {t} : owner'[u] = owner[u]
      /\ UNCHANGED <<projectToNFTs, investmentIdToTokenId>>
  BY <1>1 DEF TransferFrom, Transferable, Tokens, TypeOK
<1>4. TypeOK'
  BY <1>1, <1>2, <1>3 DEF TypeOK
<1>5. CallsOK' /\ DataOK'
  BY <1>2, <1>3 DEF CallsOK, DataOK, IInv
<1>6. ASSUME NEW u \in Tokens PROVE (Listed(investorToNFTs[owner[u]], u) \/ Awaited(u))'
  <2>1. CASE u = t
    BY <2>1, <1>2, <1>3
  <2>2. CASE u # t
    <3>1. owner[u] \in Addr /\ u \in Nat /\ (Listed(investorToNFTs[owner[u]], u) \/ Awaited(u))
      BY <1>1 DEF TypeOK, Tokens, IInv, HoldersOK
    <3>2. owner'[u] = owner[u]
      BY <2>2, <1>3
    <3>3. Awaited(u) => Awaited(u)'
      BY <3>2, <1>3 DEF Awaited
    <3>4. Listed(investorToNFTs[owner[u]], u) => Listed(investorToNFTs[owner[u]], u)'
      BY <3>1, <3>2, <1>2
    <3> QED BY <3>1, <3>3, <3>4
  <2> QED BY <2>1, <2>2
<1>7. HoldersOK'
  BY <1>3, <1>6 DEF HoldersOK
<1> QED BY <1>4, <1>5, <1>7 DEF IInv

LEMMA SafeTransferInv ==
    ASSUME IInv, NEW t \in Tokens, NEW to \in Addr, SafeTransferFrom(t, to)
    PROVE  IInv'
<1>1. CASE to \notin Contracts
  <2>1. TransferFrom(t, to)
    BY <1>1 DEF SafeTransferFrom, TransferFrom
  <2> QED BY <2>1, TransferInv
<1>2. CASE to \in Contracts
  <2> DEFINE f == [call |-> "safeTransferFrom", token |-> t, to |-> to]
  <2>1. TypeOK /\ f \in Frame
    BY DEF IInv, Frame, Tokens, TypeOK
  <2>2. /\ stack' = Append(stack, f) /\ UNCHANGED <<data, investorToNFTs, minted>>
        /\ UNCHANGED <<projectToNFTs, investmentIdToTokenId>>
        /\ Tokens' = Tokens /\ moves' \in Nat
        /\ owner' \in [Tokens -> Addr] /\ owner'[t] = to
        /\ \A u \in Tokens \ {t} : owner'[u] = owner[u]
    BY <1>2, <2>1 DEF SafeTransferFrom, Transferable, Enter, Tokens, TypeOK
  <2>3. stack \in Seq(Frame)
    BY <2>1 DEF TypeOK
  <2>4. /\ stack' \in Seq(Frame) /\ DOMAIN stack' = DOMAIN stack \cup {Len(stack) + 1}
        /\ stack'[Len(stack) + 1] = f
        /\ \A n \in DOMAIN stack : stack'[n] = stack[n]
    BY <2>1, <2>2, <2>3, Entered
  <2>5. TypeOK'
    BY <2>1, <2>2, <2>4 DEF TypeOK
  <2>6. CallsOK' /\ DataOK'
    BY <2>2, <2>4 DEF CallsOK, DataOK, IInv
  <2>7. ASSUME NEW u \in Tokens PROVE (Listed(investorToNFTs[owner[u]], u) \/ Awaited(u))'
    <3>1. CASE u = t
      BY <3>1, <2>2, <2>4 DEF Awaited
    <3>2. CASE u # t
      <4>1. Listed(investorToNFTs[owner[u]], u) \/ Awaited(u)
        BY DEF IInv, HoldersOK
      <4>2. owner'[u] = owner[u]
        BY <3>2, <2>2
      <4>3. Awaited(u) => Awaited(u)'
        BY <4>2, <2>4 DEF Awaited
      <4> QED BY <4>1, <4>2, <4>3, <2>2
    <3> QED BY <3>1, <3>2
  <2> QED BY <2>2, <2>5, <2>6, <2>7 DEF IInv, HoldersOK
<1> QED BY <1>1, <1>2

LEMMA ReturnInv ==
    ASSUME IInv, Return
    PROVE  IInv'
<1> DEFINE f == stack[Len(stack)]
<1>1. TypeOK /\ stack \in Seq(Frame) /\ stack # <<>>
  BY DEF IInv, TypeOK, Return
<1>2. /\ stack' \in Seq(Frame) /\ DOMAIN stack = DOMAIN stack' \cup {Len(stack)} /\ f \in Frame
      /\ Len(stack) \in DOMAIN stack
      /\ \A n \in DOMAIN stack' : stack'[n] = stack[n] /\ n # Len(stack)
  <2>1. stack' = SubSeq(stack, 1, Len(stack) - 1)
    BY DEF Return
  <2>2. f = stack[Len(stack)]
    OBVIOUS
  <2> HIDE DEF f
  <2>3. /\ SubSeq(stack, 1, Len(stack) - 1) \in Seq(Frame)
        /\ DOMAIN stack = DOMAIN SubSeq(stack, 1, Len(stack) - 1) \cup {Len(stack)}
        /\ stack[Len(stack)] \in Frame /\ Len(stack) \in DOMAIN stack
        /\ \A n \in DOMAIN SubSeq(stack, 1, Len(stack) - 1) :
             SubSeq(stack, 1, Len(stack) - 1)[n] = stack[n] /\ n # Len(stack)
    BY <1>1, Left, Zenon
  <2> QED BY <2>1, <2>2, <2>3, Zenon
<1>3. f.token \in Tokens /\ f.token \in Nat /\ f.to \in Addr
  BY <1>1, <1>2 DEF IInv, CallsOK, Frame, Tokens, TypeOK
<1>4. /\ Tokens' = Tokens /\ UNCHANGED <<minted, owner, moves>>
  BY DEF Return, Tokens
<1>5. ASSUME /\ investorToNFTs' \in [Addr -> Seq(Nat)]
             /\ Listed(investorToNFTs'[f.to], f.token)
             /\ \A a \in Addr, u \in Nat : Listed(investorToNFTs[a], u) => Listed(investorToNFTs'[a], u)
      PROVE  HoldersOK'
  <2>1. ASSUME NEW u \in Tokens PROVE (Listed(investorToNFTs[owner[u]], u) \/ Awaited(u))'
    <3>1. owner[u] \in Addr /\ u \in Nat /\ owner'[u] = owner[u]
      BY <1>1, <1>4 DEF TypeOK, Tokens
    <3>2. CASE Listed(investorToNFTs[owner[u]], u)
      BY <3>1, <3>2, <1>5
    <3>3. CASE Awaited(u)
      <4>1. PICK n \in DOMAIN stack : stack[n].token = u /\ stack[n].to = owner[u]
        BY <3>3 DEF Awaited
      <4>2. CASE n \in DOMAIN stack'
        BY <4>1, <4>2, <3>1, <1>2 DEF Awaited
      <4>3. CASE n = Len(stack)
        BY <4>1, <4>3, <3>1, <1>5
      <4> QED BY <4>2, <4>3, <1>2
    <3> QED BY <3>2, <3>3 DEF IInv, HoldersOK
  <2> QED BY <2>1, <1>4 DEF HoldersOK
<1>6. CASE f.call = "mint"
  <2>1. f.datum \in InvestmentData
    BY <1>2, <1>6 DEF Frame
  <2>2. Record(f.token, f.to, f.datum)
    BY <1>6 DEF Return
  <2>3. /\ DOMAIN data' = DOMAIN data \cup {f.token}
        /\ data' \in [DOMAIN data' -> InvestmentData]
        /\ projectToNFTs' \in [Projects -> Seq(Nat)]
        /\ investorToNFTs' \in [Addr -> Seq(Nat)]
        /\ investmentIdToTokenId' \in [Investments -> Nat]
        /\ Listed(investorToNFTs'[f.to], f.token)
        /\ \A a \in Addr, u \in Nat : Listed(investorToNFTs[a], u) => Listed(investorToNFTs'[a], u)
    BY <1>1, <1>3, <2>1, <2>2, RecordTyped
  <2>4. TypeOK'
    BY <1>1, <1>2, <1>3, <1>4, <2>3 DEF TypeOK
  <2>5. Len(stack) = 1 /\ DOMAIN stack' = {}
    <3>1. Len(stack) = 1
      BY <1>2, <1>6 DEF IInv, CallsOK
    <3> QED BY <3>1, <1>1, <1>2
  <2>6. CallsOK' /\ DataOK'
    BY <1>2, <1>4, <2>3, <2>5 DEF IInv, CallsOK, DataOK
  <2> QED BY <2>3, <2>4, <2>6, <1>5 DEF IInv
<1>7. CASE f.call # "mint"
  <2>1. Moved(f.token, f.to) /\ UNCHANGED <<projectToNFTs, investmentIdToTokenId>>
    BY <1>7 DEF Return
  <2>2. /\ DOMAIN data' = DOMAIN data
        /\ data' \in [DOMAIN data' -> InvestmentData]
        /\ investorToNFTs' \in [Addr -> Seq(Nat)]
        /\ Listed(investorToNFTs'[f.to], f.token)
        /\ \A a \in Addr, u \in Nat : Listed(investorToNFTs[a], u) => Listed(investorToNFTs'[a], u)
    BY <1>1, <1>3, <2>1, MovedTyped
  <2>3. TypeOK'
    BY <1>1, <1>2, <1>4, <2>1, <2>2 DEF TypeOK
  <2>4. CallsOK'
    BY <1>2, <1>4, <2>2 DEF IInv, CallsOK
  <2>5. DataOK'
    <3>1. ASSUME NEW u \in Tokens, u \notin DOMAIN data
          PROVE  \E n \in DOMAIN stack' : stack'[n].call = "mint" /\ stack'[n].token = u
      <4>1. PICK n \in DOMAIN stack : stack[n].call = "mint" /\ stack[n].token = u
        BY <3>1 DEF IInv, DataOK
      <4>2. n \in DOMAIN stack'
        BY <4>1, <1>2, <1>7
      <4> QED BY <4>1, <4>2, <1>2
    <3> QED BY <3>1, <1>4, <2>2 DEF DataOK
  <2> QED BY <2>2, <2>3, <2>4, <2>5, <1>5 DEF IInv
<1> QED BY <1>6, <1>7

\* Values and activity are set between transactions; nothing else is.
LEMMA DatumInv ==
    ASSUME IInv, DOMAIN data' = DOMAIN data, data' \in [DOMAIN data' -> InvestmentData],
           UNCHANGED <<minted, owner, projectToNFTs, investorToNFTs,
                       investmentIdToTokenId, stack, moves>>
    PROVE  IInv'
<1>1. TypeOK'
  BY DEF IInv, TypeOK, Tokens
<1>2. CallsOK' /\ DataOK' /\ HoldersOK'
  BY DEF IInv, CallsOK, DataOK, HoldersOK, Awaited, Tokens
<1> QED BY <1>1, <1>2 DEF IInv

\* A new record in the place of one of a token.
LEMMA SetTyped ==
    ASSUME IInv, NEW t \in Tokens, stack = <<>>, NEW d \in InvestmentData, SetData(t, d)
    PROVE  /\ t \in DOMAIN data /\ data[t] \in InvestmentData
           /\ DOMAIN data' = DOMAIN data /\ data' \in [DOMAIN data' -> InvestmentData]
           /\ data'[t] = d /\ \A u \in DOMAIN data \ {t} : data'[u] = data[u]
<1>1. data \in [DOMAIN data -> InvestmentData] /\ DOMAIN stack = {}
  BY DEF IInv, TypeOK
<1>2. t \in DOMAIN data
  BY <1>1 DEF IInv, DataOK
<1>3. data' = [data EXCEPT ![t] = d]
  BY DEF SetData
<1> QED BY <1>1, <1>2, <1>3

\* Between transactions every token has its data.
LEMMA HasData ==
    ASSUME IInv, NEW t \in Tokens, stack = <<>>
    PROVE  t \in DOMAIN data /\ data[t] \in InvestmentData
<1>1. DOMAIN stack = {}
  OBVIOUS
<1> QED BY <1>1 DEF IInv, DataOK, TypeOK

LEMMA UpdateTyped ==
    ASSUME IInv, NEW t \in Tokens, NEW v \in 0 .. MaxValue, UpdateInvestmentValue(t, v)
    PROVE  /\ DOMAIN data' = DOMAIN data /\ data' \in [DOMAIN data' -> InvestmentData]
           /\ data[t].isActive /\ \A u \in DOMAIN data \ {t} : data'[u] = data[u]
<1>1. data[t] \in InvestmentData
  BY HasData DEF UpdateInvestmentValue
<1>2. [data[t] EXCEPT !.currentValue = v] \in InvestmentData
  BY <1>1 DEF InvestmentData
<1> QED BY <1>2, SetTyped DEF UpdateInvestmentValue

LEMMA DeactivateTyped ==
    ASSUME IInv, NEW t \in Tokens, DeactivateInvestment(t)
    PROVE  /\ DOMAIN data' = DOMAIN data /\ data' \in [DOMAIN data' -> InvestmentData]
           /\ ~ data'[t].isActive /\ data'[t].currentValue = data[t].currentValue
           /\ \A u \in DOMAIN data \ {t} : data'[u] = data[u]
<1>1. data[t] \in InvestmentData
  BY HasData DEF DeactivateInvestment
<1>2. /\ [data[t] EXCEPT !.isActive = FALSE] \in InvestmentData
      /\ [data[t] EXCEPT !.isActive = FALSE].currentValue = data[t].currentValue
      /\ [data[t] EXCEPT !.isActive = FALSE].isActive = FALSE
  BY <1>1 DEF InvestmentData
<1> QED BY <1>2, SetTyped DEF DeactivateInvestment

\* A batch gives a token a value of the batch, if it is active, or leaves it alone.
LEMMA BatchTyped ==
    ASSUME IInv, NEW ts \in [1 .. 2 -> 1 .. MaxTokens], NEW vs \in [1 .. 2 -> 0 .. MaxValue],
           BatchUpdateValues(ts, vs)
    PROVE  /\ DOMAIN data' = DOMAIN data
           /\ \A t \in DOMAIN data :
                \/ data'[t] = data[t]
                \/ data[t].isActive /\ \E v \in 0 .. MaxValue : data'[t] = [data[t] EXCEPT !.currentValue = v]
<1>1. data' = [t \in DOMAIN data |->
         LET at == {n \in Updatable(ts) : ts[n] = t}
         IN IF at = {} THEN data[t]
            ELSE [data[t] EXCEPT !.currentValue = vs[CHOOSE n \in at : \A k \in at : k <= n]]]
  BY DEF BatchUpdateValues
<1>2. SUFFICES ASSUME NEW t \in DOMAIN data
               PROVE  \/ data'[t] = data[t]
                      \/ data[t].isActive /\ \E v \in 0 .. MaxValue : data'[t] = [data[t] EXCEPT !.currentValue = v]
  BY <1>1
<1> DEFINE at == {n \in Updatable(ts) : ts[n] = t}
           last == CHOOSE n \in at : \A k \in at : k <= n
<1>3. at \subseteq 1 .. 2 /\ (at # {} => data[t].isActive)
  BY DEF Updatable
<1>4. at # {} => \E n \in at : \A k \in at : k <= n
  BY <1>3
<1>5. at # {} => last \in 1 .. 2
  BY <1>3, <1>4
<1>6. at # {} => vs[last] \in 0 .. MaxValue
  BY <1>5
<1>7. data'[t] = IF at = {} THEN data[t] ELSE [data[t] EXCEPT !.currentValue = vs[last]]
  BY <1>1
<1> QED BY <1>3, <1>6, <1>7

LEMMA NextInv == IInv /\ [Next]_vars => IInv'
<1> SUFFICES ASSUME IInv, [Next]_vars PROVE IInv'
  OBVIOUS
<1>1. CASE \E to \in Addr, p \in Projects, a \in 1 .. MaxValue, i \in Investments : Mint(to, p, a, i)
  BY <1>1, MintInv
<1>2. CASE \E t \in Tokens, to \in Addr : TransferFrom(t, to) \/ SafeTransferFrom(t, to)
  BY <1>2, TransferInv, SafeTransferInv
<1>3. CASE Return
  BY <1>3, ReturnInv
<1>4. ASSUME NEW t \in Tokens, DeactivateInvestment(t) PROVE IInv'
  <2>1. UNCHANGED <<minted, owner, projectToNFTs, investorToNFTs, investmentIdToTokenId, stack, moves>>
    BY <1>4 DEF DeactivateInvestment, SetData
  <2> QED BY <1>4, <2>1, DeactivateTyped, DatumInv
<1>5. ASSUME NEW t \in Tokens, NEW v \in 0 .. MaxValue, UpdateInvestmentValue(t, v) PROVE IInv'
  <2>1. UNCHANGED <<minted, owner, projectToNFTs, investorToNFTs, investmentIdToTokenId, stack, moves>>
    BY <1>5 DEF UpdateInvestmentValue, SetData
  <2> QED BY <1>5, <2>1, UpdateTyped, DatumInv
<1>6. ASSUME NEW ts \in [1 .. 2 -> 1 .. MaxTokens], NEW vs \in [1 .. 2 -> 0 .. MaxValue],
             BatchUpdateValues(ts, vs)
      PROVE  IInv'
  <2>1. UNCHANGED <<minted, owner, projectToNFTs, investorToNFTs, investmentIdToTokenId, stack, moves>>
    BY <1>6 DEF BatchUpdateValues
  <2>2. /\ DOMAIN data' = DOMAIN data
        /\ \A t \in DOMAIN data :
             \/ data'[t] = data[t]
             \/ \E v \in 0 .. MaxValue : data'[t] = [data[t] EXCEPT !.currentValue = v]
    BY <1>6, BatchTyped
  <2>3. \A t \in DOMAIN data : data'[t] \in InvestmentData
    BY <2>2 DEF IInv, TypeOK, InvestmentData
  <2>4. data' = [t \in DOMAIN data' |-> data'[t]]
    BY <1>6 DEF BatchUpdateValues
  <2>5. data' \in [DOMAIN data' -> InvestmentData]
    BY <2>2, <2>3, <2>4
  <2> QED BY <2>1, <2>2, <2>5, DatumInv
<1>7. CASE UNCHANGED vars
  <2>1. UNCHANGED data
    BY <1>7 DEF vars
  <2>2. UNCHANGED <<minted, owner, projectToNFTs, investorToNFTs, investmentIdToTokenId, stack, moves>>
    BY <1>7 DEF vars
  <2> QED BY <2>1, <2>2, DatumInv DEF IInv, TypeOK
<1> QED BY <1>1, <1>2, <1>3, <1>4, <1>5, <1>6, <1>7 DEF Next

THEOREM ContractInvariance == Spec => []IInv
  BY InitInv, NextInv, PTL DEF Spec

\* Type correctness of the contract's storage, in and between its calls.
THEOREM ContractTyped == Spec => []TypeOK
<1>1. IInv => TypeOK
  BY DEF IInv
<1> QED BY <1>1, ContractInvariance, PTL

\* However receivers forward tokens from within their callbacks, once the
\* outermost call is over every holder's list has the token.
THEOREM HoldersAreListed == Spec => []HolderIsListed
<1>1. IInv => HolderIsListed
  BY DEF IInv, HoldersOK, HolderIsListed, Awaited
<1> QED BY <1>1, ContractInvariance, PTL

\* No call changes the value of a deactivated investment or revives it.
THEOREM DeactivatedStaysFrozen == Spec => DeactivatedIsFrozen
<1> DEFINE Frozen ==
      \A t \in DOMAIN data : ~ data[t].isActive =>
        /\ t \in DOMAIN data' /\ ~ data'[t].isActive
        /\ data'[t].currentValue = data[t].currentValue
<1>1. ASSUME IInv, [Next]_vars PROVE [Frozen]_data
  <2>1. ASSUME NEW t \in Nat, NEW to \in Addr, NEW d \in InvestmentData, Record(t, to, d), t \notin DOMAIN data
        PROVE  Frozen
    <3>1. DOMAIN data' = DOMAIN data \cup {t} /\ \A u \in DOMAIN data \ {t} : data'[u] = data[u]
      BY <1>1, <2>1, RecordTyped DEF IInv
    <3> QED BY <3>1, <2>1
  <2>2. ASSUME NEW t \in Nat, NEW to \in Addr, Moved(t, to) PROVE Frozen
    <3>1. /\ DOMAIN data' = DOMAIN data
          /\ \A u \in DOMAIN data : /\ data'[u].isActive = data[u].isActive
                                    /\ data'[u].currentValue = data[u].currentValue
      BY <1>1, <2>2, MovedTyped DEF IInv
    <3> QED BY <3>1
  <2>3. ASSUME NEW to \in Addr, NEW p \in Projects, NEW a \in 1 .. MaxValue, NEW i \in Investments,
               Mint(to, p, a, i)
        PROVE  [Frozen]_data
    <3> DEFINE d == [projectId |-> p, investor |-> to, initialAmount |-> a,
                     currentValue |-> a, isActive |-> TRUE, investmentId |-> i]
    <3>1. d \in InvestmentData /\ minted + 1 \in Nat /\ minted + 1 \notin DOMAIN data
      BY <1>1, TokenBounds DEF InvestmentData, IInv, TypeOK, Tokens
    <3>2. data' = data \/ Record(minted + 1, to, d)
      BY <2>3 DEF Mint
    <3> QED BY <3>1, <3>2, <2>1
  <2>4. ASSUME NEW t \in Tokens, NEW to \in Addr, TransferFrom(t, to) \/ SafeTransferFrom(t, to)
        PROVE  [Frozen]_data
    <3>1. t \in Nat /\ (data' = data \/ Moved(t, to))
      BY <1>1, <2>4 DEF TransferFrom, SafeTransferFrom, IInv, TypeOK, Tokens
    <3> QED BY <3>1, <2>2
  <2>5. CASE Return
    <3> DEFINE f == stack[Len(stack)]
    <3>1. stack \in Seq(Frame) /\ stack # <<>>
      BY <1>1, <2>5 DEF IInv, TypeOK, Return
    <3>2. Len(stack) \in DOMAIN stack /\ f \in Frame
      BY <3>1, Left
    <3>3. f.token \in Nat /\ f.to \in Addr /\ (f.call = "mint" => f.token \notin DOMAIN data)
      BY <1>1, <3>2 DEF IInv, CallsOK, Frame
    <3>4. CASE f.call = "mint"
      <4>1. f.datum \in InvestmentData
        BY <3>2, <3>4 DEF Frame
      <4>2. Record(f.token, f.to, f.datum)
        BY <2>5, <3>4 DEF Return
      <4> QED BY <3>3, <3>4, <4>1, <4>2, <2>1
    <3>5. CASE f.call # "mint"
      <4>1. Moved(f.token, f.to)
        BY <2>5, <3>5 DEF Return
      <4> QED BY <3>3, <4>1, <2>2
    <3> QED BY <3>4, <3>5
  <2>6. ASSUME NEW t \in Tokens, DeactivateInvestment(t) PROVE Frozen
    BY <1>1, <2>6, DeactivateTyped
  <2>7. ASSUME NEW t \in Tokens, NEW v \in 0 .. MaxValue, UpdateInvestmentValue(t, v) PROVE Frozen
    BY <1>1, <2>7, UpdateTyped
  <2>8. ASSUME NEW ts \in [1 .. 2 -> 1 .. MaxTokens], NEW vs \in [1 .. 2 -> 0 .. MaxValue],
               BatchUpdateValues(ts, vs)
        PROVE  Frozen
    <3>1. /\ DOMAIN data' = DOMAIN data
          /\ \A t \in DOMAIN data : data'[t] = data[t] \/ data[t].isActive
      BY <1>1, <2>8, BatchTyped
    <3> QED BY <3>1
  <2>9. CASE UNCHANGED vars
    BY <2>9 DEF vars
  <2> QED BY <1>1, <2>3, <2>4, <2>5, <2>6, <2>7, <2>8, <2>9 DEF Next
<1>2. IInv /\ [Next]_vars => [Frozen]_data
  BY <1>1
<1> QED BY <1>2, ContractInvariance, PTL DEF Spec, DeactivatedIsFrozen

-----------------------------------------------------------------------------
\* The recorded investors and the two indexes.

\* Calls wait for contracts, and a mint that waits is of the newest token.
FramesOK ==
    \A n \in DOMAIN stack :
        /\ stack[n].to \in Contracts
        /\ stack[n].call = "mint" =>
             stack[n].token = minted /\ stack[n].datum.investor = stack[n].to

InvestorOK ==
    \A t \in DOMAIN data :
        data[t].investor = owner[t] \/ data[t].investor \in Contracts \/ Awaited(t)

InvestedFor(i) == {t \in DOMAIN data : data[t].investmentId = i}

ListsOnce ==
    \A p \in Projects, t \in Nat :
        /\ t \in DOMAIN data /\ data[t].projectId = p =>
             \E n \in Nat : Occurrences(projectToNFTs[p], t) = {n}
        /\ ~(t \in DOMAIN data /\ data[t].projectId = p) =>
             Occurrences(projectToNFTs[p], t) = {}

IdsNewest == \A i \in Investments : investmentIdToTokenId[i] = Newest(InvestedFor(i))

RecordsInv == IInv /\ FramesOK /\ InvestorOK /\ ListsOnce /\ IdsNewest

\* Where an element is, after one was appended to a list of a family.
\* An entry of a list, by what is appended to a list: one more place for the new element.
LEMMA AppendOccurs ==
    ASSUME NEW s \in Seq(Nat), NEW t \in Nat, NEW u \in Nat
    PROVE  /\ u = t => Occurrences(Append(s, t), u) = Occurrences(s, u) \cup {Len(s) + 1}
           /\ u # t => Occurrences(Append(s, t), u) = Occurrences(s, u)
<1> DEFINE g == Append(s, t)
<1>1. /\ DOMAIN g = DOMAIN s \cup {Len(s) + 1} /\ g[Len(s) + 1] = t
      /\ \A n \in DOMAIN s : g[n] = s[n] /\ n # Len(s) + 1
  BY Entered
<1> HIDE DEF g
<1>2. /\ u = t => Occurrences(g, u) = Occurrences(s, u) \cup {Len(s) + 1}
      /\ u # t => Occurrences(g, u) = Occurrences(s, u)
  BY <1>1 DEF Occurrences
<1> QED BY <1>2 DEF g

LEMMA PushOccurs ==
    ASSUME NEW K, NEW f \in [K -> Seq(Nat)], NEW k \in K, NEW t \in Nat
    PROVE  Occurrences(Push(f, k, t)[k], t) = Occurrences(f[k], t) \cup {Len(f[k]) + 1}
<1>1. Push(f, k, t)[k] = Append(f[k], t) /\ f[k] \in Seq(Nat)
  BY DEF Push
<1> DEFINE s == f[k]
<1>2. s \in Seq(Nat)
  BY <1>1
<1> HIDE DEF s
<1>3. Occurrences(Append(s, t), t) = Occurrences(s, t) \cup {Len(s) + 1}
  BY <1>2, AppendOccurs
<1> QED BY <1>1, <1>3 DEF s

LEMMA PushOccurrences ==
    ASSUME NEW K, NEW f \in [K -> Seq(Nat)], NEW k \in K, NEW t \in Nat, NEW j \in K, NEW u \in Nat,
           ~(j = k /\ u = t)
    PROVE  Occurrences(Push(f, k, t)[j], u) = Occurrences(f[j], u)
<1>1. Push(f, k, t) = [f EXCEPT ![k] = Append(f[k], t)]
  BY DEF Push
<1>2. CASE j = k
  <2>1. Push(f, k, t)[j] = Append(f[k], t) /\ f[k] \in Seq(Nat)
    BY <1>1, <1>2
  <2> DEFINE s == f[k]
  <2>2. s \in Seq(Nat) /\ u # t
    BY <2>1, <1>2
  <2> HIDE DEF s
  <2>3. Occurrences(Append(s, t), u) = Occurrences(s, u)
    BY <2>2, AppendOccurs
  <2> QED BY <1>2, <2>1, <2>3 DEF s
<1>3. CASE j # k
  BY <1>1, <1>3
<1> QED BY <1>2, <1>3

LEMMA NewestIs ==
    ASSUME NEW S \in SUBSET Nat, NEW t \in S, \A u \in S : u <= t
    PROVE  Newest(S) = t
<1>1. \A v \in S : (\A u \in S : u <= v) => v = t
  OBVIOUS
<1>2. (CHOOSE v \in S : \A u \in S : u <= v) = t
  BY <1>1
<1> QED BY <1>2 DEF Newest

\* A token that is recorded enters its project's list, and is the newest for its id.
LEMMA RecordIndexes ==
    ASSUME IInv, ListsOnce, IdsNewest, NEW t \in Nat, NEW to \in Addr, NEW d \in InvestmentData,
           Record(t, to, d), t \notin DOMAIN data, \A u \in DOMAIN data : u < t
    PROVE  ListsOnce' /\ IdsNewest'
<1>1. /\ d.projectId \in Projects /\ d.investmentId \in Investments
      /\ projectToNFTs \in [Projects -> Seq(Nat)] /\ investmentIdToTokenId \in [Investments -> Nat]
      /\ DOMAIN data \subseteq Nat
  BY DEF InvestmentData, IInv, TypeOK, Tokens
<1>2. /\ DOMAIN data' = DOMAIN data \cup {t} /\ data'[t] = d
      /\ \A u \in DOMAIN data : data'[u] = data[u]
      /\ projectToNFTs' = Push(projectToNFTs, d.projectId, t)
      /\ investmentIdToTokenId' = [investmentIdToTokenId EXCEPT ![d.investmentId] = t]
  BY DEF Record
<1>3. ListsOnce'
  <2> SUFFICES ASSUME NEW p \in Projects, NEW u \in Nat
               PROVE  /\ u \in DOMAIN data' /\ data'[u].projectId = p =>
                           \E n \in Nat : Occurrences(projectToNFTs'[p], u) = {n}
                      /\ ~(u \in DOMAIN data' /\ data'[u].projectId = p) =>
                           Occurrences(projectToNFTs'[p], u) = {}
    BY DEF ListsOnce
  <2>1. CASE u = t /\ d.projectId = p
    <3>1. Occurrences(projectToNFTs[p], u) = {}
      BY <2>1 DEF ListsOnce
    <3>2. Occurrences(projectToNFTs'[p], u) = {Len(projectToNFTs[p]) + 1}
      <4>1. Occurrences(Push(projectToNFTs, p, t)[p], t)
              = Occurrences(projectToNFTs[p], t) \cup {Len(projectToNFTs[p]) + 1}
        <5>1. projectToNFTs \in [Projects -> Seq(Nat)]
          BY <1>1
        <5> QED BY <5>1, PushOccurs
      <4> QED BY <1>2, <2>1, <3>1, <4>1
    <3>3. Len(projectToNFTs[p]) + 1 \in Nat
      BY <1>1
    <3> QED BY <1>2, <2>1, <3>2, <3>3
  <2>2. CASE ~(u = t /\ d.projectId = p)
    <3>1. Occurrences(projectToNFTs'[p], u) = Occurrences(projectToNFTs[p], u)
      BY <1>1, <1>2, <2>2, PushOccurrences
    <3>2. u \in DOMAIN data' /\ data'[u].projectId = p <=> u \in DOMAIN data /\ data[u].projectId = p
      BY <1>2, <2>2
    <3> QED BY <3>1, <3>2 DEF ListsOnce
  <2> QED BY <2>1, <2>2
<1>4. IdsNewest'
  <2> SUFFICES ASSUME NEW i \in Investments
               PROVE  investmentIdToTokenId'[i] = Newest(InvestedFor(i)')
    BY DEF IdsNewest
  <2>1. CASE i = d.investmentId
    <3>1. InvestedFor(i)' \in SUBSET Nat /\ t \in InvestedFor(i)' /\ \A u \in InvestedFor(i)' : u <= t
      BY <1>1, <1>2, <2>1 DEF InvestedFor
    <3>2. Newest(InvestedFor(i)') = t
      BY <3>1, NewestIs
    <3> QED BY <1>1, <1>2, <2>1, <3>2
  <2>2. CASE i # d.investmentId
    <3>1. InvestedFor(i)' = InvestedFor(i)
      BY <1>2, <2>2 DEF InvestedFor
    <3>2. investmentIdToTokenId'[i] = investmentIdToTokenId[i]
      BY <1>1, <1>2, <2>2
    <3> QED BY <3>1, <3>2 DEF IdsNewest
  <2> QED BY <2>1, <2>2
<1> QED BY <1>3, <1>4

LEMMA KeptIndexes ==
    ASSUME ListsOnce, IdsNewest, DOMAIN data' = DOMAIN data,
           UNCHANGED <<projectToNFTs, investmentIdToTokenId>>,
           \A u \in DOMAIN data : /\ data'[u].projectId = data[u].projectId
                                  /\ data'[u].investmentId = data[u].investmentId
    PROVE  ListsOnce' /\ IdsNewest'
<1>1. ListsOnce'
  <2> SUFFICES ASSUME NEW p \in Projects, NEW t \in Nat
               PROVE  /\ t \in DOMAIN data' /\ data'[t].projectId = p =>
                           \E n \in Nat : Occurrences(projectToNFTs'[p], t) = {n}
                      /\ ~(t \in DOMAIN data' /\ data'[t].projectId = p) =>
                           Occurrences(projectToNFTs'[p], t) = {}
    BY DEF ListsOnce
  <2>1. projectToNFTs'[p] = projectToNFTs[p]
    OBVIOUS
  <2>2. t \in DOMAIN data' /\ data'[t].projectId = p <=> t \in DOMAIN data /\ data[t].projectId = p
    OBVIOUS
  <2> QED BY <2>1, <2>2 DEF ListsOnce
<1>2. \A i \in Investments : InvestedFor(i)' = InvestedFor(i)
  BY DEF InvestedFor
<1> QED BY <1>1, <1>2 DEF IdsNewest

\* What the bookkeeping after a transfer does to what is recorded.
LEMMA MovedRecords ==
    ASSUME TypeOK, NEW t, NEW to \in Addr, Moved(t, to)
    PROVE  /\ DOMAIN data' = DOMAIN data
           /\ \A u \in DOMAIN data :
                /\ data'[u].projectId = data[u].projectId
                /\ data'[u].investmentId = data[u].investmentId
                /\ u = t => data'[u].investor = to
                /\ u # t => data'[u] = data[u]
<1>1. data' = [u \in DOMAIN data |-> IF u = t THEN [data[u] EXCEPT !.investor = to] ELSE data[u]]
  BY DEF Moved
<1>2. \A u \in DOMAIN data : data[u] \in InvestmentData
  BY DEF TypeOK
<1>3. \A u \in DOMAIN data : /\ [data[u] EXCEPT !.investor = to].projectId = data[u].projectId
                             /\ [data[u] EXCEPT !.investor = to].investmentId = data[u].investmentId
                             /\ [data[u] EXCEPT !.investor = to].investor = to
  BY <1>2 DEF InvestmentData
<1> QED BY <1>1, <1>3

LEMMA MintRecords ==
    ASSUME RecordsInv, NEW to \in Addr, NEW p \in Projects, NEW a \in 1 .. MaxValue,
           NEW i \in Investments, Mint(to, p, a, i)
    PROVE  RecordsInv'
<1> DEFINE d == [projectId |-> p, investor |-> to, initialAmount |-> a,
                 currentValue |-> a, isActive |-> TRUE, investmentId |-> i]
           t == minted + 1
           f == [call |-> "mint", token |-> t, to |-> to, datum |-> d]
<1>1. IInv /\ IInv'
  BY MintInv DEF RecordsInv
<1>2. d \in InvestmentData /\ d.investor = to /\ t \in Nat /\ f \in Frame /\ f.to = to /\ f.token = t
      /\ f.datum = d
  BY <1>1, TokenBounds DEF InvestmentData, Frame, IInv, TypeOK
<1>3. /\ DOMAIN data \subseteq Tokens /\ t \notin DOMAIN data /\ \A u \in DOMAIN data : u < t
      /\ stack = <<>> /\ DOMAIN stack = {} /\ minted' = t
  BY <1>1 DEF IInv, TypeOK, Tokens, Mint
<1>4. owner'[t] = to /\ \A u \in DOMAIN data : owner'[u] = owner[u]
  BY <1>1, <1>3 DEF Mint, Tokens, IInv, TypeOK
<1>5. \A u \in DOMAIN data : data[u].investor = owner[u] \/ data[u].investor \in Contracts
  BY <1>3 DEF RecordsInv, InvestorOK, Awaited
<1> HIDE DEF d, t, f
<1>6. CASE to \in Contracts
  <2>1. /\ stack' = Append(stack, f)
        /\ UNCHANGED <<data, projectToNFTs, investorToNFTs, investmentIdToTokenId>>
    BY <1>6 DEF Mint, Enter, f, t, d
  <2>2. DOMAIN stack' = {1} /\ stack'[1] = f
    BY <1>2, <1>3, <2>1
  <2>3. FramesOK'
    BY <1>2, <1>3, <1>6, <2>2 DEF FramesOK
  <2>4. InvestorOK'
    BY <1>4, <1>5, <2>1 DEF InvestorOK
  <2>5. ListsOnce' /\ IdsNewest'
    BY <2>1, KeptIndexes DEF RecordsInv
  <2> QED BY <1>1, <2>3, <2>4, <2>5 DEF RecordsInv
<1>7. CASE to \notin Contracts
  <2>1. Record(t, to, d) /\ stack' = stack
    BY <1>7 DEF Mint, t, d
  <2>2. FramesOK'
    BY <1>3, <2>1 DEF FramesOK
  <2>3. InvestorOK'
    <3>1. /\ DOMAIN data' = DOMAIN data \cup {t} /\ data'[t] = d
          /\ \A u \in DOMAIN data : data'[u] = data[u]
      BY <1>3, <2>1 DEF Record
    <3> QED BY <1>2, <1>4, <1>5, <3>1 DEF InvestorOK
  <2>4. ListsOnce' /\ IdsNewest'
    BY <1>1, <1>2, <1>3, <2>1, RecordIndexes DEF RecordsInv
  <2> QED BY <1>1, <2>2, <2>3, <2>4 DEF RecordsInv
<1> QED BY <1>6, <1>7

LEMMA TransferRecords ==
    ASSUME RecordsInv, NEW t \in Tokens, NEW to \in Addr, TransferFrom(t, to)
    PROVE  RecordsInv'
<1>1. IInv /\ IInv' /\ TypeOK
  BY TransferInv DEF RecordsInv, IInv
<1>2. /\ DOMAIN data' = DOMAIN data
      /\ \A u \in DOMAIN data :
           /\ data'[u].projectId = data[u].projectId
           /\ data'[u].investmentId = data[u].investmentId
           /\ u = t => data'[u].investor = to
           /\ u # t => data'[u] = data[u]
  BY <1>1, MovedRecords DEF TransferFrom
<1>3. /\ UNCHANGED <<minted, projectToNFTs, investmentIdToTokenId, stack>>
      /\ owner'[t] = to /\ \A u \in DOMAIN data \ {t} : owner'[u] = owner[u]
  BY <1>1 DEF TransferFrom, TypeOK
<1>4. FramesOK'
  BY <1>3 DEF RecordsInv, FramesOK
<1>5. InvestorOK'
  <2> SUFFICES ASSUME NEW u \in DOMAIN data
               PROVE  data'[u].investor = owner'[u] \/ data'[u].investor \in Contracts \/ Awaited(u)'
    BY <1>2 DEF InvestorOK
  <2>1. CASE u = t
    BY <1>2, <1>3, <2>1
  <2>2. CASE u # t
    <3>1. Awaited(u) => Awaited(u)'
      BY <1>3, <2>2 DEF Awaited
    <3> QED BY <1>2, <1>3, <2>2, <3>1 DEF RecordsInv, InvestorOK
  <2> QED BY <2>1, <2>2
<1>6. ListsOnce' /\ IdsNewest'
  BY <1>2, <1>3, KeptIndexes DEF RecordsInv
<1> QED BY <1>1, <1>4, <1>5, <1>6 DEF RecordsInv

LEMMA SafeTransferRecords ==
    ASSUME RecordsInv, NEW t \in Tokens, NEW to \in Addr, SafeTransferFrom(t, to)
    PROVE  RecordsInv'
<1>1. CASE to \notin Contracts
  <2>1. TransferFrom(t, to)
    BY <1>1 DEF SafeTransferFrom, TransferFrom
  <2> QED BY <2>1, TransferRecords
<1>2. CASE to \in Contracts
  <2> DEFINE f == [call |-> "safeTransferFrom", token |-> t, to |-> to]
  <2>1. IInv /\ IInv' /\ TypeOK /\ f \in Frame /\ stack \in Seq(Frame)
    <3>1. IInv /\ IInv' /\ TypeOK
      BY SafeTransferInv DEF RecordsInv, IInv
    <3>2. f \in Frame /\ stack \in Seq(Frame)
      BY <3>1 DEF Frame, Tokens, TypeOK
    <3> QED BY <3>1, <3>2
  <2>2. /\ stack' = Append(stack, f) /\ UNCHANGED <<data, investorToNFTs, minted>>
        /\ UNCHANGED <<projectToNFTs, investmentIdToTokenId>>
        /\ owner'[t] = to /\ \A u \in DOMAIN data \ {t} : owner'[u] = owner[u]
    BY <1>2, <2>1 DEF SafeTransferFrom, Enter, TypeOK
  <2>3. f.to = to /\ f.token = t /\ f.call # "mint"
    OBVIOUS
  <2> HIDE DEF f
  <2>4. /\ DOMAIN stack' = DOMAIN stack \cup {Len(stack) + 1}
        /\ stack'[Len(stack) + 1] = f
        /\ \A n \in DOMAIN stack : stack'[n] = stack[n]
    BY <2>1, <2>2, Entered
  <2>5. FramesOK'
    BY <1>2, <2>2, <2>3, <2>4 DEF RecordsInv, FramesOK
  <2>6. InvestorOK'
    <3> SUFFICES ASSUME NEW u \in DOMAIN data
                 PROVE  data[u].investor = owner'[u] \/ data[u].investor \in Contracts \/ Awaited(u)'
      BY <2>2 DEF InvestorOK
    <3>1. CASE u = t
      BY <2>2, <2>3, <2>4, <3>1 DEF Awaited
    <3>2. CASE u # t
      <4>1. Awaited(u) => Awaited(u)'
        BY <2>2, <2>4, <3>2 DEF Awaited
      <4> QED BY <2>2, <3>2, <4>1 DEF RecordsInv, InvestorOK
    <3> QED BY <3>1, <3>2
  <2>7. ListsOnce' /\ IdsNewest'
    BY <2>2, KeptIndexes DEF RecordsInv
  <2> QED BY <2>1, <2>5, <2>6, <2>7 DEF RecordsInv
<1> QED BY <1>1, <1>2

LEMMA ReturnRecords ==
    ASSUME RecordsInv, Return
    PROVE  RecordsInv'
<1> DEFINE f == stack[Len(stack)]
<1>1. IInv /\ IInv' /\ TypeOK /\ stack \in Seq(Frame) /\ stack # <<>>
  BY ReturnInv DEF RecordsInv, IInv, TypeOK, Return
<1>2. /\ DOMAIN stack = DOMAIN stack' \cup {Len(stack)} /\ f \in Frame
      /\ Len(stack) \in DOMAIN stack
      /\ \A n \in DOMAIN stack' : stack'[n] = stack[n] /\ n # Len(stack)
  <2>1. stack' = SubSeq(stack, 1, Len(stack) - 1)
    BY DEF Return
  <2>2. f = stack[Len(stack)]
    OBVIOUS
  <2> HIDE DEF f
  <2>3. /\ DOMAIN stack = DOMAIN SubSeq(stack, 1, Len(stack) - 1) \cup {Len(stack)}
        /\ stack[Len(stack)] \in Frame /\ Len(stack) \in DOMAIN stack
        /\ \A n \in DOMAIN SubSeq(stack, 1, Len(stack) - 1) :
             SubSeq(stack, 1, Len(stack) - 1)[n] = stack[n] /\ n # Len(stack)
    BY <1>1, Left, Zenon
  <2> QED BY <2>1, <2>2, <2>3, Zenon
<1>3. f.token \in Tokens /\ f.token \in Nat /\ f.to \in Addr /\ f.to \in Contracts
      /\ UNCHANGED <<minted, owner>>
  BY <1>1, <1>2 DEF RecordsInv, FramesOK, IInv, CallsOK, Frame, Tokens, TypeOK, Return
<1>4. FramesOK'
  BY <1>2, <1>3 DEF RecordsInv, FramesOK
<1>5. \A u \in DOMAIN data : u # f.token /\ Awaited(u) => Awaited(u)'
  BY <1>2, <1>3 DEF Awaited
<1>6. CASE f.call = "mint"
  <2>1. f.datum \in InvestmentData /\ f.datum.investor = f.to
    BY <1>2, <1>6 DEF Frame, RecordsInv, FramesOK
  <2>2. Record(f.token, f.to, f.datum)
    BY <1>6 DEF Return
  <2>3. f.token = minted /\ f.token \notin DOMAIN data
    BY <1>1, <1>2, <1>6 DEF RecordsInv, FramesOK, IInv, CallsOK
  <2>4. \A u \in DOMAIN data : u < f.token
    BY <1>1, <2>3 DEF TypeOK, Tokens
  <2>5. ListsOnce' /\ IdsNewest'
    BY <1>1, <1>3, <2>1, <2>2, <2>3, <2>4, RecordIndexes DEF RecordsInv
  <2>6. /\ DOMAIN data' = DOMAIN data \cup {f.token} /\ data'[f.token] = f.datum
        /\ \A u \in DOMAIN data : data'[u] = data[u]
    BY <2>2, <2>3 DEF Record
  <2>7. InvestorOK'
    BY <1>3, <1>5, <2>1, <2>3, <2>6 DEF RecordsInv, InvestorOK
  <2> QED BY <1>1, <1>4, <2>5, <2>7 DEF RecordsInv
<1>7. CASE f.call # "mint"
  <2>1. Moved(f.token, f.to) /\ UNCHANGED <<projectToNFTs, investmentIdToTokenId>>
    BY <1>7 DEF Return
  <2> HIDE DEF f
  <2>2. /\ DOMAIN data' = DOMAIN data
        /\ \A u \in DOMAIN data :
             /\ data'[u].projectId = data[u].projectId
             /\ data'[u].investmentId = data[u].investmentId
             /\ u = f.token => data'[u].investor = f.to
             /\ u # f.token => data'[u] = data[u]
    BY <1>1, <1>3, <2>1, MovedRecords
  <2>3. ListsOnce' /\ IdsNewest'
    BY <2>1, <2>2, KeptIndexes DEF RecordsInv
  <2>4. InvestorOK'
    BY <1>3, <1>5, <2>2 DEF RecordsInv, InvestorOK
  <2> QED BY <1>1, <1>4, <2>3, <2>4 DEF RecordsInv
<1> QED BY <1>6, <1>7

\* Values and activity are no part of it.
LEMMA DatumRecords ==
    ASSUME RecordsInv, IInv', DOMAIN data' = DOMAIN data,
           \A u \in DOMAIN data : /\ data'[u].projectId = data[u].projectId
                                  /\ data'[u].investmentId = data[u].investmentId
                                  /\ data'[u].investor = data[u].investor,
           UNCHANGED <<minted, owner, projectToNFTs, investorToNFTs,
                       investmentIdToTokenId, stack, moves>>
    PROVE  RecordsInv'
<1>1. FramesOK'
  BY DEF RecordsInv, FramesOK
<1>2. \A u \in DOMAIN data : Awaited(u) => Awaited(u)'
  BY DEF Awaited
<1>3. InvestorOK'
  BY <1>2 DEF RecordsInv, InvestorOK
<1>4. ListsOnce' /\ IdsNewest'
  BY KeptIndexes DEF RecordsInv
<1> QED BY <1>1, <1>3, <1>4 DEF RecordsInv

LEMMA NextRecords == RecordsInv /\ [Next]_vars => RecordsInv'
<1> SUFFICES ASSUME RecordsInv, [Next]_vars PROVE RecordsInv'
  OBVIOUS
<1>0. IInv /\ IInv' /\ TypeOK
  BY NextInv DEF RecordsInv, IInv
<1>1. CASE \E to \in Addr, p \in Projects, a \in 1 .. MaxValue, i \in Investments : Mint(to, p, a, i)
  BY <1>1, MintRecords
<1>2. CASE \E t \in Tokens, to \in Addr : TransferFrom(t, to) \/ SafeTransferFrom(t, to)
  BY <1>2, TransferRecords, SafeTransferRecords
<1>3. CASE Return
  BY <1>3, ReturnRecords
<1>4. ASSUME NEW t \in Tokens, NEW d \in InvestmentData, SetData(t, d), stack = <<>>,
             d.projectId = data[t].projectId, d.investmentId = data[t].investmentId,
             d.investor = data[t].investor
      PROVE  RecordsInv'
  <2>1. /\ DOMAIN data' = DOMAIN data /\ data'[t] = d
        /\ \A u \in DOMAIN data \ {t} : data'[u] = data[u]
    BY <1>0, <1>4, SetTyped
  <2>2. UNCHANGED <<minted, owner, projectToNFTs, investorToNFTs, investmentIdToTokenId, stack, moves>>
    BY <1>4 DEF SetData
  <2> QED BY <1>0, <1>4, <2>1, <2>2, DatumRecords
<1>5. ASSUME NEW t \in Tokens, DeactivateInvestment(t) PROVE RecordsInv'
  <2>1. data[t] \in InvestmentData
    BY <1>0, <1>5, HasData DEF DeactivateInvestment
  <2> DEFINE d == [data[t] EXCEPT !.isActive = FALSE]
  <2>2. /\ d \in InvestmentData /\ d.projectId = data[t].projectId
        /\ d.investmentId = data[t].investmentId /\ d.investor = data[t].investor
    BY <2>1 DEF InvestmentData
  <2>3. SetData(t, d) /\ stack = <<>>
    BY <1>5 DEF DeactivateInvestment
  <2> HIDE DEF d
  <2> QED BY <1>4, <2>2, <2>3
<1>6. ASSUME NEW t \in Tokens, NEW v \in 0 .. MaxValue, UpdateInvestmentValue(t, v) PROVE RecordsInv'
  <2>1. data[t] \in InvestmentData
    BY <1>0, <1>6, HasData DEF UpdateInvestmentValue
  <2> DEFINE d == [data[t] EXCEPT !.currentValue = v]
  <2>2. /\ d \in InvestmentData /\ d.projectId = data[t].projectId
        /\ d.investmentId = data[t].investmentId /\ d.investor = data[t].investor
    BY <2>1 DEF InvestmentData
  <2>3. SetData(t, d) /\ stack = <<>>
    BY <1>6 DEF UpdateInvestmentValue
  <2> HIDE DEF d
  <2> QED BY <1>4, <2>2, <2>3
<1>7. ASSUME NEW ts \in [1 .. 2 -> 1 .. MaxTokens], NEW vs \in [1 .. 2 -> 0 .. MaxValue],
             BatchUpdateValues(ts, vs)
      PROVE  RecordsInv'
  <2>1. UNCHANGED <<minted, owner, projectToNFTs, investorToNFTs, investmentIdToTokenId, stack, moves>>
    BY <1>7 DEF BatchUpdateValues
  <2>2. /\ DOMAIN data' = DOMAIN data
        /\ \A t \in DOMAIN data :
             \/ data'[t] = data[t]
             \/ \E v \in 0 .. MaxValue : data'[t] = [data[t] EXCEPT !.currentValue = v]
    BY <1>0, <1>7, BatchTyped
  <2>3. \A t \in DOMAIN data : /\ data'[t].projectId = data[t].projectId
                               /\ data'[t].investmentId = data[t].investmentId
                               /\ data'[t].investor = data[t].investor
    BY <1>0, <2>2 DEF TypeOK, InvestmentData
  <2> QED BY <1>0, <2>1, <2>2, <2>3, DatumRecords
<1>8. CASE UNCHANGED vars
  <2>1. UNCHANGED data /\ UNCHANGED <<minted, owner, projectToNFTs, investorToNFTs,
                                      investmentIdToTokenId, stack, moves>>
    BY <1>8 DEF vars
  <2> QED BY <1>0, <2>1, DatumRecords
<1> QED BY <1>1, <1>2, <1>3, <1>5, <1>6, <1>7, <1>8 DEF Next

LEMMA InitRecords == Init => RecordsInv
<1> SUFFICES ASSUME Init PROVE RecordsInv
  OBVIOUS
<1>1. DOMAIN data = {} /\ DOMAIN stack = {}
  BY DEF Init
<1>2. FramesOK /\ InvestorOK
  BY <1>1 DEF FramesOK, InvestorOK
<1>3. ListsOnce
  BY <1>1 DEF Init, ListsOnce, Occurrences
<1>4. \A i \in Investments : InvestedFor(i) = {}
  BY <1>1 DEF InvestedFor
<1>5. IdsNewest
  BY <1>4 DEF Init, IdsNewest, Newest
<1> QED BY <1>2, <1>3, <1>5, InitInv DEF RecordsInv

\* The inductive invariant of what the contract records of owners, projects and ids.
THEOREM RecordsInvariance == Spec => []RecordsInv
  BY InitRecords, NextRecords, PTL DEF Spec

\* "Current owner": the recorded investor, but for contracts that forward from within
\* their callbacks.
THEOREM InvestorsAreOwners == Spec => []InvestorIsOwner
<1>1. RecordsInv => InvestorIsOwner
  BY DEF RecordsInv, InvestorOK, InvestorIsOwner, Awaited
<1> QED BY <1>1, RecordsInvariance, PTL

\* However callbacks nest, each token ends up in its project's list once and in no
\* other, and an investment id leads to its newest token.
THEOREM IndexesAreExact == Spec => []IndexesExact
<1>1. RecordsInv => IndexesExact
  <2> SUFFICES ASSUME RecordsInv, stack = <<>> PROVE IndexesExact
    BY DEF IndexesExact
  <2>1. DOMAIN stack = {}
    OBVIOUS
  <2>2. DOMAIN data = Tokens /\ Tokens \subseteq Nat
    BY <2>1 DEF RecordsInv, IInv, DataOK, TypeOK, Tokens
  <2>3. ASSUME NEW p \in Projects, NEW t \in Tokens
        PROVE  Cardinality(Occurrences(getProjectNFTs(p), t)) = IF data[t].projectId = p THEN 1 ELSE 0
    <3>1. CASE data[t].projectId = p
      <4>1. PICK n \in Nat : Occurrences(projectToNFTs[p], t) = {n}
        BY <2>2, <3>1 DEF RecordsInv, ListsOnce
      <4> QED BY <3>1, <4>1, FS_Singleton DEF getProjectNFTs
    <3>2. CASE data[t].projectId # p
      <4>1. Occurrences(projectToNFTs[p], t) = {}
        BY <2>2, <3>2 DEF RecordsInv, ListsOnce
      <4> QED BY <3>2, <4>1, FS_EmptySet DEF getProjectNFTs
    <3> QED BY <3>1, <3>2
  <2>4. ASSUME NEW i \in Investments
        PROVE  getTokenIdByInvestmentId(i) = Newest({t \in Tokens : data[t].investmentId = i})
    BY <2>2 DEF RecordsInv, IdsNewest, InvestedFor, getTokenIdByInvestmentId
  <2> QED BY <2>2, <2>3, <2>4 DEF IndexesExact
<1> QED BY <1>1, RecordsInvariance, PTL

=============================================================================
