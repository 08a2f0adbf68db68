------------------------- MODULE BTSTransfer_proofs -------------------------
(***************************************************************************)
(* Proofs about BTSTransfer: the books of the two BTSs.                    *)
(***************************************************************************)
EXTENDS BTSTransfer, Sums_proofs, SequenceTheorems

-----------------------------------------------------------------------------
\* Assets and charges.

\* The fee of a transfer is a number.
LEMMA ChargeNat ==
    ASSUME NEW c, NEW v \in Nat
    PROVE  Charge(c, v) \in Nat
<1> DEFINE p == v * FeeNumerator
<1>1. FeeNumerator \in Nat /\ FeeDenominator \in Nat /\ FixedFee \in Nat /\ FeeDenominator > 0
  BY FeeAssumption
<1>2. p \in Nat  BY <1>1
<1> HIDE DEF p
<1>3. p \div FeeDenominator \in Nat  BY <1>1, <1>2
<1> QED  BY <1>1, <1>3 DEF Charge, p

\* A coin has finitely many places in the assets of a request.
LEMMA PositionsFinite ==
    ASSUME NEW assets \in Seq(Asset), NEW k
    PROVE  IsFiniteSet(Positions(assets, k)) /\ Positions(assets, k) \subseteq DOMAIN assets
<1>1. DOMAIN assets = 1 .. Len(assets) /\ Len(assets) \in Nat  BY LenProperties
<1>2. IsFiniteSet(1 .. Len(assets))  BY <1>1, FS_Interval
<1> QED  BY <1>1, <1>2, FS_Subset DEF Positions

\* Amounts and fees of a request are numbers, and add up to what is taken.
LEMMA AssetSums ==
    ASSUME NEW assets \in Seq(Asset), NEW k
    PROVE  /\ Amount(assets, k) \in Nat /\ Fee(assets, k) \in Nat
           /\ Total(assets, k) \in Nat
           /\ Total(assets, k) = Amount(assets, k) + Fee(assets, k)
<1>1. \A i \in DOMAIN assets : assets[i].amount \in Nat /\ assets[i].fee \in Nat
  <2>1. \A i \in DOMAIN assets : assets[i] \in Asset  BY ElementOfSeq, LenProperties
  <2> QED  BY <2>1 DEF Asset
<1>2. IsFiniteSet(Positions(assets, k)) /\ Positions(assets, k) \subseteq DOMAIN assets
  BY PositionsFinite
<1> DEFINE A == [i \in DOMAIN assets |-> assets[i].amount]
           F == [i \in DOMAIN assets |-> assets[i].fee]
<1>3. \A i \in Positions(assets, k) : A[i] \in Nat /\ F[i] \in Nat  BY <1>1, <1>2
<1> HIDE DEF A, F
<1>4. Sum(A, Positions(assets, k)) \in Nat  BY <1>2, <1>3, SumNat
<1>5. Sum(F, Positions(assets, k)) \in Nat  BY <1>2, <1>3, SumNat
<1>6. Amount(assets, k) \in Nat  BY <1>4 DEF Amount, A
<1>7. Fee(assets, k) \in Nat  BY <1>5 DEF Fee, F
<1> QED  BY <1>6, <1>7 DEF Total

\* What transferBatch makes of a batch.
BatchAssets(c, b) ==
    [i \in DOMAIN b |-> [coin   |-> b[i][1],
                         amount |-> b[i][2] - Charge(c, b[i][2]),
                         fee    |-> Charge(c, b[i][2])]]

\* A batch whose values cover their fees gives the assets of a request.
LEMMA BatchAssetsType ==
    ASSUME NEW c \in Chains, NEW b \in Batches(c), CoversFee(c, b)
    PROVE  /\ BatchAssets(c, b) \in Seq(Asset)
           /\ DOMAIN b = 1 .. Len(b)
           /\ Len(BatchAssets(c, b)) = Len(b) /\ Len(b) \in Nat
<1>1. PICK n \in 1 .. MaxLength : b \in [1 .. n -> Coins \X Values]
  BY DEF Batches
<1>2. n \in Nat  BY <1>1, BatchAssumption
<1>3. DOMAIN b = 1 .. n /\ Len(b) = n
  BY <1>1, <1>2
<1>4. ASSUME NEW i \in 1 .. n
      PROVE  BatchAssets(c, b)[i] \in Asset
  <2>1. b[i][1] \in Coins /\ b[i][2] \in Values  BY <1>1
  <2>2. b[i][2] \in Nat  BY <2>1, ValuesAssumption
  <2>3. Charge(c, b[i][2]) \in Nat  BY <2>2, ChargeNat
  <2>4. b[i][2] >= Charge(c, b[i][2])  BY <1>3, <2>2, <2>3 DEF CoversFee
  <2>5. b[i][2] - Charge(c, b[i][2]) \in Nat  BY <2>2, <2>3, <2>4
  <2> QED  BY <1>3, <2>1, <2>3, <2>5 DEF BatchAssets, Asset
<1>5. DOMAIN BatchAssets(c, b) = 1 .. n  BY <1>3 DEF BatchAssets
<1>6. BatchAssets(c, b) = [i \in 1 .. n |-> BatchAssets(c, b)[i]]  BY <1>3 DEF BatchAssets
<1>7. BatchAssets(c, b) \in [1 .. n -> Asset]  BY <1>4, <1>5, <1>6
<1>8. BatchAssets(c, b) \in Seq(Asset)  BY <1>2, <1>7
<1>9. Len(BatchAssets(c, b)) = n  BY <1>2, <1>5, <1>8, LenProperties
<1> QED  BY <1>2, <1>3, <1>8, <1>9

-----------------------------------------------------------------------------
\* Chains, accounts and messages.

\* There are two chains.
LEMMA OtherChain ==
    ASSUME NEW c \in Chains
    PROVE  Other(c) \in Chains /\ Other(c) # c /\ Other(Other(c)) = c
           /\ \A d \in Chains : d = c \/ d = Other(c)
BY DEF Chains, Other

\* There are finitely many accounts.
LEMMA AccountsFinite == IsFiniteSet(Accounts) /\ Users \subseteq Accounts
BY AccountsAssumption, FS_AddElement DEF Accounts

\* The message that a BTS handles.
LEMMA HeadType ==
    ASSUME TypeOK, NEW c \in Chains, NEW type, Receives(c, type)
    PROVE  /\ Head(chan[c]) \in Message /\ Head(chan[c]).type = type
           /\ chan[c] \in Seq(Message) /\ chan[c] # <<>>
           /\ Tail(chan[c]) \in Seq(Message)
<1>1. chan[c] \in Seq(Message)  BY DEF TypeOK
<1> QED  BY <1>1, HeadTailProperties DEF Receives

\* The parts of a message.
LEMMA MessageFields ==
    ASSUME NEW m \in Message
    PROVE  /\ m.type = "request" => m.sn \in Nat /\ m.to \in Accounts /\ m.assets \in Seq(Asset)
           /\ m.type = "response" => m.sn \in Nat /\ m.code \in {"RC_OK", "RC_ERR"}
           /\ m.type = "error" => m.sn \in Nat
           /\ m.type \in {"request", "response", "error", "gather"}
BY DEF Message

\* The parts of a pending request.
LEMMA RequestFields ==
    ASSUME NEW q \in Request
    PROVE  /\ q.sn \in Nat /\ q.from \in Users \cup {BTS} /\ q.assets \in Seq(Asset)
           /\ q.from # BTS => q.from \in Users /\ q.from \in Accounts
BY AccountsFinite DEF Request

\* The parts of a balance.
LEMMA BalanceFields ==
    ASSUME TypeOK, NEW c \in Chains, NEW u \in Accounts, NEW k \in Coins
    PROVE  /\ bal[c][u][k] \in Balance
           /\ bal[c][u][k].wallet \in Nat /\ bal[c][u][k].usable \in Nat
           /\ bal[c][u][k].locked \in Nat /\ bal[c][u][k].refundable \in Nat
BY DEF TypeOK, Balance

\* The parts of what a BTS holds.
LEMMA TreasuryFields ==
    ASSUME TypeOK, NEW c \in Chains, NEW k \in Coins
    PROVE  /\ bts[c][k] \in Treasury
           /\ bts[c][k].held \in Nat /\ bts[c][k].fees \in Nat
BY DEF TypeOK, Treasury

\* The channels keep their type.
LEMMA SentType ==
    ASSUME TypeOK, NEW c \in Chains, NEW m \in Message
    PROVE  Sent(c, <<m>>) \in [Chains -> Seq(Message)]
<1>1. Other(c) \in Chains  BY OtherChain
<1>2. chan[Other(c)] \in Seq(Message) /\ <<m>> \in Seq(Message)  BY <1>1 DEF TypeOK
<1>3. chan[Other(c)] \o <<m>> \in Seq(Message)  BY <1>2, ConcatProperties
<1> QED  BY <1>3 DEF Sent, TypeOK

\* Channels hold messages after one is handled.
LEMMA HandledType ==
    ASSUME TypeOK, NEW c \in Chains, NEW msgs \in Seq(Message), chan[c] # <<>>
    PROVE  Handled(c, msgs) \in [Chains -> Seq(Message)]
<1>1. Other(c) \in Chains /\ Other(c) # c  BY OtherChain
<1>2. chan[Other(c)] \in Seq(Message) /\ chan[c] \in Seq(Message)  BY <1>1 DEF TypeOK
<1>3. chan[Other(c)] \o msgs \in Seq(Message)  BY <1>2, ConcatProperties
<1>4. Tail(chan[c]) \in Seq(Message)  BY <1>2, HeadTailProperties
<1>5. Handled(c, msgs) = [d \in Chains |-> IF d = c THEN Tail(chan[c]) ELSE chan[Other(c)] \o msgs]
  <2>1. chan \in [Chains -> Seq(Message)]  BY DEF TypeOK
  <2> QED  BY <1>1, <2>1, OtherChain DEF Handled
<1> QED  BY <1>3, <1>4, <1>5

\* An account has locked at least what each pending request took of it.
LEMMA LockedCovers ==
    ASSUME TypeOK, RequestsNumbered, LockedMatchesPending,
           NEW c \in Chains, NEW q \in requests[c], q.from # BTS, NEW k \in Coins
    PROVE  Total(q.assets, k) <= bal[c][q.from][k].locked
<1> DEFINE F == [p \in requests[c] |-> IF p.from = q.from THEN Total(p.assets, k) ELSE 0]
<1>1. requests[c] \subseteq Request /\ IsFiniteSet(requests[c])  BY DEF TypeOK, RequestsNumbered
<1>2. q.from \in Users  BY <1>1, RequestFields
<1>3. bal[c][q.from][k].locked = Sum(F, requests[c])
  BY <1>2 DEF LockedMatchesPending, SumPending
<1>4. \A p \in requests[c] : F[p] \in Nat
  <2> SUFFICES ASSUME NEW p \in requests[c] PROVE F[p] \in Nat  OBVIOUS
  <2>1. p.assets \in Seq(Asset)  BY <1>1, RequestFields
  <2>2. Total(p.assets, k) \in Nat  BY <2>1, AssetSums
  <2> QED  BY <2>2
<1>5. F[q] = Total(q.assets, k)  OBVIOUS
<1> HIDE DEF F
<1>6. F[q] <= Sum(F, requests[c])  BY <1>1, <1>4, SumBounds
<1> QED  BY <1>3, <1>5, <1>6

-----------------------------------------------------------------------------
\* Every operation moves value between one account and the BTS of one chain.

Moves(c, a, X, Y) ==
    /\ bal' = [bal EXCEPT ![c][a] = X]
    /\ bts' = [bts EXCEPT ![c] = Y]

Wallets(c, k)     == Sum([u \in Accounts |-> bal[c][u][k].wallet], Accounts)
Refundables(c, k) == Sum([u \in Accounts |-> bal[c][u][k].refundable], Accounts)

\* What account u may claim of the BTS of chain c.
Claim(c, u, k) == bal[c][u][k].refundable + IF IsWrapped(c, k) THEN 0 ELSE bal[c][u][k].usable
Claims(c, k)   == Sum([u \in Accounts |-> Claim(c, u, k)], Accounts)

\* A step on the balances of one account leaves the other accounts and the
\* other chain alone.
LEMMA MovesPointwise ==
    ASSUME TypeOK, NEW c \in Chains, NEW a \in Accounts,
           NEW X \in [Coins -> Balance], NEW Y \in [Coins -> Treasury], Moves(c, a, X, Y)
    PROVE  /\ bal' \in [Chains -> [Accounts -> [Coins -> Balance]]]
           /\ bts' \in [Chains -> [Coins -> Treasury]]
           /\ bts'[c] = Y
           /\ \A d \in Chains : d # c => bal'[d] = bal[d] /\ bts'[d] = bts[d]
           /\ bal'[c][a] = X
           /\ \A x \in Accounts : x # a => bal'[c][x] = bal[c][x]
BY DEF TypeOK, Moves

\* A step on the balances of one account changes the sums over all accounts by
\* its own change.
LEMMA MovesSums ==
    ASSUME TypeOK, NEW c \in Chains, NEW a \in Accounts,
           NEW X \in [Coins -> Balance], NEW Y \in [Coins -> Treasury], Moves(c, a, X, Y),
           NEW k \in Coins
    PROVE  /\ Wallets(c, k)' + bal[c][a][k].wallet = Wallets(c, k) + X[k].wallet
           /\ Refundables(c, k)' + bal[c][a][k].refundable = Refundables(c, k) + X[k].refundable
           /\ Claims(c, k)' + Claim(c, a, k) = Claims(c, k) + Claim(c, a, k)'
           /\ \A d \in Chains : d # c =>
                /\ Wallets(d, k)' = Wallets(d, k) /\ Refundables(d, k)' = Refundables(d, k)
                /\ Claims(d, k)' = Claims(d, k)
<1>1. /\ bal' \in [Chains -> [Accounts -> [Coins -> Balance]]]
      /\ \A d \in Chains : d # c => bal'[d] = bal[d]
      /\ bal'[c][a] = X
      /\ \A x \in Accounts : x # a => bal'[c][x] = bal[c][x]
  BY MovesPointwise
<1>2. ASSUME NEW d \in Chains, NEW x \in Accounts
      PROVE  bal[d][x][k] \in Balance /\ bal'[d][x][k] \in Balance
  BY <1>1 DEF TypeOK
<1>3. IsFiniteSet(Accounts)  BY AccountsFinite
<1>4. Wallets(c, k)' + bal[c][a][k].wallet = Wallets(c, k) + X[k].wallet
  <2> DEFINE F == [u \in Accounts |-> bal[c][u][k].wallet]
             G == [u \in Accounts |-> bal'[c][u][k].wallet]
  <2>1. \A x \in Accounts : F[x] \in Nat /\ G[x] \in Nat  BY <1>2 DEF Balance
  <2>2. \A x \in Accounts \ {a} : F[x] = G[x]  BY <1>1
  <2>3. Sum(G, Accounts) + F[a] = Sum(F, Accounts) + G[a]
    <3> HIDE DEF F, G
    <3> QED  BY <1>3, <2>1, <2>2, SumChange
  <2> QED  BY <1>1, <2>3 DEF Wallets
<1>5. Refundables(c, k)' + bal[c][a][k].refundable = Refundables(c, k) + X[k].refundable
  <2> DEFINE F == [u \in Accounts |-> bal[c][u][k].refundable]
             G == [u \in Accounts |-> bal'[c][u][k].refundable]
  <2>1. \A x \in Accounts : F[x] \in Nat /\ G[x] \in Nat  BY <1>2 DEF Balance
  <2>2. \A x \in Accounts \ {a} : F[x] = G[x]  BY <1>1
  <2>3. Sum(G, Accounts) + F[a] = Sum(F, Accounts) + G[a]
    <3> HIDE DEF F, G
    <3> QED  BY <1>3, <2>1, <2>2, SumChange
  <2> QED  BY <1>1, <2>3 DEF Refundables
<1>6. Claims(c, k)' + Claim(c, a, k) = Claims(c, k) + Claim(c, a, k)'
  <2> DEFINE F == [u \in Accounts |-> Claim(c, u, k)]
             G == [u \in Accounts |-> Claim(c, u, k)']
  <2>1. \A x \in Accounts : F[x] \in Nat /\ G[x] \in Nat
    BY <1>2 DEF Balance, Claim
  <2>2. \A x \in Accounts \ {a} : F[x] = G[x]  BY <1>1 DEF Claim
  <2>3. Sum(G, Accounts) + F[a] = Sum(F, Accounts) + G[a]
    <3> HIDE DEF F, G
    <3> QED  BY <1>3, <2>1, <2>2, SumChange
  <2> QED  BY <2>3 DEF Claims
<1>7. ASSUME NEW d \in Chains, d # c
      PROVE  /\ Wallets(d, k)' = Wallets(d, k) /\ Refundables(d, k)' = Refundables(d, k)
             /\ Claims(d, k)' = Claims(d, k)
  BY <1>1, <1>7 DEF Wallets, Refundables, Claims, Claim
<1> QED  BY <1>4, <1>5, <1>6, <1>7

\* The sums over all accounts are numbers.
LEMMA AccountSums ==
    ASSUME TypeOK, NEW c \in Chains, NEW k \in Coins
    PROVE  Wallets(c, k) \in Nat /\ Refundables(c, k) \in Nat /\ Claims(c, k) \in Nat
<1>1. IsFiniteSet(Accounts)  BY AccountsFinite
<1>2. ASSUME NEW x \in Accounts
      PROVE  bal[c][x][k].wallet \in Nat /\ bal[c][x][k].refundable \in Nat /\ Claim(c, x, k) \in Nat
  BY BalanceFields DEF Claim
<1> DEFINE W == [u \in Accounts |-> bal[c][u][k].wallet]
           R == [u \in Accounts |-> bal[c][u][k].refundable]
           C == [u \in Accounts |-> Claim(c, u, k)]
<1>3. \A x \in Accounts : W[x] \in Nat /\ R[x] \in Nat /\ C[x] \in Nat  BY <1>2
<1>4. Sum(W, Accounts) \in Nat /\ Sum(R, Accounts) \in Nat /\ Sum(C, Accounts) \in Nat
  <2> HIDE DEF W, R, C
  <2> QED  BY <1>1, <1>3, SumNat
<1> QED  BY <1>4 DEF Wallets, Refundables, Claims

\* The accounts and the treasuries stay as they are.
LEMMA NoMoves ==
    ASSUME TypeOK, UNCHANGED <<bal, bts>>, NEW c \in Chains, NEW a \in Accounts
    PROVE  Moves(c, a, bal[c][a], bts[c])
           /\ bal[c][a] \in [Coins -> Balance] /\ bts[c] \in [Coins -> Treasury]
BY DEF TypeOK, Moves

-----------------------------------------------------------------------------
\* Requests come and go one at a time.

PendingOf(c, u, k)  == Sum([q \in requests[c] |-> IF q.from = u THEN Total(q.assets, k) ELSE 0],
                           requests[c])
PendingTotal(c, k)  == Sum([q \in requests[c] |-> Total(q.assets, k)], requests[c])

Forgets(c, q) == requests' = [requests EXCEPT ![c] = @ \ {q}] /\ UNCHANGED serialNo

NewRequest(c, from, assets) == [sn |-> serialNo[c] + 1, from |-> from, assets |-> assets]

\* The sums over pending requests are numbers.
LEMMA PendingSums ==
    ASSUME TypeOK, RequestsNumbered, NEW c \in Chains, NEW k \in Coins
    PROVE  /\ PendingTotal(c, k) \in Nat
           /\ \A u \in Users : PendingOf(c, u, k) \in Nat
           /\ \A q \in requests[c] : Total(q.assets, k) \in Nat
<1>1. requests[c] \subseteq Request /\ IsFiniteSet(requests[c])  BY DEF TypeOK, RequestsNumbered
<1>2. ASSUME NEW q \in requests[c] PROVE Total(q.assets, k) \in Nat
  <2>1. q.assets \in Seq(Asset)  BY <1>1, RequestFields
  <2> QED  BY <2>1, AssetSums
<1>3. PendingTotal(c, k) \in Nat
  <2> DEFINE F == [q \in requests[c] |-> Total(q.assets, k)]
  <2>1. \A q \in requests[c] : F[q] \in Nat  BY <1>2
  <2>2. Sum(F, requests[c]) \in Nat
    <3> HIDE DEF F
    <3> QED  BY <1>1, <2>1, SumNat
  <2> QED  BY <2>2 DEF PendingTotal
<1>4. ASSUME NEW u \in Users PROVE PendingOf(c, u, k) \in Nat
  <2> DEFINE F == [q \in requests[c] |-> IF q.from = u THEN Total(q.assets, k) ELSE 0]
  <2>1. \A q \in requests[c] : F[q] \in Nat  BY <1>2
  <2>2. Sum(F, requests[c]) \in Nat
    <3> HIDE DEF F
    <3> QED  BY <1>1, <2>1, SumNat
  <2> QED  BY <2>2 DEF PendingOf
<1> QED  BY <1>2, <1>3, <1>4

\* A request is recorded under a new serial number.
LEMMA RecordRequests ==
    ASSUME TypeOK, RequestsNumbered, NEW c \in Chains, NEW from \in Users \cup {BTS},
           NEW assets \in Seq(Asset), Record(c, from, assets)
    PROVE  /\ requests' \in [Chains -> SUBSET Request] /\ serialNo' \in [Chains -> Nat]
           /\ RequestsNumbered'
           /\ requests'[c] = requests[c] \cup {NewRequest(c, from, assets)}
           /\ NewRequest(c, from, assets) \notin requests[c]
           /\ \A d \in Chains : d # c => requests'[d] = requests[d]
<1> DEFINE r == NewRequest(c, from, assets)
<1>1. serialNo[c] \in Nat /\ serialNo[c] + 1 \in Nat  BY DEF TypeOK
<1>2. r \in Request /\ r.sn = serialNo[c] + 1  BY <1>1 DEF NewRequest, Request
<1>3. /\ requests'[c] = requests[c] \cup {r}
      /\ \A d \in Chains : d # c => requests'[d] = requests[d]
      /\ requests' \in [Chains -> SUBSET Request]
  BY <1>2 DEF Record, NewRequest, TypeOK
<1>4. /\ serialNo'[c] = serialNo[c] + 1
      /\ \A d \in Chains : d # c => serialNo'[d] = serialNo[d]
      /\ serialNo' \in [Chains -> Nat]
  BY <1>1 DEF Record, TypeOK
<1>5. r \notin requests[c]  BY <1>1, <1>2 DEF RequestsNumbered
<1>6. RequestsNumbered'
  <2> SUFFICES ASSUME NEW d \in Chains
               PROVE  /\ IsFiniteSet(requests'[d])
                      /\ \A q \in requests'[d] : q.sn \in 1 .. serialNo'[d]
                      /\ \A p, q \in requests'[d] : p.sn = q.sn => p = q
    BY DEF RequestsNumbered
  <2>1. CASE d # c  BY <1>3, <1>4, <2>1 DEF RequestsNumbered
  <2>2. CASE d = c
    <3>0. IsFiniteSet(requests[c])  BY DEF RequestsNumbered
    <3>1. IsFiniteSet(requests[c] \cup {r})  BY <3>0, FS_AddElement
    <3>2. \A q \in requests[c] : q.sn \in 1 .. serialNo[c]  BY DEF RequestsNumbered
    <3>3. \A q \in requests'[c] : q.sn \in 1 .. serialNo'[c]
      BY <1>1, <1>2, <1>3, <1>4, <3>2
    <3>4. \A p, q \in requests'[c] : p.sn = q.sn => p = q
      <4>1. \A p, q \in requests[c] : p.sn = q.sn => p = q  BY DEF RequestsNumbered
      <4>2. \A q \in requests[c] : q.sn # r.sn  BY <1>1, <1>2, <3>2
      <4> HIDE DEF r
      <4> QED  BY <1>3, <4>1, <4>2
    <3> QED  BY <1>3, <2>2, <3>1, <3>3, <3>4
  <2> QED  BY <2>1, <2>2
<1> QED  BY <1>3, <1>4, <1>5, <1>6

\* A recorded request adds its assets to what is pending.
LEMMA RecordSums ==
    ASSUME TypeOK, RequestsNumbered, NEW c \in Chains, NEW from \in Users \cup {BTS},
           NEW assets \in Seq(Asset), Record(c, from, assets), NEW k \in Coins
    PROVE  /\ PendingTotal(c, k)' = PendingTotal(c, k) + Total(assets, k)
           /\ \A u \in Users : PendingOf(c, u, k)' =
                PendingOf(c, u, k) + IF from = u THEN Total(assets, k) ELSE 0
           /\ \A d \in Chains : d # c =>
                /\ PendingTotal(d, k)' = PendingTotal(d, k)
                /\ \A u \in Users : PendingOf(d, u, k)' = PendingOf(d, u, k)
<1> DEFINE r == NewRequest(c, from, assets)
<1>1. /\ requests'[c] = requests[c] \cup {r} /\ r \notin requests[c]
      /\ \A d \in Chains : d # c => requests'[d] = requests[d]
  BY RecordRequests
<1>2. r.from = from /\ r.assets = assets  BY DEF NewRequest
<1> HIDE DEF r
<1>3. IsFiniteSet(requests[c])  BY DEF RequestsNumbered
<1>4. \A q \in requests[c] : Total(q.assets, k) \in Nat  BY PendingSums
<1>5. Total(assets, k) \in Nat  BY AssetSums
<1>6. PendingTotal(c, k)' = PendingTotal(c, k) + Total(assets, k)
  <2> DEFINE F == [q \in requests[c] |-> Total(q.assets, k)]
             G == [q \in requests'[c] |-> Total(q.assets, k)]
  <2>1. \A q \in requests[c] : F[q] \in Nat /\ F[q] = G[q]  BY <1>1, <1>4
  <2>2. G[r] = Total(assets, k)  BY <1>1, <1>2
  <2>3. Sum(G, requests[c] \cup {r}) = Sum(F, requests[c]) + G[r]
    <3> HIDE DEF F, G
    <3> QED  BY <1>1, <1>3, <1>5, <2>1, <2>2, SumGrow
  <2> QED  BY <1>1, <2>2, <2>3 DEF PendingTotal
<1>7. ASSUME NEW u \in Users
      PROVE  PendingOf(c, u, k)' = PendingOf(c, u, k) + IF from = u THEN Total(assets, k) ELSE 0
  <2> DEFINE F == [q \in requests[c] |-> IF q.from = u THEN Total(q.assets, k) ELSE 0]
             G == [q \in requests'[c] |-> IF q.from = u THEN Total(q.assets, k) ELSE 0]
  <2>1. \A q \in requests[c] : F[q] \in Nat /\ F[q] = G[q]  BY <1>1, <1>4
  <2>2. G[r] = IF from = u THEN Total(assets, k) ELSE 0  BY <1>1, <1>2
  <2>3. Sum(G, requests[c] \cup {r}) = Sum(F, requests[c]) + G[r]
    <3> HIDE DEF F, G
    <3> QED  BY <1>1, <1>3, <1>5, <2>1, <2>2, SumGrow
  <2> QED  BY <1>1, <2>2, <2>3 DEF PendingOf
<1>8. ASSUME NEW d \in Chains, d # c
      PROVE  /\ PendingTotal(d, k)' = PendingTotal(d, k)
             /\ \A u \in Users : PendingOf(d, u, k)' = PendingOf(d, u, k)
  BY <1>1, <1>8 DEF PendingTotal, PendingOf
<1> QED  BY <1>6, <1>7, <1>8

\* A pending request is deleted.
LEMMA ForgetRequests ==
    ASSUME TypeOK, RequestsNumbered, NEW c \in Chains, NEW q \in requests[c], Forgets(c, q)
    PROVE  /\ requests' \in [Chains -> SUBSET Request] /\ serialNo' \in [Chains -> Nat]
           /\ RequestsNumbered'
           /\ requests'[c] = requests[c] \ {q}
           /\ \A d \in Chains : d # c => requests'[d] = requests[d]
<1>1. /\ requests'[c] = requests[c] \ {q}
      /\ \A d \in Chains : d # c => requests'[d] = requests[d]
      /\ requests' \in [Chains -> SUBSET Request]
      /\ serialNo' = serialNo
  BY DEF Forgets, TypeOK
<1>2. \A d \in Chains : requests'[d] \subseteq requests[d]  BY <1>1
<1>3. RequestsNumbered'
  BY <1>1, <1>2, FS_Subset DEF RequestsNumbered
<1> QED  BY <1>1, <1>3 DEF TypeOK

\* A deleted request takes its assets from what is pending.
LEMMA ForgetSums ==
    ASSUME TypeOK, RequestsNumbered, NEW c \in Chains, NEW q \in requests[c], Forgets(c, q),
           NEW k \in Coins
    PROVE  /\ PendingTotal(c, k) = PendingTotal(c, k)' + Total(q.assets, k)
           /\ \A u \in Users : PendingOf(c, u, k) =
                PendingOf(c, u, k)' + IF q.from = u THEN Total(q.assets, k) ELSE 0
           /\ \A d \in Chains : d # c =>
                /\ PendingTotal(d, k)' = PendingTotal(d, k)
                /\ \A u \in Users : PendingOf(d, u, k)' = PendingOf(d, u, k)
<1>1. /\ requests'[c] = requests[c] \ {q}
      /\ \A d \in Chains : d # c => requests'[d] = requests[d]
  BY ForgetRequests
<1>3. IsFiniteSet(requests[c])  BY DEF RequestsNumbered
<1>4. \A p \in requests[c] : Total(p.assets, k) \in Nat  BY PendingSums
<1>6. PendingTotal(c, k) = PendingTotal(c, k)' + Total(q.assets, k)
  <2> DEFINE F == [p \in requests[c] |-> Total(p.assets, k)]
             G == [p \in requests'[c] |-> Total(p.assets, k)]
  <2>1. \A p \in requests[c] : F[p] \in Nat  BY <1>4
  <2>2. \A p \in requests[c] \ {q} : F[p] = G[p]  BY <1>1
  <2>3. Sum(F, requests[c]) = Sum(G, requests[c] \ {q}) + F[q]
    <3> HIDE DEF F, G
    <3> QED  BY <1>3, <2>1, <2>2, SumShrink
  <2> QED  BY <1>1, <2>3 DEF PendingTotal
<1>7. ASSUME NEW u \in Users
      PROVE  PendingOf(c, u, k) = PendingOf(c, u, k)' + IF q.from = u THEN Total(q.assets, k) ELSE 0
  <2> DEFINE F == [p \in requests[c] |-> IF p.from = u THEN Total(p.assets, k) ELSE 0]
             G == [p \in requests'[c] |-> IF p.from = u THEN Total(p.assets, k) ELSE 0]
  <2>1. \A p \in requests[c] : F[p] \in Nat  BY <1>4
  <2>2. \A p \in requests[c] \ {q} : F[p] = G[p]  BY <1>1
  <2>3. Sum(F, requests[c]) = Sum(G, requests[c] \ {q}) + F[q]
    <3> HIDE DEF F, G
    <3> QED  BY <1>3, <2>1, <2>2, SumShrink
  <2> QED  BY <1>1, <2>3 DEF PendingOf
<1>8. ASSUME NEW d \in Chains, d # c
      PROVE  /\ PendingTotal(d, k)' = PendingTotal(d, k)
             /\ \A u \in Users : PendingOf(d, u, k)' = PendingOf(d, u, k)
  BY <1>1, <1>8 DEF PendingTotal, PendingOf
<1> QED  BY <1>6, <1>7, <1>8
-----------------------------------------------------------------------------
\* One step of the books: D[k] is what of coin k becomes pending on chain c
\* (negative when a request is settled), for the account in O if there is one.

PendingChange(c, O, D) ==
    /\ requests' \in [Chains -> SUBSET Request] /\ serialNo' \in [Chains -> Nat]
    /\ RequestsNumbered'
    /\ \A d \in Chains, k \in Coins :
        /\ PendingTotal(d, k)' = PendingTotal(d, k) + IF d = c THEN D[k] ELSE 0
        /\ \A u \in Users : PendingOf(d, u, k)' =
                PendingOf(d, u, k) + IF d = c /\ u \in O THEN D[k] ELSE 0

\* The change of what is pending, when no request changes.
LEMMA PendingSame ==
    ASSUME TypeOK, RequestsNumbered, UNCHANGED <<requests, serialNo>>,
           NEW c \in Chains
    PROVE  PendingChange(c, {}, [k \in Coins |-> 0])
<1>1. RequestsNumbered'  BY DEF RequestsNumbered
<1>2. ASSUME NEW d \in Chains, NEW k \in Coins
      PROVE  /\ PendingTotal(d, k)' = PendingTotal(d, k) /\ PendingTotal(d, k) \in Nat
             /\ \A u \in Users : PendingOf(d, u, k)' = PendingOf(d, u, k) /\ PendingOf(d, u, k) \in Nat
  BY PendingSums DEF PendingTotal, PendingOf
<1> QED  BY <1>1, <1>2 DEF PendingChange, TypeOK

\* The change of what is pending, when a request is recorded.
LEMMA PendingRecorded ==
    ASSUME TypeOK, RequestsNumbered, NEW c \in Chains, NEW from \in Users \cup {BTS},
           NEW assets \in Seq(Asset), Record(c, from, assets)
    PROVE  PendingChange(c, {from} \ {BTS}, [k \in Coins |-> Total(assets, k)])
<1> DEFINE D == [k \in Coins |-> Total(assets, k)]
<1>1. /\ requests' \in [Chains -> SUBSET Request] /\ serialNo' \in [Chains -> Nat]
      /\ RequestsNumbered'
  BY RecordRequests
<1>2. ASSUME NEW d \in Chains, NEW k \in Coins
      PROVE  /\ PendingTotal(d, k)' = PendingTotal(d, k) + IF d = c THEN D[k] ELSE 0
             /\ \A u \in Users : PendingOf(d, u, k)' =
                    PendingOf(d, u, k) + IF d = c /\ u \in {from} \ {BTS} THEN D[k] ELSE 0
  <2>1. D[k] = Total(assets, k)  OBVIOUS
  <2>2. PendingTotal(d, k) \in Nat /\ \A u \in Users : PendingOf(d, u, k) \in Nat  BY PendingSums
  <2>3. \A u \in Users : from = u <=> (u \in {from} \ {BTS})  BY AccountsAssumption
  <2> HIDE DEF D
  <2> QED  BY <2>1, <2>2, <2>3, RecordSums
<1> HIDE DEF D
<1>3. PendingChange(c, {from} \ {BTS}, D)  BY <1>1, <1>2 DEF PendingChange
<1> QED  BY <1>3 DEF D

\* The change of what is pending, when a request is deleted.
LEMMA PendingForgotten ==
    ASSUME TypeOK, RequestsNumbered, NEW c \in Chains, NEW q \in requests[c], Forgets(c, q)
    PROVE  PendingChange(c, {q.from} \ {BTS}, [k \in Coins |-> 0 - Total(q.assets, k)])
<1> DEFINE D == [k \in Coins |-> 0 - Total(q.assets, k)]
<1>1. /\ requests' \in [Chains -> SUBSET Request] /\ serialNo' \in [Chains -> Nat]
      /\ RequestsNumbered'
  BY ForgetRequests
<1>2. ASSUME NEW d \in Chains, NEW k \in Coins
      PROVE  /\ PendingTotal(d, k)' = PendingTotal(d, k) + IF d = c THEN D[k] ELSE 0
             /\ \A u \in Users : PendingOf(d, u, k)' =
                    PendingOf(d, u, k) + IF d = c /\ u \in {q.from} \ {BTS} THEN D[k] ELSE 0
  <2>1. D[k] = 0 - Total(q.assets, k) /\ Total(q.assets, k) \in Nat  BY PendingSums
  <2>2. PendingTotal(d, k) \in Nat /\ \A u \in Users : PendingOf(d, u, k) \in Nat  BY PendingSums
  <2>3. \A u \in Users : q.from = u <=> (u \in {q.from} \ {BTS})  BY AccountsAssumption
  <2>4. PendingTotal(d, k)' \in Nat /\ \A u \in Users : PendingOf(d, u, k)' \in Nat
    <3>1. CASE d # c  BY <2>2, <3>1, ForgetSums
    <3>2. CASE d = c
      <4> DEFINE F == [p \in requests'[c] |-> Total(p.assets, k)]
                 G(u) == [p \in requests'[c] |-> IF p.from = u THEN Total(p.assets, k) ELSE 0]
      <4>1. requests'[c] \subseteq requests[c] /\ IsFiniteSet(requests'[c])
        BY <1>1, ForgetRequests DEF RequestsNumbered
      <4>2. \A p \in requests'[c] : Total(p.assets, k) \in Nat  BY <4>1, PendingSums
      <4>3. \A p \in requests'[c] : F[p] \in Nat  BY <4>2
      <4>4. \A u \in Users : \A p \in requests'[c] : G(u)[p] \in Nat  BY <4>2
      <4>5. Sum(F, requests'[c]) \in Nat
        <5> HIDE DEF F
        <5> QED  BY <4>1, <4>3, SumNat
      <4>6. \A u \in Users : Sum(G(u), requests'[c]) \in Nat
        <5> HIDE DEF G
        <5> QED  BY <4>1, <4>4, SumNat
      <4> QED  BY <3>2, <4>5, <4>6 DEF PendingTotal, PendingOf
    <3> QED  BY <3>1, <3>2
  <2> HIDE DEF D
  <2>5. CASE d # c  BY <2>1, <2>2, <2>5, ForgetSums
  <2>6. CASE d = c
    <3>1. PendingTotal(d, k)' = PendingTotal(d, k) + D[k]
      BY <2>1, <2>2, <2>4, <2>6, ForgetSums
    <3>2. ASSUME NEW u \in Users
          PROVE  PendingOf(d, u, k)' = PendingOf(d, u, k) + IF u \in {q.from} \ {BTS} THEN D[k] ELSE 0
      BY <2>1, <2>2, <2>3, <2>4, <2>6, ForgetSums
    <3> QED  BY <2>6, <3>1, <3>2
  <2> QED  BY <2>5, <2>6
<1> HIDE DEF D
<1>3. PendingChange(c, {q.from} \ {BTS}, D)  BY <1>1, <1>2 DEF PendingChange
<1> QED  BY <1>3 DEF D

\* The two properties of the books, coin by coin.
LEMMA BooksByCoin ==
    /\ LockedMatchesPending <=> \A c \in Chains, u \in Users, k \in Coins :
            bal[c][u][k].locked = PendingOf(c, u, k)
    /\ BurnCovered <=> (~wrappedUsable => \A c \in Chains, k \in Coins : IsWrapped(c, k) =>
            bts[c][k].held >= bts[c][k].fees + Refundables(c, k) + PendingTotal(c, k))
BY DEF LockedMatchesPending, BurnCovered, SumPending, PendingOf, PendingTotal, Refundables

\* What a BTS holds covers what it owes after a step that changes both alike.
LEMMA StillCovered ==
    ASSUME NEW h \in Nat, NEW f \in Nat, NEW r \in Nat, NEW p \in Nat, NEW x \in Nat,
           NEW h2 \in Nat, NEW f2 \in Nat, NEW r2 \in Nat, NEW x2 \in Nat, NEW d \in Int,
           h >= f + r + p, r2 + x = r + x2, h2 + f + x >= h + f2 + x2 + d
    PROVE  h2 >= f2 + r2 + p + d
OBVIOUS

\* Account a locks what becomes pending for it, and the treasury gains at least
\* what it has to cover in addition.
KeepsBooks(c, a, X, Y, O, D) ==
    \A k \in Coins :
        /\ X[k].locked = bal[c][a][k].locked + IF a \in O THEN D[k] ELSE 0
        /\ ~wrappedUsable /\ IsWrapped(c, k) =>
            Y[k].held + bts[c][k].fees + bal[c][a][k].refundable
                >= bts[c][k].held + Y[k].fees + X[k].refundable + D[k]

\* A step whose changes fit each other keeps the books.
LEMMA BooksStep ==
    ASSUME BooksInv, NEW c \in Chains, NEW a \in Accounts,
           NEW X \in [Coins -> Balance], NEW Y \in [Coins -> Treasury], Moves(c, a, X, Y),
           NEW O \in SUBSET {a}, NEW D \in [Coins -> Int], PendingChange(c, O, D),
           KeepsBooks(c, a, X, Y, O, D),
           chan' \in [Chains -> Seq(Message)], gathers' \in Nat, wrappedUsable' = wrappedUsable
    PROVE  BooksInv'
<1>0. TypeOK /\ RequestsNumbered  BY DEF BooksInv
<1>1. /\ bal' \in [Chains -> [Accounts -> [Coins -> Balance]]]
      /\ bts' \in [Chains -> [Coins -> Treasury]]
      /\ bts'[c] = Y
      /\ \A d \in Chains : d # c => bal'[d] = bal[d] /\ bts'[d] = bts[d]
      /\ bal'[c][a] = X
      /\ \A x \in Accounts : x # a => bal'[c][x] = bal[c][x]
  BY <1>0, MovesPointwise
<1>2. TypeOK'  BY <1>0, <1>1 DEF TypeOK, PendingChange
<1>3. \A d \in Chains, u \in Users, k \in Coins : bal'[d][u][k].locked = PendingOf(d, u, k)'
  <2> SUFFICES ASSUME NEW d \in Chains, NEW u \in Users, NEW k \in Coins
               PROVE  bal'[d][u][k].locked = PendingOf(d, u, k)'
    OBVIOUS
  <2>1. bal[d][u][k].locked = PendingOf(d, u, k)  BY BooksByCoin DEF BooksInv
  <2>2. PendingOf(d, u, k)' = PendingOf(d, u, k) + IF d = c /\ u \in O THEN D[k] ELSE 0
    BY DEF PendingChange
  <2>3. u \in Accounts  BY AccountsFinite
  <2>4. PendingOf(d, u, k) \in Nat  BY <1>0, PendingSums
  <2>5. CASE d = c /\ u = a  BY <1>1, <2>1, <2>2, <2>4, <2>5 DEF KeepsBooks
  <2>6. CASE ~(d = c /\ u = a)
    <3>1. bal'[d][u][k] = bal[d][u][k]  BY <1>1, <2>3, <2>6
    <3> QED  BY <2>1, <2>2, <2>4, <2>6, <3>1
  <2> QED  BY <2>5, <2>6
<1>4. ASSUME ~wrappedUsable, NEW d \in Chains, NEW k \in Coins, IsWrapped(d, k)
      PROVE  bts'[d][k].held >= bts'[d][k].fees + Refundables(d, k)' + PendingTotal(d, k)'
  <2>1. bts[d][k].held >= bts[d][k].fees + Refundables(d, k) + PendingTotal(d, k)
    BY <1>4, BooksByCoin DEF BooksInv
  <2>2. PendingTotal(d, k)' = PendingTotal(d, k) + IF d = c THEN D[k] ELSE 0  BY DEF PendingChange
  <2>3. /\ Refundables(d, k) \in Nat /\ PendingTotal(d, k) \in Nat
        /\ bts[d][k].held \in Nat /\ bts[d][k].fees \in Nat
    BY <1>0, AccountSums, PendingSums, TreasuryFields
  <2>4. CASE d # c
    <3>1. Refundables(d, k)' = Refundables(d, k)  BY <1>0, <2>4, MovesSums
    <3> QED  BY <1>1, <2>1, <2>2, <2>3, <2>4, <3>1
  <2>5. CASE d = c
    <3>1. Refundables(c, k)' + bal[c][a][k].refundable = Refundables(c, k) + X[k].refundable
      BY <1>0, MovesSums
    <3>2. Y[k].held + bts[c][k].fees + bal[c][a][k].refundable
            >= bts[c][k].held + Y[k].fees + X[k].refundable + D[k]
      BY <1>4, <2>5 DEF KeepsBooks
    <3>3. /\ bal[c][a][k].refundable \in Nat /\ X[k].refundable \in Nat /\ D[k] \in Int
          /\ Y[k].held \in Nat /\ Y[k].fees \in Nat
      BY <1>0, BalanceFields DEF Balance, Treasury
    <3>4. Refundables(c, k)' \in Nat
      <4> USE <1>2
      <4> DEFINE R == [u \in Accounts |-> bal'[c][u][k].refundable]
      <4>1. \A u \in Accounts : R[u] \in Nat  BY <1>1 DEF Balance
      <4>2. Sum(R, Accounts) \in Nat
        <5> HIDE DEF R
        <5> QED  BY <4>1, AccountsFinite, SumNat
      <4> QED  BY <4>2 DEF Refundables
    <3>5. bts'[c][k] = Y[k]  BY <1>1
    <3>6. Y[k].held >= Y[k].fees + Refundables(c, k)' + PendingTotal(c, k) + D[k]
      <4>1. bts[c][k].held >= bts[c][k].fees + Refundables(c, k) + PendingTotal(c, k)
        BY <2>1, <2>5
      <4>2. /\ Refundables(c, k) \in Nat /\ PendingTotal(c, k) \in Nat
            /\ bts[c][k].held \in Nat /\ bts[c][k].fees \in Nat
        BY <2>3, <2>5
      <4> QED  BY <3>1, <3>2, <3>3, <3>4, <4>1, <4>2, StillCovered
    <3> QED  BY <2>2, <2>3, <2>5, <3>3, <3>4, <3>5, <3>6
  <2> QED  BY <2>4, <2>5
<1>5. LockedMatchesPending'
  BY <1>3 DEF LockedMatchesPending, SumPending, PendingOf
<1>6. BurnCovered'
  BY <1>4 DEF BurnCovered, SumPending, PendingTotal, Refundables, IsWrapped
<1> QED  BY <1>2, <1>5, <1>6 DEF BooksInv, PendingChange
-----------------------------------------------------------------------------
\* What each operation moves.

\* A deposit of v of coin k.
Deposits(u, k, v, X, Y) ==
    /\ \A j \in Coins : j # k => X[j] = bal["icon"][u][j] /\ Y[j] = bts["icon"][j]
    /\ X[k].locked = bal["icon"][u][k].locked
    /\ X[k].refundable = bal["icon"][u][k].refundable
    /\ X[k].usable = bal["icon"][u][k].usable + v
    /\ Y[k].held = bts["icon"][k].held + v
    /\ Y[k].fees = bts["icon"][k].fees

\* A transfer of coin k of the assets.
Locks(c, u, assets, X, Y, k) ==
    /\ X[k].locked = bal[c][u][k].locked + Total(assets, k)
    /\ X[k].refundable = bal[c][u][k].refundable
    /\ Y[k].fees = bts[c][k].fees
    /\ Deposited(c, k) =>
        /\ X[k].wallet = bal[c][u][k].wallet
        /\ X[k].usable = bal[c][u][k].usable - Total(assets, k)
        /\ Y[k].held = bts[c][k].held
    /\ ~Deposited(c, k) =>
        /\ X[k].wallet = bal[c][u][k].wallet - Total(assets, k)
        /\ ~IsWrapped(c, k) => X[k].usable = bal[c][u][k].usable
        /\ Y[k].held = bts[c][k].held + Total(assets, k)

\* Coin k of the assets is paid out or minted.
Pays(c, u, assets, X, Y, k) ==
    /\ PaidOut(c, assets, k) \in Nat
    /\ X[k].wallet = bal[c][u][k].wallet + PaidOut(c, assets, k)
    /\ X[k].locked = bal[c][u][k].locked
    /\ X[k].usable = bal[c][u][k].usable
    /\ X[k].refundable = bal[c][u][k].refundable
    /\ Y[k].fees = bts[c][k].fees
    /\ Y[k].held = bts[c][k].held - IF IsWrapped(c, k) THEN 0 ELSE PaidOut(c, assets, k)

\* Coin k of request q is burned, paid back, or recorded as refundable.
Unlocks(c, q, code, X, Y, k) ==
    /\ X[k].locked = bal[c][q.from][k].locked - Total(q.assets, k)
    /\ X[k].usable = bal[c][q.from][k].usable
    /\ Y[k].fees = bts[c][k].fees + Fee(q.assets, k)
    /\ code = "RC_OK" =>
        /\ X[k].wallet = bal[c][q.from][k].wallet
        /\ X[k].refundable = bal[c][q.from][k].refundable
        /\ Y[k].held = bts[c][k].held - IF IsWrapped(c, k) THEN Amount(q.assets, k) ELSE 0
    /\ code # "RC_OK" =>
        \/ /\ X[k].wallet = bal[c][q.from][k].wallet
           /\ X[k].refundable = bal[c][q.from][k].refundable + Amount(q.assets, k)
           /\ Y[k].held = bts[c][k].held
        \/ /\ X[k].wallet = bal[c][q.from][k].wallet + Amount(q.assets, k)
           /\ X[k].refundable = bal[c][q.from][k].refundable
           /\ Y[k].held = bts[c][k].held - Amount(q.assets, k)

\* Coin k of a failed fee gathering is recorded as fees again.
SavesBack(c, q, code, Y, k) ==
    /\ Y[k].held = bts[c][k].held
    /\ Y[k].fees = bts[c][k].fees + IF code = "RC_ERR" THEN Amount(q.assets, k) ELSE 0

\* A reclaim of v of coin k, r of it refundable.
Reclaims(c, u, k, v, r, X, Y) ==
    /\ \A j \in Coins : j # k => X[j] = bal[c][u][j] /\ Y[j] = bts[c][j]
    /\ r <= v /\ (IsWrapped(c, k) /\ ~wrappedUsable => r = v)
    /\ X[k].wallet = bal[c][u][k].wallet + v
    /\ X[k].locked = bal[c][u][k].locked
    /\ X[k].refundable = bal[c][u][k].refundable - r
    /\ X[k].usable = bal[c][u][k].usable - (v - r)
    /\ Y[k].held = bts[c][k].held - v
    /\ Y[k].fees = bts[c][k].fees

\* The fees of coin k on ICON are paid to the aggregator, or kept.
Gathers(X, Y, k) ==
    /\ X[k].locked = bal["icon"][Aggregator][k].locked
    /\ X[k].usable = bal["icon"][Aggregator][k].usable
    /\ X[k].refundable = bal["icon"][Aggregator][k].refundable
    /\ \/ /\ X[k].wallet = bal["icon"][Aggregator][k].wallet
          /\ Y[k].held = bts["icon"][k].held /\ Y[k].fees = bts["icon"][k].fees
       \/ /\ X[k].wallet = bal["icon"][Aggregator][k].wallet + bts["icon"][k].fees
          /\ Y[k].held = bts["icon"][k].held - bts["icon"][k].fees /\ Y[k].fees = 0

\* What Deposit changes.
LEMMA DepositEffect ==
    ASSUME TypeOK, NEW u \in Users, NEW k \in Coins, NEW v \in Nat, Deposit(u, k, v)
    PROVE  \E X \in [Coins -> Balance], Y \in [Coins -> Treasury] :
            Moves("icon", u, X, Y) /\ Deposits(u, k, v, X, Y)
<1> DEFINE x == bal["icon"][u][k]
           x2 == [wallet |-> x.wallet - v, usable |-> x.usable + v,
                  locked |-> x.locked, refundable |-> x.refundable]
           y2 == [held |-> bts["icon"][k].held + v, fees |-> bts["icon"][k].fees]
           X == [bal["icon"][u] EXCEPT ![k] = x2]
           Y == [bts["icon"] EXCEPT ![k] = y2]
<1>1. u \in Accounts /\ "icon" \in Chains  BY AccountsFinite DEF Chains
<1>2. /\ x \in Balance /\ x.wallet \in Nat /\ x.usable \in Nat /\ x.locked \in Nat
      /\ x.refundable \in Nat
  BY <1>1, BalanceFields
<1>3. bts["icon"][k] \in Treasury /\ bts["icon"][k].held \in Nat /\ bts["icon"][k].fees \in Nat
  BY <1>1, TreasuryFields
<1>4. x.wallet >= v  BY DEF Deposit
<1>5. x2 \in Balance  BY <1>2, <1>4 DEF Balance
<1>6. y2 \in Treasury  BY <1>3 DEF Treasury
<1>7. X \in [Coins -> Balance] /\ Y \in [Coins -> Treasury]
  BY <1>1, <1>5, <1>6 DEF TypeOK
<1>8. X[k] = x2 /\ Y[k] = y2  BY <1>1 DEF TypeOK
<1>9. TokenFallback([x EXCEPT !.wallet = @ - v], v) = x2
  <2> HIDE DEF x
  <2>2. [x EXCEPT !.wallet = @ - v] =
            [wallet |-> x.wallet - v, usable |-> x.usable, locked |-> x.locked, refundable |-> x.refundable]
    BY <1>2 DEF Balance
  <2>3. TokenFallback([wallet |-> x.wallet - v, usable |-> x.usable,
                       locked |-> x.locked, refundable |-> x.refundable], v) = x2
    BY DEF TokenFallback
  <2> QED  BY <2>2, <2>3
<1>10. [bts["icon"][k] EXCEPT !.held = @ + v] = y2  BY <1>3 DEF Treasury
<1>11. bal' = [bal EXCEPT !["icon"][u] = X]
  <2>1. bal' = [bal EXCEPT !["icon"][u][k] = TokenFallback([x EXCEPT !.wallet = @ - v], v)]
    BY DEF Deposit
  <2>2. bal' = [bal EXCEPT !["icon"][u][k] = x2]
    <3> HIDE DEF x2
    <3> QED  BY <1>9, <2>1 DEF x
  <2> HIDE DEF x2
  <2> QED  BY <1>1, <2>2 DEF TypeOK
<1>12. bts' = [bts EXCEPT !["icon"] = Y]
  BY <1>1, <1>10 DEF Deposit, TypeOK
<1>13. \A j \in Coins : j # k => X[j] = bal["icon"][u][j] /\ Y[j] = bts["icon"][j]
  BY <1>1 DEF TypeOK
<1>14. Moves("icon", u, X, Y)  BY <1>11, <1>12 DEF Moves
<1>15. /\ X[k].locked = bal["icon"][u][k].locked /\ X[k].refundable = bal["icon"][u][k].refundable
       /\ X[k].usable = bal["icon"][u][k].usable + v
       /\ Y[k].held = bts["icon"][k].held + v /\ Y[k].fees = bts["icon"][k].fees
  BY <1>8
<1> HIDE DEF X, Y
<1>16. Deposits(u, k, v, X, Y)  BY <1>13, <1>15 DEF Deposits
<1> QED  BY <1>7, <1>14, <1>16

\* What Transfer changes.
LEMMA TransferEffect ==
    ASSUME TypeOK, NEW c \in Chains, NEW u \in Users, NEW v, NEW b \in Batches(c),
           Transfer(c, u, v, b)
    PROVE  /\ BatchAssets(c, b) \in Seq(Asset)
           /\ Record(c, u, BatchAssets(c, b))
           /\ chan' = Sent(c, <<RequestMessage(c, v, BatchAssets(c, b))>>)
           /\ \E X \in [Coins -> Balance], Y \in [Coins -> Treasury] :
                /\ Moves(c, u, X, Y)
                /\ \A k \in Coins : Locks(c, u, BatchAssets(c, b), X, Y, k)
<1> DEFINE assets == BatchAssets(c, b)
           T(k) == Total(assets, k)
           X == [k \in Coins |-> [Take(c, k, bal[c][u][k], T(k)) EXCEPT !.locked = @ + T(k)]]
           Y == [k \in Coins |-> [bts[c][k] EXCEPT !.held = IF Deposited(c, k) THEN @ ELSE @ + T(k)]]
<1>0. u \in Accounts  BY AccountsFinite
<1>1. assets \in Seq(Asset)  BY BatchAssetsType DEF Transfer
<1>2. /\ \A k \in Coins : T(k) <= IF Deposited(c, k) THEN bal[c][u][k].usable
                                                    ELSE bal[c][u][k].wallet
      /\ bal' = [bal EXCEPT ![c][u] = X]
      /\ bts' = [bts EXCEPT ![c] = Y]
      /\ Record(c, u, assets)
      /\ chan' = Sent(c, <<RequestMessage(c, v, assets)>>)
  <2>1. \A k \in Coins : T(k) <= IF Deposited(c, k) THEN bal[c][u][k].usable
                                                    ELSE bal[c][u][k].wallet
    BY Zenon DEF Transfer, BatchAssets
  <2>2. bal' = [bal EXCEPT ![c][u] = X]  BY Zenon DEF Transfer, BatchAssets
  <2>3. bts' = [bts EXCEPT ![c] = Y]  BY Zenon DEF Transfer, BatchAssets
  <2>4. Record(c, u, assets)  BY Zenon DEF Transfer, BatchAssets
  <2>5. chan' = Sent(c, <<RequestMessage(c, v, assets)>>)  BY Zenon DEF Transfer, BatchAssets
  <2> QED  BY <2>1, <2>2, <2>3, <2>4, <2>5
<1> HIDE DEF assets
<1>3. ASSUME NEW k \in Coins
      PROVE  /\ X[k] \in Balance /\ Y[k] \in Treasury
             /\ X[k].locked = bal[c][u][k].locked + T(k)
             /\ X[k].refundable = bal[c][u][k].refundable
             /\ Y[k].fees = bts[c][k].fees
             /\ Deposited(c, k) =>
                    /\ X[k].wallet = bal[c][u][k].wallet
                    /\ X[k].usable = bal[c][u][k].usable - T(k)
                    /\ Y[k].held = bts[c][k].held
             /\ ~Deposited(c, k) =>
                    /\ X[k].wallet = bal[c][u][k].wallet - T(k)
                    /\ ~IsWrapped(c, k) => X[k].usable = bal[c][u][k].usable
                    /\ Y[k].held = bts[c][k].held + T(k)
  <2>1. T(k) \in Nat  BY <1>1, AssetSums
  <2>2. /\ bal[c][u][k] \in Balance
        /\ bal[c][u][k].wallet \in Nat /\ bal[c][u][k].usable \in Nat
        /\ bal[c][u][k].locked \in Nat /\ bal[c][u][k].refundable \in Nat
        /\ bts[c][k] \in Treasury /\ bts[c][k].held \in Nat /\ bts[c][k].fees \in Nat
    BY <1>0, BalanceFields, TreasuryFields
  <2>3. T(k) <= IF Deposited(c, k) THEN bal[c][u][k].usable ELSE bal[c][u][k].wallet  BY <1>2
  <2> DEFINE t == T(k)
             x == bal[c][u][k]
             y == bts[c][k]
  <2>4. X[k] = [Take(c, k, x, t) EXCEPT !.locked = @ + t]  OBVIOUS
  <2>5. Y[k] = [y EXCEPT !.held = IF Deposited(c, k) THEN @ ELSE @ + t]  OBVIOUS
  <2> HIDE DEF X, Y, T, t, x, y
  <2>6. t \in Nat /\ x \in Balance /\ y \in Treasury  BY <2>1, <2>2 DEF t, x, y
  <2>7. t <= IF Deposited(c, k) THEN x.usable ELSE x.wallet  BY <2>3 DEF t, x
  <2>8. y.held \in Nat /\ y.fees \in Nat /\ Y[k] = [held |-> IF Deposited(c, k) THEN y.held ELSE y.held + t, fees |-> y.fees]
    BY <2>5, <2>6 DEF Treasury
  <2>9. /\ x.wallet \in Nat /\ x.usable \in Nat /\ x.locked \in Nat /\ x.refundable \in Nat
    BY <2>6 DEF Balance
  <2>10. CASE Deposited(c, k)
    <3>1. X[k] = [wallet |-> x.wallet, usable |-> x.usable - t, locked |-> x.locked + t, refundable |-> x.refundable]
      BY <2>4, <2>6, <2>10 DEF Take, Balance
    <3>2. x.usable - t \in Nat  BY <2>6, <2>7, <2>9, <2>10
    <3>3. X[k] \in Balance /\ Y[k] \in Treasury  BY <2>6, <2>8, <2>9, <2>10, <3>1, <3>2 DEF Balance, Treasury
    <3> QED  BY <2>8, <2>10, <3>1, <3>3 DEF t, x, y
  <2>11. CASE ~Deposited(c, k)
    <3>1. X[k] = [wallet |-> x.wallet - t, usable |-> IF c = "icon" /\ IsWrapped(c, k) THEN x.usable + t ELSE x.usable,
                  locked |-> x.locked + t, refundable |-> x.refundable]
      BY <2>4, <2>6, <2>11 DEF Take, TokenFallback, Balance
    <3>2. x.wallet - t \in Nat  BY <2>6, <2>7, <2>9, <2>11
    <3>3. X[k] \in Balance /\ Y[k] \in Treasury  BY <2>6, <2>8, <2>9, <2>11, <3>1, <3>2 DEF Balance, Treasury
    <3> QED  BY <2>8, <2>11, <3>1, <3>3 DEF t, x, y
  <2> QED  BY <2>10, <2>11
<1>4. X \in [Coins -> Balance] /\ Y \in [Coins -> Treasury]
  <2>1. X = [k \in Coins |-> X[k]] /\ Y = [k \in Coins |-> Y[k]]  OBVIOUS
  <2> HIDE DEF X, Y
  <2> QED  BY <1>3, <2>1
<1>5. Moves(c, u, X, Y)  BY <1>2 DEF Moves
<1> HIDE DEF X, Y
<1>6. \A k \in Coins : Locks(c, u, assets, X, Y, k)  BY <1>3 DEF Locks
<1> QED  BY <1>1, <1>2, <1>4, <1>5, <1>6 DEF assets
\* The largest of some positions.
LEMMA MaxIn ==
    ASSUME NEW n \in Nat, NEW S \in SUBSET (1 .. n), S # {}
    PROVE  Max(S) \in S
<1> DEFINE I == {m \in Nat : \A T \in SUBSET (1 .. m) : T # {} => \E x \in T : \A y \in T : x >= y}
<1>1. 0 \in I
  <2>1. 1 .. 0 = {}  OBVIOUS
  <2>2. \A T \in SUBSET (1 .. 0) : T # {} => \E x \in T : \A y \in T : x >= y  BY <2>1
  <2> QED  BY <2>2
<1>2. ASSUME NEW m \in Nat, m \in I PROVE m + 1 \in I
  <2> SUFFICES ASSUME NEW T \in SUBSET (1 .. m + 1), T # {}
               PROVE  \E x \in T : \A y \in T : x >= y
    OBVIOUS
  <2>1. CASE m + 1 \in T  BY <2>1
  <2>2. CASE m + 1 \notin T
    <3>1. T \in SUBSET (1 .. m)  BY <2>2
    <3> QED  BY <1>2, <3>1
  <2> QED  BY <2>1, <2>2
<1> HIDE DEF I
<1>3. n \in I  BY <1>1, <1>2, NatSet
<1>4. \E x \in S : \A y \in S : x >= y  BY <1>3 DEF I
<1> QED  BY <1>4 DEF Max

\* What is paid out for a request is a number.
LEMMA PaidOutNat ==
    ASSUME NEW c, NEW assets \in Seq(Asset), NEW k
    PROVE  PaidOut(c, assets, k) \in Nat
<1>1. Len(assets) \in Nat /\ DOMAIN assets = 1 .. Len(assets)  BY LenProperties
<1>2. Positions(assets, k) \in SUBSET (1 .. Len(assets))  BY <1>1, PositionsFinite
<1>3. ASSUME Positions(assets, k) # {}
      PROVE  assets[Max(Positions(assets, k))].amount \in Nat
  <2>1. Max(Positions(assets, k)) \in Positions(assets, k)  BY <1>1, <1>2, <1>3, MaxIn
  <2>2. assets[Max(Positions(assets, k))] \in Asset  BY <1>1, <1>2, <2>1, ElementOfSeq
  <2> QED  BY <2>2 DEF Asset
<1>4. Amount(assets, k) \in Nat  BY AssetSums
<1> QED  BY <1>3, <1>4 DEF PaidOut

\* What AcceptRequest changes.
LEMMA AcceptEffect ==
    ASSUME TypeOK, NEW c \in Chains, AcceptRequest(c)
    PROVE  \E X \in [Coins -> Balance], Y \in [Coins -> Treasury] :
            /\ Moves(c, Head(chan[c]).to, X, Y)
            /\ \A k \in Coins : Pays(c, Head(chan[c]).to, Head(chan[c]).assets, X, Y, k)
<1> DEFINE m == Head(chan[c])
           P(k) == PaidOut(c, m.assets, k)
           X == [k \in Coins |-> [bal[c][m.to][k] EXCEPT !.wallet = @ + P(k)]]
           Y == [k \in Coins |-> [bts[c][k] EXCEPT !.held = IF IsWrapped(c, k) THEN @ ELSE @ - P(k)]]
<1>1. m.to \in Accounts /\ m.assets \in Seq(Asset)
  <2>1. Receives(c, "request")  BY DEF AcceptRequest
  <2> QED  BY <2>1, HeadType, MessageFields
<1>2. /\ \A k \in Coins : ~ IsWrapped(c, k) => P(k) <= bts[c][k].held
      /\ bal' = [bal EXCEPT ![c][m.to] = X]
      /\ bts' = [bts EXCEPT ![c] = Y]
  BY Zenon DEF AcceptRequest, Payable
<1> HIDE DEF m
<1>3. ASSUME NEW k \in Coins
      PROVE  /\ X[k] \in Balance /\ Y[k] \in Treasury
             /\ P(k) \in Nat
             /\ X[k].wallet = bal[c][m.to][k].wallet + P(k)
             /\ X[k].locked = bal[c][m.to][k].locked
             /\ X[k].usable = bal[c][m.to][k].usable
             /\ X[k].refundable = bal[c][m.to][k].refundable
             /\ Y[k].fees = bts[c][k].fees
             /\ Y[k].held = bts[c][k].held - IF IsWrapped(c, k) THEN 0 ELSE P(k)
  <2> DEFINE p == P(k)
             x == bal[c][m.to][k]
             y == bts[c][k]
  <2>1. p \in Nat  BY <1>1, PaidOutNat
  <2>2. x \in Balance /\ y \in Treasury  BY <1>1, BalanceFields, TreasuryFields
  <2>3. ~ IsWrapped(c, k) => p <= y.held  BY <1>2
  <2>4. X[k] = [x EXCEPT !.wallet = @ + p]  OBVIOUS
  <2>5. Y[k] = [y EXCEPT !.held = IF IsWrapped(c, k) THEN @ ELSE @ - p]  OBVIOUS
  <2> HIDE DEF X, Y, P, p, x, y
  <2>6. /\ x.wallet \in Nat /\ x.usable \in Nat /\ x.locked \in Nat /\ x.refundable \in Nat
        /\ y.held \in Nat /\ y.fees \in Nat
    BY <2>2 DEF Balance, Treasury
  <2>7. X[k] = [wallet |-> x.wallet + p, usable |-> x.usable, locked |-> x.locked, refundable |-> x.refundable]
    BY <2>2, <2>4 DEF Balance
  <2>8. Y[k] = [held |-> IF IsWrapped(c, k) THEN y.held ELSE y.held - p, fees |-> y.fees]
    BY <2>2, <2>5 DEF Treasury
  <2>9. X[k] \in Balance /\ Y[k] \in Treasury
    <3>1. x.wallet + p \in Nat /\ (~IsWrapped(c, k) => y.held - p \in Nat)  BY <2>1, <2>3, <2>6
    <3> QED  BY <2>6, <2>7, <2>8, <3>1 DEF Balance, Treasury
  <2>10. Y[k].held = y.held - IF IsWrapped(c, k) THEN 0 ELSE p  BY <2>6, <2>8
  <2> QED  BY <2>1, <2>7, <2>8, <2>9, <2>10 DEF p, x, y
<1>4. X \in [Coins -> Balance] /\ Y \in [Coins -> Treasury]
  <2>1. X = [k \in Coins |-> X[k]] /\ Y = [k \in Coins |-> Y[k]]  OBVIOUS
  <2> HIDE DEF X, Y
  <2> QED  BY <1>3, <2>1
<1>5. Moves(c, m.to, X, Y)  BY <1>2 DEF Moves
<1> HIDE DEF X, Y
<1>6. \A k \in Coins : Pays(c, m.to, m.assets, X, Y, k)  BY <1>3 DEF Pays
<1> QED  BY <1>4, <1>5, <1>6 DEF m

\* What handleResponseService changes for the sender of a transfer: the locks
\* cover what is unlocked.
LEMMA SettleTransferEffect ==
    ASSUME TypeOK, RequestsNumbered, LockedMatchesPending,
           NEW c \in Chains, NEW q \in requests[c], q.from # BTS,
           NEW code, NEW refused, SettleTransfer(c, q, code, refused)
    PROVE  \E X \in [Coins -> Balance], Y \in [Coins -> Treasury] :
            Moves(c, q.from, X, Y) /\ \A k \in Coins : Unlocks(c, q, code, X, Y, k)
<1> DEFINE A(k) == Amount(q.assets, k)
           Refund(k, z) == IF code = "RC_OK" THEN z
                           ELSE IF k \in refused THEN [z EXCEPT !.refundable = @ + A(k)]
                           ELSE [z EXCEPT !.wallet = @ + A(k)]
           paid(k) == IF code = "RC_OK" THEN Burned(c, q, k)
                      ELSE IF k \in refused THEN 0 ELSE A(k)
           X == [k \in Coins |-> Refund(k, [bal[c][q.from][k] EXCEPT !.locked = @ - Total(q.assets, k)])]
           Y == [k \in Coins |-> [held |-> bts[c][k].held - paid(k),
                                  fees |-> bts[c][k].fees + Fee(q.assets, k)]]
<1>1. q \in Request /\ q.from \in Accounts /\ q.assets \in Seq(Asset)  BY RequestFields DEF TypeOK
<1>2. /\ \A k \in Coins : paid(k) <= bts[c][k].held
      /\ bal' = [bal EXCEPT ![c][q.from] = X]
      /\ bts' = [bts EXCEPT ![c] = Y]
  BY Zenon DEF SettleTransfer
<1>3. ASSUME NEW k \in Coins
      PROVE  /\ X[k] \in Balance /\ Y[k] \in Treasury
             /\ X[k].locked = bal[c][q.from][k].locked - Total(q.assets, k)
             /\ X[k].usable = bal[c][q.from][k].usable
             /\ Y[k].fees = bts[c][k].fees + Fee(q.assets, k)
             /\ code = "RC_OK" =>
                    /\ X[k].wallet = bal[c][q.from][k].wallet
                    /\ X[k].refundable = bal[c][q.from][k].refundable
                    /\ Y[k].held = bts[c][k].held - IF IsWrapped(c, k) THEN A(k) ELSE 0
             /\ code # "RC_OK" =>
                    \/ /\ X[k].wallet = bal[c][q.from][k].wallet
                       /\ X[k].refundable = bal[c][q.from][k].refundable + A(k)
                       /\ Y[k].held = bts[c][k].held
                    \/ /\ X[k].wallet = bal[c][q.from][k].wallet + A(k)
                       /\ X[k].refundable = bal[c][q.from][k].refundable
                       /\ Y[k].held = bts[c][k].held - A(k)
  <2> DEFINE a == A(k)
             t == Total(q.assets, k)
             f == Fee(q.assets, k)
             p == paid(k)
             x == bal[c][q.from][k]
             y == bts[c][k]
             z == [x EXCEPT !.locked = @ - t]
  <2>1. a \in Nat /\ t \in Nat /\ f \in Nat  BY <1>1, AssetSums
  <2>2. x \in Balance /\ y \in Treasury  BY <1>1, BalanceFields, TreasuryFields
  <2>3. t <= x.locked  BY LockedCovers
  <2>4. p <= y.held  BY <1>2
  <2>5. p = IF code = "RC_OK" THEN (IF IsWrapped(c, k) THEN a ELSE 0)
            ELSE IF k \in refused THEN 0 ELSE a
    BY DEF Burned
  <2>6. X[k] = IF code = "RC_OK" THEN z
               ELSE IF k \in refused THEN [z EXCEPT !.refundable = @ + a]
               ELSE [z EXCEPT !.wallet = @ + a]
    OBVIOUS
  <2>7. Y[k] = [held |-> y.held - p, fees |-> y.fees + f]  OBVIOUS
  <2> HIDE DEF X, Y, A, a, t, f, p, x, y
  <2>8. /\ x.wallet \in Nat /\ x.usable \in Nat /\ x.locked \in Nat /\ x.refundable \in Nat
        /\ y.held \in Nat /\ y.fees \in Nat
    BY <2>2 DEF Balance, Treasury
  <2>9. z = [wallet |-> x.wallet, usable |-> x.usable, locked |-> x.locked - t, refundable |-> x.refundable]
    BY <2>2 DEF Balance
  <2> HIDE DEF z
  <2>10. /\ code = "RC_OK" => X[k] = [wallet |-> x.wallet, usable |-> x.usable, locked |-> x.locked - t,
                                      refundable |-> x.refundable]
         /\ code # "RC_OK" /\ k \in refused =>
                X[k] = [wallet |-> x.wallet, usable |-> x.usable, locked |-> x.locked - t,
                        refundable |-> x.refundable + a]
         /\ code # "RC_OK" /\ k \notin refused =>
                X[k] = [wallet |-> x.wallet + a, usable |-> x.usable, locked |-> x.locked - t,
                        refundable |-> x.refundable]
    BY <2>6, <2>9
  <2>11. /\ x.locked - t \in Nat /\ x.wallet + a \in Nat /\ x.refundable + a \in Nat
         /\ y.held - p \in Nat /\ y.fees + f \in Nat
    BY <2>1, <2>3, <2>4, <2>5, <2>8
  <2>12. X[k] \in Balance /\ Y[k] \in Treasury
    BY <2>7, <2>8, <2>10, <2>11 DEF Balance, Treasury
  <2>13. Y[k].held = y.held - p /\ Y[k].fees = y.fees + f  BY <2>7
  <2>14. /\ X[k].locked = x.locked - t
         /\ X[k].usable = x.usable
         /\ code = "RC_OK" =>
                /\ X[k].wallet = x.wallet /\ X[k].refundable = x.refundable
                /\ Y[k].held = y.held - IF IsWrapped(c, k) THEN a ELSE 0
         /\ code # "RC_OK" =>
                \/ /\ X[k].wallet = x.wallet /\ X[k].refundable = x.refundable + a
                   /\ Y[k].held = y.held
                \/ /\ X[k].wallet = x.wallet + a /\ X[k].refundable = x.refundable
                   /\ Y[k].held = y.held - a
    <3>1. CASE code = "RC_OK"  BY <2>5, <2>10, <2>13, <3>1
    <3>2. CASE code # "RC_OK" /\ k \in refused
      BY <2>5, <2>8, <2>10, <2>13, <3>2
    <3>3. CASE code # "RC_OK" /\ k \notin refused
      BY <2>5, <2>8, <2>10, <2>13, <3>3
    <3> QED  BY <3>1, <3>2, <3>3
  <2> QED  BY <2>12, <2>13, <2>14 DEF a, t, f, x, y
<1>4. X \in [Coins -> Balance] /\ Y \in [Coins -> Treasury]
  <2>1. X = [k \in Coins |-> X[k]] /\ Y = [k \in Coins |-> Y[k]]  OBVIOUS
  <2> HIDE DEF X, Y
  <2> QED  BY <1>3, <2>1
<1>5. Moves(c, q.from, X, Y)  BY <1>2 DEF Moves
<1> HIDE DEF X, Y
<1>6. \A k \in Coins : Unlocks(c, q, code, X, Y, k)  BY <1>3 DEF Unlocks
<1> QED  BY <1>4, <1>5, <1>6
\* What handleResponseService changes for gathered fees.
LEMMA SettleGatheringEffect ==
    ASSUME TypeOK, NEW c \in Chains, NEW q \in requests[c], NEW code,
           SettleGathering(c, q, code), NEW a \in Accounts
    PROVE  \E Y \in [Coins -> Treasury] :
            /\ Moves(c, a, bal[c][a], Y) /\ bal[c][a] \in [Coins -> Balance]
            /\ \A k \in Coins : SavesBack(c, q, code, Y, k)
<1> DEFINE A(k) == Amount(q.assets, k)
           Y == [k \in Coins |-> [bts[c][k] EXCEPT !.fees = IF code = "RC_ERR" THEN @ + A(k) ELSE @]]
<1>1. q \in Request /\ q.assets \in Seq(Asset)  BY RequestFields DEF TypeOK
<1>2. bts' = [bts EXCEPT ![c] = Y] /\ bal' = bal  BY Zenon DEF SettleGathering
<1>3. ASSUME NEW k \in Coins
      PROVE  /\ Y[k] \in Treasury /\ Y[k].held = bts[c][k].held
             /\ Y[k].fees = bts[c][k].fees + IF code = "RC_ERR" THEN A(k) ELSE 0
  <2>1. A(k) \in Nat  BY <1>1, AssetSums
  <2>2. bts[c][k] \in Treasury  BY TreasuryFields
  <2> DEFINE y == bts[c][k]
  <2>3. Y[k] = [y EXCEPT !.fees = IF code = "RC_ERR" THEN @ + A(k) ELSE @]  OBVIOUS
  <2> HIDE DEF Y, y, A
  <2>4. y \in Treasury  BY <2>2 DEF y
  <2>5. y.held \in Nat /\ y.fees \in Nat
        /\ Y[k] = [held |-> y.held, fees |-> y.fees + IF code = "RC_ERR" THEN A(k) ELSE 0]
    BY <2>1, <2>3, <2>4 DEF Treasury
  <2> QED  BY <2>1, <2>5 DEF Treasury, y
<1>4. Y \in [Coins -> Treasury]
  <2>1. Y = [k \in Coins |-> Y[k]]  OBVIOUS
  <2> HIDE DEF Y
  <2> QED  BY <1>3, <2>1
<1>5. Moves(c, a, bal[c][a], Y) /\ bal[c][a] \in [Coins -> Balance]  BY <1>2 DEF Moves, TypeOK
<1> HIDE DEF Y
<1>6. \A k \in Coins : SavesBack(c, q, code, Y, k)  BY <1>3 DEF SavesBack
<1> QED  BY <1>4, <1>5, <1>6

\* What Reclaim changes.
LEMMA ReclaimEffect ==
    ASSUME TypeOK, NEW c \in Chains, NEW u \in Users, NEW k \in Coins, NEW v \in Nat,
           Reclaim(c, u, k, v)
    PROVE  \E X \in [Coins -> Balance], Y \in [Coins -> Treasury], r \in Nat :
            Moves(c, u, X, Y) /\ Reclaims(c, u, k, v, r, X, Y)
<1> DEFINE x == bal[c][u][k]
           r == IF v > x.refundable THEN x.refundable ELSE v
           x2 == [wallet |-> x.wallet + v, usable |-> x.usable - (v - r),
                  locked |-> x.locked, refundable |-> x.refundable - r]
           y2 == [held |-> bts[c][k].held - v, fees |-> bts[c][k].fees]
           X == [bal[c][u] EXCEPT ![k] = x2]
           Y == [bts[c] EXCEPT ![k] = y2]
<1>1. u \in Accounts  BY AccountsFinite
<1>2. /\ x \in Balance /\ x.wallet \in Nat /\ x.usable \in Nat /\ x.locked \in Nat
      /\ x.refundable \in Nat
  BY <1>1, BalanceFields
<1>3. bts[c][k] \in Treasury /\ bts[c][k].held \in Nat /\ bts[c][k].fees \in Nat
  BY TreasuryFields
<1>4. /\ v <= x.refundable + x.usable /\ v <= bts[c][k].held
      /\ IsWrapped(c, k) /\ v > x.refundable => wrappedUsable
      /\ bal' = [bal EXCEPT ![c][u][k] = x2]
      /\ bts' = [bts EXCEPT ![c][k].held = @ - v]
  BY Zenon DEF Reclaim
<1>5. /\ r \in Nat /\ r <= v /\ r <= x.refundable /\ v - r \in Nat /\ v - r <= x.usable
      /\ (IsWrapped(c, k) /\ ~wrappedUsable => r = v)
  <2> HIDE DEF x
  <2> QED  BY <1>2, <1>4
<1>7. x2 \in Balance
  <2> HIDE DEF x, r
  <2> QED  BY <1>2, <1>5 DEF Balance
<1>8. y2 \in Treasury  BY <1>3, <1>4 DEF Treasury
<1>9. [bts[c][k] EXCEPT !.held = @ - v] = y2  BY <1>3 DEF Treasury
<1>10. bal' = [bal EXCEPT ![c][u] = X]
  <2> HIDE DEF x2
  <2> QED  BY <1>1, <1>4 DEF TypeOK
<1>11. bts' = [bts EXCEPT ![c] = Y]
  <2> HIDE DEF y2
  <2> QED  BY <1>4, <1>9 DEF TypeOK
<1>12. X \in [Coins -> Balance] /\ Y \in [Coins -> Treasury]
  <2> HIDE DEF x2, y2
  <2> QED  BY <1>1, <1>7, <1>8 DEF TypeOK
<1>13. /\ \A j \in Coins : j # k => X[j] = bal[c][u][j] /\ Y[j] = bts[c][j]
       /\ X[k] = x2 /\ Y[k] = y2
  <2> HIDE DEF x2, y2
  <2> QED  BY <1>1 DEF TypeOK
<1>14. Moves(c, u, X, Y)  BY <1>10, <1>11 DEF Moves
<1>15. /\ X[k].wallet = bal[c][u][k].wallet + v
       /\ X[k].locked = bal[c][u][k].locked
       /\ X[k].refundable = bal[c][u][k].refundable - r
       /\ X[k].usable = bal[c][u][k].usable - (v - r)
       /\ Y[k].held = bts[c][k].held - v
       /\ Y[k].fees = bts[c][k].fees
  BY <1>13
<1> HIDE DEF X, Y, r
<1>16. Reclaims(c, u, k, v, r, X, Y)  BY <1>5, <1>13, <1>15 DEF Reclaims
<1> QED  BY <1>5, <1>12, <1>14, <1>16

\* What fee gathering of ICON changes.
LEMMA GatherFeesEffect ==
    ASSUME TypeOK, GatherFees
    PROVE  \E X \in [Coins -> Balance], Y \in [Coins -> Treasury] :
            Moves("icon", Aggregator, X, Y) /\ \A k \in Coins : Gathers(X, Y, k)
<1>1. Aggregator \in Accounts /\ "icon" \in Chains  BY DEF Accounts, Chains
<1>2. CASE UNCHANGED <<bal, bts>>
  <2>1. /\ Moves("icon", Aggregator, bal["icon"][Aggregator], bts["icon"])
        /\ bal["icon"][Aggregator] \in [Coins -> Balance] /\ bts["icon"] \in [Coins -> Treasury]
    BY <1>1, <1>2, NoMoves
  <2>2. \A k \in Coins : Gathers(bal["icon"][Aggregator], bts["icon"], k)  BY DEF Gathers
  <2> QED  BY <2>1, <2>2
<1>3. CASE ~UNCHANGED <<bal, bts>>
  <2> DEFINE X == [k \in Coins |-> [bal["icon"][Aggregator][k] EXCEPT !.wallet = @ + bts["icon"][k].fees]]
             Y == [k \in Coins |-> [held |-> bts["icon"][k].held - bts["icon"][k].fees, fees |-> 0]]
  <2>1. /\ \A k \in Coins : bts["icon"][k].fees <= bts["icon"][k].held
        /\ bal' = [bal EXCEPT !["icon"][Aggregator] = X]
        /\ bts' = [bts EXCEPT !["icon"] = Y]
    BY <1>3, Zenon DEF GatherFees
  <2>2. ASSUME NEW k \in Coins
        PROVE  /\ X[k] \in Balance /\ Y[k] \in Treasury
               /\ X[k].locked = bal["icon"][Aggregator][k].locked
               /\ X[k].usable = bal["icon"][Aggregator][k].usable
               /\ X[k].refundable = bal["icon"][Aggregator][k].refundable
               /\ X[k].wallet = bal["icon"][Aggregator][k].wallet + bts["icon"][k].fees
               /\ Y[k].held = bts["icon"][k].held - bts["icon"][k].fees /\ Y[k].fees = 0
    <3> DEFINE x == bal["icon"][Aggregator][k]
               y == bts["icon"][k]
    <3>1. x \in Balance /\ y \in Treasury  BY <1>1, BalanceFields, TreasuryFields
    <3>2. X[k] = [x EXCEPT !.wallet = @ + y.fees]  OBVIOUS
    <3>3. Y[k] = [held |-> y.held - y.fees, fees |-> 0]  OBVIOUS
    <3>4. y.fees <= y.held  BY <2>1
    <3> HIDE DEF X, Y, x, y
    <3>5. /\ x.wallet \in Nat /\ x.usable \in Nat /\ x.locked \in Nat /\ x.refundable \in Nat
          /\ y.held \in Nat /\ y.fees \in Nat
      BY <3>1 DEF Balance, Treasury
    <3>6. X[k] = [wallet |-> x.wallet + y.fees, usable |-> x.usable, locked |-> x.locked,
                  refundable |-> x.refundable]
      BY <3>1, <3>2 DEF Balance
    <3>7. x.wallet + y.fees \in Nat /\ y.held - y.fees \in Nat  BY <3>4, <3>5
    <3>8. X[k] \in Balance /\ Y[k] \in Treasury  BY <3>3, <3>5, <3>6, <3>7 DEF Balance, Treasury
    <3> QED  BY <3>3, <3>6, <3>8 DEF x, y
  <2>3. X \in [Coins -> Balance] /\ Y \in [Coins -> Treasury]
    <3>1. X = [k \in Coins |-> X[k]] /\ Y = [k \in Coins |-> Y[k]]  OBVIOUS
    <3> HIDE DEF X, Y
    <3> QED  BY <2>2, <3>1
  <2>4. Moves("icon", Aggregator, X, Y)  BY <2>1 DEF Moves
  <2> HIDE DEF X, Y
  <2>5. \A k \in Coins : Gathers(X, Y, k)  BY <2>2 DEF Gathers
  <2> QED  BY <2>3, <2>4, <2>5
<1> QED  BY <1>2, <1>3
\* SetToSeq lists a finite set, each element once.
LEMMA ListsAll ==
    ASSUME NEW S, IsFiniteSet(S)
    PROVE  /\ SetToSeq(S) \in [1 .. Cardinality(S) -> S] /\ Cardinality(S) \in Nat
           /\ \A i, j \in 1 .. Cardinality(S) : SetToSeq(S)[i] = SetToSeq(S)[j] => i = j
           /\ \A x \in S : \E i \in 1 .. Cardinality(S) : SetToSeq(S)[i] = x
<1> DEFINE n == Cardinality(S)
           s == SetToSeq(S)
<1>1. n \in Nat /\ ExistsBijection(1 .. n, S)  BY FS_CardinalityType
<1>2. \E f \in [1 .. n -> S] : IsInjective(f)
  BY <1>1 DEF ExistsBijection, Bijection, Injection
<1>3. s \in [1 .. n -> S] /\ IsInjective(s)  BY <1>2 DEF SetToSeq
<1>4. s \in Injection(1 .. n, S)  BY <1>3 DEF Injection
<1>5. Cardinality(1 .. n) = n  BY <1>1, FS_Interval
<1> HIDE DEF n, s
<1>6. s \in Surjection(1 .. n, S)  BY <1>4, <1>5, FS_Injection DEF n
<1>7. \A x \in S : \E i \in 1 .. n : s[i] = x  BY <1>6 DEF Surjection
<1>8. \A i, j \in 1 .. n : s[i] = s[j] => i = j  BY <1>3 DEF IsInjective
<1> QED  BY <1>1, <1>3, <1>7, <1>8 DEF n, s

\* What transferFees makes of the fees of BTSCore.
Charged == {k \in Coins : bts["evm"][k].fees # 0}

GatherAssets ==
    [i \in DOMAIN SetToSeq(Charged) |->
        [coin |-> SetToSeq(Charged)[i], amount |-> bts["evm"][SetToSeq(Charged)[i]].fees, fee |-> 0]]

\* There are finitely many coins.
LEMMA CoinsFinite == IsFiniteSet(Coins)
<1> DEFINE n == Len(CoinsName)
           f == [i \in 1 .. n |-> CoinsName[i]]
<1>1. n \in Nat /\ DOMAIN CoinsName = 1 .. n  BY CoinsAssumption, LenProperties
<1>2. f \in Surjection(1 .. n, Coins)  BY <1>1 DEF Coins, Surjection
<1>3. IsFiniteSet(1 .. n)  BY <1>1, FS_Interval
<1> HIDE DEF f, n
<1> QED  BY <1>2, <1>3, FS_Surjection

\* The gathered fees of the EVM chain, each coin once.
LEMMA GatherAssetsType ==
    ASSUME TypeOK
    PROVE  /\ GatherAssets \in Seq(Asset)
           /\ Len(GatherAssets) <= Cardinality(Coins) /\ Cardinality(Coins) \in Nat
           /\ \A i \in DOMAIN GatherAssets : GatherAssets[i].fee = 0
           /\ \A i, j \in DOMAIN GatherAssets : GatherAssets[i].coin = GatherAssets[j].coin => i = j
           /\ \A k \in Coins : /\ Amount(GatherAssets, k) = bts["evm"][k].fees
                               /\ Fee(GatherAssets, k) = 0
<1> DEFINE n == Cardinality(Charged)
           s == SetToSeq(Charged)
<1>1. IsFiniteSet(Charged) /\ Charged \subseteq Coins  BY CoinsFinite, FS_Subset DEF Charged
<1>2. /\ s \in [1 .. n -> Charged] /\ n \in Nat
      /\ \A i, j \in 1 .. n : s[i] = s[j] => i = j
      /\ \A x \in Charged : \E i \in 1 .. n : s[i] = x
  BY <1>1, ListsAll
<1>3. n <= Cardinality(Coins) /\ Cardinality(Coins) \in Nat
  BY <1>1, CoinsFinite, FS_Subset, FS_CardinalityType
<1>4. GatherAssets = [i \in 1 .. n |-> [coin |-> s[i], amount |-> bts["evm"][s[i]].fees, fee |-> 0]]
  BY <1>2 DEF GatherAssets
<1> HIDE DEF n, s
<1>5. "evm" \in Chains  BY DEF Chains
<1>6. ASSUME NEW i \in 1 .. n PROVE GatherAssets[i] \in Asset
  <2>1. s[i] \in Coins  BY <1>1, <1>2
  <2>2. bts["evm"][s[i]].fees \in Nat  BY <1>5, <2>1, TreasuryFields
  <2> QED  BY <1>4, <2>1, <2>2 DEF Asset
<1>7. GatherAssets \in [1 .. n -> Asset] /\ DOMAIN GatherAssets = 1 .. n
  <2>1. DOMAIN GatherAssets = 1 .. n /\ GatherAssets = [i \in 1 .. n |-> GatherAssets[i]]  BY <1>4
  <2> QED  BY <1>6, <2>1
<1>8. GatherAssets \in Seq(Asset)  BY <1>2, <1>7
<1>9. Len(GatherAssets) = n  BY <1>2, <1>7, <1>8, LenProperties
<1>10. /\ \A i \in DOMAIN GatherAssets : GatherAssets[i].fee = 0
       /\ \A i, j \in DOMAIN GatherAssets : GatherAssets[i].coin = GatherAssets[j].coin => i = j
  <2>1. \A i \in 1 .. n : GatherAssets[i].coin = s[i] /\ GatherAssets[i].fee = 0  BY <1>4
  <2> QED  BY <1>2, <1>7, <2>1
<1>11. ASSUME NEW k \in Coins
       PROVE  Amount(GatherAssets, k) = bts["evm"][k].fees /\ Fee(GatherAssets, k) = 0
  <2> DEFINE A == [i \in DOMAIN GatherAssets |-> GatherAssets[i].amount]
             F == [i \in DOMAIN GatherAssets |-> GatherAssets[i].fee]
             P == Positions(GatherAssets, k)
  <2>1. bts["evm"][k].fees \in Nat  BY <1>5, TreasuryFields
  <2>2. CASE k \notin Charged
    <3>1. bts["evm"][k].fees = 0  BY <2>2 DEF Charged
    <3>2. \A i \in 1 .. n : GatherAssets[i].coin \in Charged  BY <1>2, <1>4
    <3>3. P = {}  BY <1>7, <2>2, <3>2 DEF Positions
    <3> HIDE DEF A, F
    <3>4. Sum(A, P) = 0 /\ Sum(F, P) = 0  BY <3>3, SumEmpty
    <3> QED  BY <3>1, <3>4 DEF A, F, Amount, Fee
  <2>3. CASE k \in Charged
    <3>1. PICK i \in 1 .. n : s[i] = k  BY <1>2, <2>3
    <3>2. P = {i}  BY <1>2, <1>4, <1>7, <3>1 DEF Positions
    <3>3. A[i] = bts["evm"][k].fees /\ F[i] = 0  BY <1>4, <1>7, <3>1
    <3> HIDE DEF A, F
    <3>4. A[i] \in Nat /\ F[i] \in Nat  BY <2>1, <3>3
    <3>5. Sum(A, {i}) = A[i]  BY <3>4, SumSingle
    <3>6. Sum(F, {i}) = F[i]  BY <3>4, SumSingle
    <3> QED  BY <3>2, <3>3, <3>5, <3>6 DEF A, F, Amount, Fee
  <2> QED  BY <2>2, <2>3
<1> QED  BY <1>3, <1>8, <1>9, <1>10, <1>11

\* What fee gathering of the EVM chain changes.
LEMMA HandleGatherEffect ==
    ASSUME TypeOK, HandleGather, NEW a \in Accounts
    PROVE  /\ Record("evm", BTS, GatherAssets)
           /\ chan' = Handled("evm", <<RequestMessage("evm", Aggregator, GatherAssets)>>)
           /\ \E Y \in [Coins -> Treasury] :
                /\ Moves("evm", a, bal["evm"][a], Y)
                /\ bal["evm"][a] \in [Coins -> Balance]
                /\ \A k \in Coins : Y[k].held = bts["evm"][k].held /\ Y[k].fees = 0
<1> DEFINE Y == [k \in Coins |-> [bts["evm"][k] EXCEPT !.fees = 0]]
<1>1. "evm" \in Chains  BY DEF Chains
<1>2. /\ bts' = [bts EXCEPT !["evm"] = Y] /\ bal' = bal
      /\ Record("evm", BTS, GatherAssets)
      /\ chan' = Handled("evm", <<RequestMessage("evm", Aggregator, GatherAssets)>>)
  BY Zenon DEF HandleGather, GatherAssets, Charged
<1>3. ASSUME NEW k \in Coins
      PROVE  Y[k] \in Treasury /\ Y[k].held = bts["evm"][k].held /\ Y[k].fees = 0
  <2>1. bts["evm"][k] \in Treasury  BY <1>1, TreasuryFields
  <2>2. Y[k] = [bts["evm"][k] EXCEPT !.fees = 0]  OBVIOUS
  <2> HIDE DEF Y
  <2> QED  BY <2>1, <2>2 DEF Treasury
<1>4. Y \in [Coins -> Treasury]
  <2>1. Y = [k \in Coins |-> Y[k]]  OBVIOUS
  <2> HIDE DEF Y
  <2> QED  BY <1>3, <2>1
<1>5. Moves("evm", a, bal["evm"][a], Y) /\ bal["evm"][a] \in [Coins -> Balance]
  BY <1>1, <1>2 DEF Moves, TypeOK
<1> HIDE DEF Y
<1> QED  BY <1>2, <1>3, <1>4, <1>5
-----------------------------------------------------------------------------
\* The books: no operation disturbs BooksInv.

\* The books are empty at first.
LEMMA InitBooks == Init => BooksInv
<1> SUFFICES ASSUME Init PROVE BooksInv  OBVIOUS
<1>1. TypeOK
  <2>1. bal \in [Chains -> [Accounts -> [Coins -> Balance]]]
    BY ValuesAssumption DEF Init, Balance
  <2>2. bts \in [Chains -> [Coins -> Treasury]]  BY DEF Init, Treasury
  <2>3. chan \in [Chains -> Seq(Message)]
    <3>1. <<>> \in Seq(Message)  BY EmptySeq
    <3> QED  BY <3>1 DEF Init
  <2>4. wrappedUsable \in BOOLEAN  BY ScopeAssumption DEF Init
  <2> QED  BY <2>1, <2>2, <2>3, <2>4 DEF Init, TypeOK
<1>2. RequestsNumbered  BY FS_EmptySet DEF Init, RequestsNumbered
<1>3. ASSUME NEW c \in Chains, NEW k \in Coins
      PROVE  PendingTotal(c, k) = 0 /\ \A u \in Users : PendingOf(c, u, k) = 0
  <2>1. requests[c] = {}  BY DEF Init
  <2> QED  BY <2>1, SumEmpty DEF PendingTotal, PendingOf
<1>4. ASSUME NEW c \in Chains, NEW k \in Coins PROVE Refundables(c, k) = 0
  <2> DEFINE F == [u \in Accounts |-> bal[c][u][k].refundable]
             Z == [u \in Accounts |-> 0]
  <2>1. \A u \in Accounts : F[u] = 0  BY DEF Init
  <2>2. \A u \in Accounts : F[u] \in Nat  BY <2>1
  <2> HIDE DEF F
  <2>3. Sum(F, Accounts) = 0  BY <2>1, AccountsFinite, SumZero
  <2> QED  BY <2>3 DEF F, Refundables
<1>5. LockedMatchesPending
  <2>1. \A c \in Chains, u \in Users, k \in Coins : bal[c][u][k].locked = 0
    BY AccountsFinite DEF Init
  <2> QED  BY <1>3, <2>1, BooksByCoin
<1>6. BurnCovered
  <2>1. \A c \in Chains, k \in Coins : bts[c][k].held = 0 /\ bts[c][k].fees = 0  BY DEF Init
  <2> QED  BY <1>3, <1>4, <2>1, BooksByCoin
<1> QED  BY <1>1, <1>2, <1>5, <1>6 DEF BooksInv

\* A step that neither moves value nor records or settles a request.
LEMMA RefusalBooks ==
    ASSUME BooksInv, UNCHANGED <<bal, bts, requests, serialNo, gathers, wrappedUsable>>,
           chan' \in [Chains -> Seq(Message)]
    PROVE  BooksInv'
BY DEF BooksInv, TypeOK, RequestsNumbered, LockedMatchesPending, BurnCovered, SumPending

\* A message that is rejected or dropped keeps the books.
LEMMA RejectBooks ==
    ASSUME BooksInv, NEW c \in Chains, RejectRequest(c) \/ RejectResponse(c) \/ DropError(c)
    PROVE  BooksInv'
<1> DEFINE m == Head(chan[c])
<1>1. TypeOK  BY DEF BooksInv
<1>2. m.sn \in Nat /\ chan[c] # <<>>
  <2>1. Receives(c, "request") \/ Receives(c, "response") \/ Receives(c, "error")
    BY DEF RejectRequest, RejectResponse, DropError
  <2> QED  BY <1>1, <2>1, HeadType, MessageFields
<1>3. \E msgs \in {<<>>, <<[type |-> "error", sn |-> m.sn]>>,
                   <<[type |-> "response", sn |-> m.sn, code |-> "RC_ERR"]>>} :
        chan' = Handled(c, msgs)
  BY DEF RejectRequest, RejectResponse, DropError
<1>4. UNCHANGED <<bal, bts, requests, serialNo, gathers, wrappedUsable>>
  BY DEF RejectRequest, RejectResponse, DropError
<1> HIDE DEF m
<1>5. {<<>>, <<[type |-> "error", sn |-> m.sn]>>,
       <<[type |-> "response", sn |-> m.sn, code |-> "RC_ERR"]>>} \subseteq Seq(Message)
  <2>1. [type |-> "error", sn |-> m.sn] \in Message  BY <1>2 DEF Message
  <2>2. [type |-> "response", sn |-> m.sn, code |-> "RC_ERR"] \in Message  BY <1>2 DEF Message
  <2>3. <<>> \in Seq(Message)  BY EmptySeq
  <2>4. \A x \in Message : <<x>> \in Seq(Message)  OBVIOUS
  <2> QED  BY <2>1, <2>2, <2>3, <2>4
<1>6. chan' \in [Chains -> Seq(Message)]  BY <1>1, <1>2, <1>3, <1>5, HandledType
<1> QED  BY <1>4, <1>6, RefusalBooks

\* Deposit keeps the books.
LEMMA DepositBooks ==
    ASSUME BooksInv, NEW u \in Users, NEW k \in Coins, NEW v \in Nat, Deposit(u, k, v)
    PROVE  BooksInv'
<1>1. TypeOK /\ RequestsNumbered /\ u \in Accounts /\ "icon" \in Chains
  BY AccountsFinite DEF BooksInv, Chains
<1>2. PICK X \in [Coins -> Balance], Y \in [Coins -> Treasury] :
        Moves("icon", u, X, Y) /\ Deposits(u, k, v, X, Y)
  BY <1>1, DepositEffect
<1> DEFINE D == [j \in Coins |-> 0]
<1>3. UNCHANGED <<requests, serialNo, chan, gathers, wrappedUsable>>  BY DEF Deposit
<1>4. PendingChange("icon", {}, D)  BY <1>1, <1>3, PendingSame
<1>5. ASSUME NEW j \in Coins
      PROVE  /\ X[j].locked = bal["icon"][u][j].locked + 0
             /\ Y[j].held + bts["icon"][j].fees + bal["icon"][u][j].refundable
                    >= bts["icon"][j].held + Y[j].fees + X[j].refundable + 0
  <2>1. /\ bal["icon"][u][j].locked \in Nat /\ bal["icon"][u][j].refundable \in Nat
        /\ bts["icon"][j].held \in Nat /\ bts["icon"][j].fees \in Nat
    BY <1>1, BalanceFields, TreasuryFields
  <2>2. X[j].locked = bal["icon"][u][j].locked /\ X[j].refundable = bal["icon"][u][j].refundable
    BY <1>2 DEF Deposits
  <2>3. /\ Y[j].fees = bts["icon"][j].fees
        /\ Y[j].held = bts["icon"][j].held \/ Y[j].held = bts["icon"][j].held + v
    BY <1>2 DEF Deposits
  <2> QED  BY <2>1, <2>2, <2>3
<1>6. KeepsBooks("icon", u, X, Y, {}, D)  BY <1>5 DEF KeepsBooks
<1>7. D \in [Coins -> Int] /\ {} \in SUBSET {u}  OBVIOUS
<1>8. chan' \in [Chains -> Seq(Message)] /\ gathers' \in Nat  BY <1>1, <1>3 DEF TypeOK
<1> HIDE DEF D
<1> QED  BY <1>1, <1>2, <1>3, <1>4, <1>6, <1>7, <1>8, BooksStep

\* Transfer keeps the books: what is locked is pending.
LEMMA TransferBooks ==
    ASSUME BooksInv, NEW c \in Chains, NEW u \in Users, NEW v \in Users, NEW b \in Batches(c),
           Transfer(c, u, v, b)
    PROVE  BooksInv'
<1> DEFINE assets == BatchAssets(c, b)
<1>1. /\ TypeOK /\ RequestsNumbered /\ u \in Accounts /\ v \in Accounts
      /\ {u} \ {BTS} = {u}
  BY AccountsFinite, AccountsAssumption DEF BooksInv
<1>2. /\ assets \in Seq(Asset) /\ Record(c, u, assets)
      /\ chan' = Sent(c, <<RequestMessage(c, v, assets)>>)
  BY <1>1, TransferEffect
<1>3. PICK X \in [Coins -> Balance], Y \in [Coins -> Treasury] :
        Moves(c, u, X, Y) /\ \A k \in Coins : Locks(c, u, assets, X, Y, k)
  BY <1>1, TransferEffect
<1> HIDE DEF assets
<1> DEFINE D == [k \in Coins |-> Total(assets, k)]
<1>4. PendingChange(c, {u} \ {BTS}, D)  BY <1>1, <1>2, PendingRecorded
<1>5. ASSUME NEW k \in Coins
      PROVE  /\ D[k] \in Int
             /\ X[k].locked = bal[c][u][k].locked + D[k]
             /\ IsWrapped(c, k) =>
                    Y[k].held + bts[c][k].fees + bal[c][u][k].refundable
                        >= bts[c][k].held + Y[k].fees + X[k].refundable + D[k]
  <2>1. Total(assets, k) \in Nat /\ D[k] = Total(assets, k)  BY <1>2, AssetSums
  <2>2. /\ bal[c][u][k].locked \in Nat /\ bal[c][u][k].refundable \in Nat
        /\ bts[c][k].held \in Nat /\ bts[c][k].fees \in Nat
    BY <1>1, BalanceFields, TreasuryFields
  <2>3. IsWrapped(c, k) => ~Deposited(c, k)  BY DEF IsWrapped, Deposited, IsToken
  <2> HIDE DEF D
  <2> QED  BY <1>3, <2>1, <2>2, <2>3 DEF Locks
<1>6. D \in [Coins -> Int]  BY <1>5
<1> HIDE DEF D
<1>7. KeepsBooks(c, u, X, Y, {u}, D)  BY <1>5 DEF KeepsBooks
<1>8. chan' \in [Chains -> Seq(Message)]
  <2>1. RequestMessage(c, v, assets) \in Message  BY <1>1, <1>2 DEF RequestMessage, Message, TypeOK
  <2> QED  BY <1>1, <1>2, <2>1, SentType
<1>9. gathers' \in Nat /\ wrappedUsable' = wrappedUsable  BY <1>1 DEF Transfer, TypeOK
<1> QED  BY <1>1, <1>3, <1>4, <1>6, <1>7, <1>8, <1>9, BooksStep

\* AcceptRequest keeps the books.
LEMMA AcceptBooks ==
    ASSUME BooksInv, NEW c \in Chains, AcceptRequest(c)
    PROVE  BooksInv'
<1> DEFINE m == Head(chan[c])
           r == [type |-> "response", sn |-> m.sn, code |-> "RC_OK"]
<1>1. TypeOK /\ RequestsNumbered  BY DEF BooksInv
<1>2. m.to \in Accounts /\ m.sn \in Nat /\ chan[c] # <<>>
  <2>1. Receives(c, "request")  BY DEF AcceptRequest
  <2> QED  BY <1>1, <2>1, HeadType, MessageFields
<1>3. PICK X \in [Coins -> Balance], Y \in [Coins -> Treasury] :
        Moves(c, m.to, X, Y) /\ \A k \in Coins : Pays(c, m.to, m.assets, X, Y, k)
  BY <1>1, AcceptEffect
<1>4. UNCHANGED <<requests, serialNo, gathers, wrappedUsable>> /\ chan' = Handled(c, <<r>>)
  BY DEF AcceptRequest
<1> HIDE DEF m
<1> DEFINE D == [j \in Coins |-> 0]
<1>5. PendingChange(c, {}, D)  BY <1>1, <1>4, PendingSame
<1>6. ASSUME NEW k \in Coins
      PROVE  /\ X[k].locked = bal[c][m.to][k].locked + 0
             /\ IsWrapped(c, k) =>
                    Y[k].held + bts[c][k].fees + bal[c][m.to][k].refundable
                        >= bts[c][k].held + Y[k].fees + X[k].refundable + 0
  <2>1. /\ bal[c][m.to][k].locked \in Nat /\ bal[c][m.to][k].refundable \in Nat
        /\ bts[c][k].held \in Nat /\ bts[c][k].fees \in Nat
    BY <1>1, <1>2, BalanceFields, TreasuryFields
  <2> QED  BY <1>3, <2>1 DEF Pays
<1>7. KeepsBooks(c, m.to, X, Y, {}, D)  BY <1>6 DEF KeepsBooks
<1>8. chan' \in [Chains -> Seq(Message)]
  <2>1. r \in Message  BY <1>2 DEF Message
  <2>2. <<r>> \in Seq(Message)  BY <2>1
  <2> HIDE DEF r
  <2> QED  BY <1>1, <1>2, <1>4, <2>2, HandledType
<1>9. D \in [Coins -> Int] /\ {} \in SUBSET {m.to}  OBVIOUS
<1>10. gathers' \in Nat /\ wrappedUsable' = wrappedUsable  BY <1>1, <1>4 DEF TypeOK
<1> HIDE DEF D
<1> QED  BY <1>1, <1>2, <1>3, <1>5, <1>7, <1>8, <1>9, <1>10, BooksStep

\* What a BTS holds after a transfer is settled: it was refunded, paid back, or
\* kept.
LEMMA UnlockCovered ==
    ASSUME NEW h \in Nat, NEW f \in Nat, NEW x \in Nat, NEW a \in Nat, NEW g \in Nat,
           NEW h2, NEW f2, NEW x2, NEW d, d = 0 - (a + g), f2 = f + g,
           \/ x2 = x /\ h2 = h
           \/ x2 = x /\ h2 = h - a
           \/ x2 = x + a /\ h2 = h
    PROVE  h2 + f + x >= h + f2 + x2 + d
OBVIOUS

\* What a BTS holds after gathered fees are settled.
LEMMA SaveBackCovered ==
    ASSUME NEW h \in Nat, NEW f \in Nat, NEW x \in Nat, NEW a \in Nat, NEW g \in Nat,
           NEW h2, NEW f2, NEW d, d = 0 - (a + g), h2 = h, f2 = f \/ f2 = f + a
    PROVE  h2 + f + x >= h + f2 + x + d
OBVIOUS

\* A settled request keeps the books.
LEMMA SettleBooks ==
    ASSUME BooksInv, NEW c \in Chains, NEW q \in requests[c], NEW code, Settle(c, q, code),
           chan' \in [Chains -> Seq(Message)]
    PROVE  BooksInv'
<1>1. TypeOK /\ RequestsNumbered /\ LockedMatchesPending  BY DEF BooksInv
<1>2. /\ q \in Request /\ q.assets \in Seq(Asset) /\ q.from \in Users \cup {BTS}
      /\ q.from # BTS => q.from \in Accounts
  BY <1>1, RequestFields DEF TypeOK
<1>3. /\ Forgets(c, q) /\ gathers' = gathers /\ wrappedUsable' = wrappedUsable
      /\ \/ q.from # BTS /\ \E refused : SettleTransfer(c, q, code, refused)
         \/ q.from = BTS /\ SettleGathering(c, q, code)
  BY DEF Settle, Forgets
<1> DEFINE D == [k \in Coins |-> 0 - Total(q.assets, k)]
<1>4. ASSUME NEW k \in Coins
      PROVE  /\ Amount(q.assets, k) \in Nat /\ Fee(q.assets, k) \in Nat /\ D[k] \in Int
             /\ Total(q.assets, k) \in Nat
             /\ D[k] = 0 - Total(q.assets, k)
             /\ D[k] = 0 - (Amount(q.assets, k) + Fee(q.assets, k))
  BY <1>2, AssetSums
<1>5. D \in [Coins -> Int]  BY <1>4
<1>6. gathers' \in Nat /\ wrappedUsable' = wrappedUsable  BY <1>1, <1>3 DEF TypeOK
<1>7. PendingChange(c, {q.from} \ {BTS}, D)  BY <1>1, <1>3, PendingForgotten
<1> HIDE DEF D
<1>8. CASE q.from # BTS
  <2>1. PICK refused : SettleTransfer(c, q, code, refused)  BY <1>3, <1>8
  <2>2. PICK X \in [Coins -> Balance], Y \in [Coins -> Treasury] :
            Moves(c, q.from, X, Y) /\ \A k \in Coins : Unlocks(c, q, code, X, Y, k)
    BY <1>1, <1>8, <2>1, SettleTransferEffect
  <2>3. {q.from} \ {BTS} = {q.from}  BY <1>8
  <2>4. ASSUME NEW k \in Coins
        PROVE  /\ X[k].locked = bal[c][q.from][k].locked + D[k]
               /\ Y[k].held + bts[c][k].fees + bal[c][q.from][k].refundable
                        >= bts[c][k].held + Y[k].fees + X[k].refundable + D[k]
    <3>1. /\ bal[c][q.from][k].locked \in Nat /\ bal[c][q.from][k].refundable \in Nat
          /\ bts[c][k].held \in Nat /\ bts[c][k].fees \in Nat
      BY <1>1, <1>2, <1>8, BalanceFields, TreasuryFields
    <3>2. X[k].locked = bal[c][q.from][k].locked - Total(q.assets, k)  BY <2>2 DEF Unlocks
    <3>3. Y[k].fees = bts[c][k].fees + Fee(q.assets, k)  BY <2>2 DEF Unlocks
    <3>4. \/ X[k].refundable = bal[c][q.from][k].refundable /\ Y[k].held = bts[c][k].held
          \/ /\ X[k].refundable = bal[c][q.from][k].refundable
             /\ Y[k].held = bts[c][k].held - Amount(q.assets, k)
          \/ /\ X[k].refundable = bal[c][q.from][k].refundable + Amount(q.assets, k)
             /\ Y[k].held = bts[c][k].held
      BY <2>2, <3>1 DEF Unlocks
    <3>5. X[k].locked = bal[c][q.from][k].locked + D[k]  BY <1>4, <3>1, <3>2
    <3>6. Y[k].held + bts[c][k].fees + bal[c][q.from][k].refundable
                        >= bts[c][k].held + Y[k].fees + X[k].refundable + D[k]
      <4>1. /\ Amount(q.assets, k) \in Nat /\ Fee(q.assets, k) \in Nat
            /\ D[k] = 0 - (Amount(q.assets, k) + Fee(q.assets, k))
        BY <1>4
      <4> QED  BY <3>1, <3>3, <3>4, <4>1, UnlockCovered
    <3> QED  BY <3>5, <3>6
  <2>5. KeepsBooks(c, q.from, X, Y, {q.from}, D)  BY <2>4 DEF KeepsBooks
  <2> QED  BY <1>2, <1>5, <1>6, <1>7, <1>8, <2>2, <2>3, <2>5, BooksStep
<1>9. CASE q.from = BTS
  <2>1. Aggregator \in Accounts  BY DEF Accounts
  <2>2. SettleGathering(c, q, code)  BY <1>3, <1>9
  <2> DEFINE X == bal[c][Aggregator]
  <2>3. PICK Y \in [Coins -> Treasury] :
            /\ Moves(c, Aggregator, X, Y) /\ X \in [Coins -> Balance]
            /\ \A k \in Coins : SavesBack(c, q, code, Y, k)
    BY <1>1, <2>1, <2>2, SettleGatheringEffect
  <2>4. {q.from} \ {BTS} = {} /\ {} \in SUBSET {Aggregator}  BY <1>9
  <2>5. ASSUME NEW k \in Coins
        PROVE  /\ X[k].locked = bal[c][Aggregator][k].locked + 0
               /\ Y[k].held + bts[c][k].fees + bal[c][Aggregator][k].refundable
                        >= bts[c][k].held + Y[k].fees + X[k].refundable + D[k]
    <3>1. /\ bal[c][Aggregator][k].locked \in Nat /\ bal[c][Aggregator][k].refundable \in Nat
          /\ bts[c][k].held \in Nat /\ bts[c][k].fees \in Nat
      BY <1>1, <2>1, BalanceFields, TreasuryFields
    <3>2. \/ Y[k].fees = bts[c][k].fees + Amount(q.assets, k)
          \/ Y[k].fees = bts[c][k].fees
      BY <2>3, <3>1 DEF SavesBack
    <3>3. Y[k].held = bts[c][k].held  BY <2>3 DEF SavesBack
    <3>4. Y[k].held + bts[c][k].fees + bal[c][Aggregator][k].refundable
                        >= bts[c][k].held + Y[k].fees + bal[c][Aggregator][k].refundable + D[k]
      <4>1. /\ Amount(q.assets, k) \in Nat /\ Fee(q.assets, k) \in Nat
            /\ D[k] = 0 - (Amount(q.assets, k) + Fee(q.assets, k))
        BY <1>4
      <4> QED  BY <3>1, <3>2, <3>3, <4>1, SaveBackCovered
    <3> QED  BY <3>1, <3>4
  <2>6. KeepsBooks(c, Aggregator, X, Y, {}, D)  BY <2>5 DEF KeepsBooks
  <2> HIDE DEF X
  <2> QED  BY <1>5, <1>6, <1>7, <2>1, <2>3, <2>4, <2>6, BooksStep
<1> QED  BY <1>8, <1>9

\* An answer or an error that is handled keeps the books.
LEMMA AnswerBooks ==
    ASSUME BooksInv, NEW c \in Chains, HandleResponse(c) \/ HandleError(c)
    PROVE  BooksInv'
<1>1. TypeOK  BY DEF BooksInv
<1>2. PICK q, code :
        q \in requests[c] /\ Settle(c, q, code) /\ chan' = Handled(c, <<>>)
  BY DEF HandleResponse, HandleError, Pending
<1>3. chan[c] # <<>> /\ <<>> \in Seq(Message)
  BY EmptySeq DEF HandleResponse, HandleError, Receives
<1>4. chan' \in [Chains -> Seq(Message)]  BY <1>1, <1>2, <1>3, HandledType
<1> QED  BY <1>2, <1>4, SettleBooks

\* Reclaim keeps the books.
LEMMA ReclaimBooks ==
    ASSUME BooksInv, NEW c \in Chains, NEW u \in Users, NEW k \in Coins, NEW v \in Nat,
           Reclaim(c, u, k, v)
    PROVE  BooksInv'
<1>1. TypeOK /\ RequestsNumbered /\ u \in Accounts  BY AccountsFinite DEF BooksInv
<1>2. PICK X \in [Coins -> Balance], Y \in [Coins -> Treasury], r \in Nat :
        Moves(c, u, X, Y) /\ Reclaims(c, u, k, v, r, X, Y)
  BY <1>1, ReclaimEffect
<1> DEFINE D == [j \in Coins |-> 0]
<1>3. UNCHANGED <<requests, serialNo, chan, gathers, wrappedUsable>>  BY DEF Reclaim
<1>4. PendingChange(c, {}, D)  BY <1>1, <1>3, PendingSame
<1>5. ASSUME NEW j \in Coins
      PROVE  /\ X[j].locked = bal[c][u][j].locked + 0
             /\ ~wrappedUsable /\ IsWrapped(c, j) =>
                Y[j].held + bts[c][j].fees + bal[c][u][j].refundable
                    >= bts[c][j].held + Y[j].fees + X[j].refundable + 0
  <2>1. /\ bal[c][u][j].locked \in Nat /\ bal[c][u][j].refundable \in Nat
        /\ bts[c][j].held \in Nat /\ bts[c][j].fees \in Nat
    BY <1>1, BalanceFields, TreasuryFields
  <2>2. CASE j # k
    <3>1. X[j] = bal[c][u][j] /\ Y[j] = bts[c][j]  BY <1>2, <2>2 DEF Reclaims
    <3> QED  BY <2>1, <3>1
  <2>3. CASE j = k
    <3>1. /\ X[j].locked = bal[c][u][j].locked /\ X[j].refundable = bal[c][u][j].refundable - r
          /\ Y[j].held = bts[c][j].held - v /\ Y[j].fees = bts[c][j].fees
          /\ (IsWrapped(c, j) /\ ~wrappedUsable => r = v)
      BY <1>2, <2>3 DEF Reclaims
    <3> QED  BY <1>2, <2>1, <3>1
  <2> QED  BY <2>2, <2>3
<1>6. KeepsBooks(c, u, X, Y, {}, D)  BY <1>5 DEF KeepsBooks
<1>7. D \in [Coins -> Int] /\ {} \in SUBSET {u}  OBVIOUS
<1>8. chan' \in [Chains -> Seq(Message)] /\ gathers' \in Nat  BY <1>1, <1>3 DEF TypeOK
<1> HIDE DEF D
<1> QED  BY <1>1, <1>2, <1>3, <1>4, <1>6, <1>7, <1>8, BooksStep

\* Fee gathering of ICON keeps the books.
LEMMA GatherFeesBooks ==
    ASSUME BooksInv, GatherFees
    PROVE  BooksInv'
<1> DEFINE g == [type |-> "gather"]
           D == [j \in Coins |-> 0]
<1>1. TypeOK /\ RequestsNumbered /\ Aggregator \in Accounts /\ "icon" \in Chains
  BY DEF BooksInv, Accounts, Chains
<1>2. PICK X \in [Coins -> Balance], Y \in [Coins -> Treasury] :
        Moves("icon", Aggregator, X, Y) /\ \A k \in Coins : Gathers(X, Y, k)
  BY <1>1, GatherFeesEffect
<1>3. /\ UNCHANGED <<requests, serialNo, wrappedUsable>> /\ gathers' = gathers + 1
      /\ chan' = Sent("icon", <<g>>)
  BY DEF GatherFees
<1>4. PendingChange("icon", {}, D)  BY <1>1, <1>3, PendingSame
<1>5. ASSUME NEW j \in Coins
      PROVE  /\ X[j].locked = bal["icon"][Aggregator][j].locked + 0
             /\ Y[j].held + bts["icon"][j].fees + bal["icon"][Aggregator][j].refundable
                    >= bts["icon"][j].held + Y[j].fees + X[j].refundable + 0
  <2>1. /\ bal["icon"][Aggregator][j].locked \in Nat /\ bal["icon"][Aggregator][j].refundable \in Nat
        /\ bts["icon"][j].held \in Nat /\ bts["icon"][j].fees \in Nat
    BY <1>1, BalanceFields, TreasuryFields
  <2>2. /\ X[j].locked = bal["icon"][Aggregator][j].locked
        /\ X[j].refundable = bal["icon"][Aggregator][j].refundable
        /\ \/ Y[j].held = bts["icon"][j].held /\ Y[j].fees = bts["icon"][j].fees
           \/ Y[j].held = bts["icon"][j].held - bts["icon"][j].fees /\ Y[j].fees = 0
    BY <1>2 DEF Gathers
  <2> QED  BY <2>1, <2>2
<1>6. KeepsBooks("icon", Aggregator, X, Y, {}, D)  BY <1>5 DEF KeepsBooks
<1>7. D \in [Coins -> Int] /\ {} \in SUBSET {Aggregator}  OBVIOUS
<1>8. chan' \in [Chains -> Seq(Message)]
  <2>1. g \in Message  BY DEF Message
  <2> HIDE DEF g
  <2> QED  BY <1>1, <1>3, <2>1, SentType
<1>9. gathers' \in Nat /\ wrappedUsable' = wrappedUsable  BY <1>1, <1>3 DEF TypeOK
<1> HIDE DEF D
<1> QED  BY <1>1, <1>2, <1>4, <1>6, <1>7, <1>8, <1>9, BooksStep

\* Fee gathering of the EVM chain keeps the books.
LEMMA HandleGatherBooks ==
    ASSUME BooksInv, HandleGather
    PROVE  BooksInv'
<1> DEFINE D == [k \in Coins |-> Total(GatherAssets, k)]
           X == bal["evm"][Aggregator]
<1>1. TypeOK /\ RequestsNumbered /\ Aggregator \in Accounts /\ "evm" \in Chains
  BY DEF BooksInv, Accounts, Chains
<1>2. /\ GatherAssets \in Seq(Asset)
      /\ \A k \in Coins : Amount(GatherAssets, k) = bts["evm"][k].fees /\ Fee(GatherAssets, k) = 0
  BY <1>1, GatherAssetsType
<1>3. /\ Record("evm", BTS, GatherAssets)
      /\ chan' = Handled("evm", <<RequestMessage("evm", Aggregator, GatherAssets)>>)
  BY <1>1, HandleGatherEffect
<1>4. PICK Y \in [Coins -> Treasury] :
        /\ Moves("evm", Aggregator, X, Y) /\ X \in [Coins -> Balance]
        /\ \A k \in Coins : Y[k].held = bts["evm"][k].held /\ Y[k].fees = 0
  BY <1>1, HandleGatherEffect
<1>5. PendingChange("evm", {BTS} \ {BTS}, D)  BY <1>1, <1>2, <1>3, PendingRecorded
<1>6. {BTS} \ {BTS} = {} /\ {} \in SUBSET {Aggregator}  OBVIOUS
<1>7. ASSUME NEW k \in Coins
      PROVE  /\ D[k] \in Int
             /\ X[k].locked = bal["evm"][Aggregator][k].locked + 0
             /\ Y[k].held + bts["evm"][k].fees + bal["evm"][Aggregator][k].refundable
                    >= bts["evm"][k].held + Y[k].fees + X[k].refundable + D[k]
  <2>1. /\ bal["evm"][Aggregator][k].locked \in Nat /\ bal["evm"][Aggregator][k].refundable \in Nat
        /\ bts["evm"][k].held \in Nat /\ bts["evm"][k].fees \in Nat
    BY <1>1, BalanceFields, TreasuryFields
  <2>2. D[k] = bts["evm"][k].fees  BY <1>2, <2>1, AssetSums
  <2> HIDE DEF D
  <2> QED  BY <1>4, <2>1, <2>2
<1>8. D \in [Coins -> Int]  BY <1>7
<1> HIDE DEF D
<1>9. KeepsBooks("evm", Aggregator, X, Y, {}, D)  BY <1>7 DEF KeepsBooks
<1>10. chan' \in [Chains -> Seq(Message)]
  <2> DEFINE m == RequestMessage("evm", Aggregator, GatherAssets)
  <2>1. m \in Message  BY <1>1, <1>2 DEF RequestMessage, Message, TypeOK
  <2>2. chan["evm"] # <<>>  BY DEF HandleGather, Receives
  <2>3. <<m>> \in Seq(Message)  BY <2>1
  <2> HIDE DEF m
  <2> QED  BY <1>1, <1>3, <2>2, <2>3, HandledType DEF m
<1>11. gathers' \in Nat /\ wrappedUsable' = wrappedUsable  BY <1>1 DEF HandleGather, TypeOK
<1> HIDE DEF X
<1> QED  BY <1>1, <1>4, <1>5, <1>6, <1>8, <1>9, <1>10, <1>11, BooksStep

\* Every step keeps the books.
LEMMA NextBooks == BooksInv /\ [Next]_vars => BooksInv'
<1> SUFFICES ASSUME BooksInv, [Next]_vars PROVE BooksInv'  OBVIOUS
<1>0. Values \subseteq Nat  BY ValuesAssumption
<1>1. ASSUME NEW c \in Chains, NEW u \in Users, NEW v \in Users, NEW b \in Batches(c),
             Transfer(c, u, v, b)
      PROVE  BooksInv'
  BY <1>1, TransferBooks
<1>2. ASSUME NEW c \in Chains, Handle(c) PROVE BooksInv'
  <2>1. CASE AcceptRequest(c)  BY <2>1, AcceptBooks
  <2>2. CASE RejectRequest(c) \/ RejectResponse(c) \/ DropError(c)  BY <2>2, RejectBooks
  <2>3. CASE HandleResponse(c) \/ HandleError(c)  BY <2>3, AnswerBooks
  <2>4. CASE c = "evm" /\ HandleGather  BY <2>4, HandleGatherBooks
  <2> QED  BY <1>2, <2>1, <2>2, <2>3, <2>4 DEF Handle
<1>3. CASE GatherFees  BY <1>3, GatherFeesBooks
<1>4. ASSUME NEW u \in Users, NEW k \in Coins, NEW v \in Values, Deposit(u, k, v)
      PROVE  BooksInv'
  BY <1>0, <1>4, DepositBooks
<1>5. ASSUME NEW u \in Users, NEW k \in Coins, NEW v \in Values, NEW c \in Chains,
             Reclaim(c, u, k, v)
      PROVE  BooksInv'
  BY <1>0, <1>5, ReclaimBooks
<1>6. CASE UNCHANGED vars
  <2>1. /\ UNCHANGED <<bal, bts, requests, serialNo, gathers, wrappedUsable>>
        /\ chan' \in [Chains -> Seq(Message)]
    BY <1>6 DEF vars, BooksInv, TypeOK
  <2> QED  BY <2>1, RefusalBooks
<1> QED  BY <1>1, <1>2, <1>3, <1>4, <1>5, <1>6 DEF Next

(***************************************************************************)
(* The books of both BTSs agree with their requests in every behaviour,    *)
(* also those in which wrapped coins are deposited, coins are repeated in  *)
(* a batch or a gathering outgrows it.                                     *)
(***************************************************************************)
THEOREM Books == Spec => []BooksInv
BY InitBooks, NextBooks, PTL DEF Spec

\* The state of both BTSs, their balances and the channels keep their types; in
\* particular no balance, treasury or fee is ever taken below zero.
THEOREM TypeCorrect == Spec => []TypeOK
<1>1. BooksInv => TypeOK  BY DEF BooksInv
<1> QED  BY <1>1, Books, PTL

\* The locked balance of an account is what its pending requests took.
THEOREM LockedIsPending == Spec => []LockedMatchesPending
<1>1. BooksInv => LockedMatchesPending  BY DEF BooksInv
<1> QED  BY <1>1, Books, PTL

\* The wrapped coins a BTS holds cover what it may have to burn or pay back, so
\* that neither the burning of handleResponse nor a refund runs short.
THEOREM BurnsAreCovered == Spec => []BurnCovered
<1>1. BooksInv => BurnCovered  BY DEF BooksInv
<1> QED  BY <1>1, Books, PTL

=============================================================================
