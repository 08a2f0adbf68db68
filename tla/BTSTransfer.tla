----------------------------- MODULE BTSTransfer -----------------------------
(***************************************************************************)
(* The BTP Token Service (BTS): coins are transferred between ICON         *)
(* (BTPTokenService.java) and an EVM chain (BTSCore.sol, BTSPeriphery.sol).*)
(*                                                                         *)
(* A coin lives on its home chain, as the native coin or as a token, and   *)
(* as a wrapped coin on the other.  A transfer locks the value on the      *)
(* chain it leaves, sends a request, and stays pending until the answer    *)
(* comes back: RC_OK burns what was locked if it is a wrapped coin, RC_ERR *)
(* (or an error message of the other BMC) refunds it.  The charged fee is  *)
(* kept in both cases, until fee gathering takes it to the aggregator.     *)
(*                                                                         *)
(* The two directions of the link are first-in first-out channels          *)
(* (BTPChannel); a handler of a message is one step, as the BMCs call it   *)
(* within one transaction.                                                 *)
(*                                                                         *)
(* Abstractions.  What the blacklist, the token limits, an invalid address *)
(* or a receiving contract may refuse is a free choice of the step.  The   *)
(* fee ratio is the same for all coins.  Holders have approved the BTS.    *)
(***************************************************************************)
EXTENDS Naturals, Sequences, FiniteSets, SequencesExt, Sums

CONSTANTS
    CoinsName,      \* sequence of the coins, in the order of registration
    IconCoins,      \* the coins that are at home on ICON, wrapped on the EVM chain
    NativeCoins,    \* the native coin of each chain
    Users,          \* the users, each with an account on either chain
    Aggregator,     \* the account on ICON that gathers the fees
    FeeNumerator, FeeDenominator, FixedFee,
    MaxBatchSize,   \* MAX_BATCH_SIZE, BATCH_LIMIT_SIZE (15)
    RepeatCoins,    \* scope: users name a coin twice in one batch
    UsableWrapped,  \* scope: whether users deposit wrapped coins on ICON, and
                    \*        reclaim what is usable of them: a set of BOOLEANs
    Values,         \* bound: the values that are transferred
    MaxLength,      \* bound: coins in one transfer
    Funds,          \* bound: what each user owns of a coin to begin with
    MaxRequests,    \* bound: transfers of a chain
    MaxGathers      \* bound: fee gatherings

Chains == {"icon", "evm"}
Coins  == {CoinsName[i] : i \in DOMAIN CoinsName}
BTS    == "bts"     \* BTSCore as the requester of a fee gathering

\* The chain on which coin k is not wrapped.
Home(k) == IF k \in IconCoins THEN "icon" ELSE "evm"

ASSUME CoinsAssumption ==
    /\ CoinsName \in Seq(Coins)
    /\ \A j, k \in Coins \cap NativeCoins : Home(j) = Home(k) => j = k
ASSUME AccountsAssumption ==
    IsFiniteSet(Users) /\ Aggregator \notin Users /\ BTS \notin Users
ASSUME FeeAssumption == /\ {FeeNumerator, FeeDenominator, FixedFee} \subseteq Nat
                        /\ FeeNumerator < FeeDenominator
ASSUME BatchAssumption == {MaxBatchSize, MaxLength} \subseteq Nat
ASSUME ScopeAssumption == {RepeatCoins} \cup UsableWrapped \subseteq BOOLEAN
ASSUME ValuesAssumption == Values \subseteq Nat \ {0} /\ {Funds, MaxRequests, MaxGathers} \subseteq Nat

VARIABLES
    bal,        \* bal[c][u][k]: what account u has of coin k on chain c
    bts,        \* bts[c][k]: what the BTS of chain c has of coin k
    requests,   \* requests[c]: the pending requests of chain c
    serialNo,   \* serialNo[c]: the number of the last request of chain c
    chan,       \* chan[c]: the messages on their way to chain c
    gathers,    \* how many fee gatherings there have been
    wrappedUsable   \* whether users deposit wrapped coins

vars == <<bal, bts, requests, serialNo, chan, gathers, wrappedUsable>>

Accounts == Users \cup {Aggregator}

\* wallet: the coins and tokens of the account itself; the others are what
\* the BTS records for it.
Balance == [wallet : Nat, usable : Nat, locked : Nat, refundable : Nat]

\* held: what the contract itself owns of the coin; fees: how much of that
\* are charged fees (aggregationFee, feeBalances).
Treasury == [held : Nat, fees : Nat]

Asset   == [coin : Coins, amount : Nat, fee : Nat]
Request == [sn : Nat, from : Users \cup {BTS}, assets : Seq(Asset)]

Message ==
    [type : {"request"}, sn : Nat, to : Accounts, assets : Seq(Asset)]
        \cup [type : {"response"}, sn : Nat, code : {"RC_OK", "RC_ERR"}]
        \cup [type : {"error"}, sn : Nat]
        \cup [type : {"gather"}]

TypeOK ==
    /\ bal \in [Chains -> [Accounts -> [Coins -> Balance]]]
    /\ bts \in [Chains -> [Coins -> Treasury]]
    /\ requests \in [Chains -> SUBSET Request]
    /\ chan \in [Chains -> Seq(Message)]
    /\ serialNo \in [Chains -> Nat]
    /\ gathers \in Nat
    /\ wrappedUsable \in BOOLEAN

-----------------------------------------------------------------------------
\* Coins and sums.

Other(c) == IF c = "icon" THEN "evm" ELSE "icon"

IsNative(c, k)  == k \in NativeCoins /\ Home(k) = c
IsWrapped(c, k) == Home(k) # c
IsToken(c, k)   == Home(k) = c /\ k \notin NativeCoins

\* Tokens are first deposited with the BTS of ICON; all other coins are taken
\* from the sender by the transfer itself.
Deposited(c, k) == c = "icon" /\ IsToken(c, k)

Positions(assets, k) == {i \in DOMAIN assets : assets[i].coin = k}
Amount(assets, k) == Sum([i \in DOMAIN assets |-> assets[i].amount], Positions(assets, k))
Fee(assets, k)    == Sum([i \in DOMAIN assets |-> assets[i].fee], Positions(assets, k))
Total(assets, k)  == Amount(assets, k) + Fee(assets, k)

-----------------------------------------------------------------------------
Init ==
    /\ bal = [c \in Chains |-> [u \in Accounts |-> [k \in Coins |->
                [wallet |-> IF Home(k) = c /\ u \in Users THEN Funds ELSE 0,
                 usable |-> 0, locked |-> 0, refundable |-> 0]]]]
    /\ bts = [c \in Chains |-> [k \in Coins |-> [held |-> 0, fees |-> 0]]]
    /\ requests = [c \in Chains |-> {}]
    /\ serialNo = [c \in Chains |-> 0]
    /\ chan = [c \in Chains |-> <<>>]
    /\ gathers = 0
    /\ wrappedUsable \in UsableWrapped

\* BTPTokenService.tokenFallback: what the account is credited with when v
\* tokens of it were transferred to the BTS of ICON, by whom ever.
TokenFallback(x, v) == [x EXCEPT !.usable = @ + v]

\* A user transfers tokens to the BTS of ICON.
Deposit(u, k, v) ==
    LET x == bal["icon"][u][k]
    IN  /\ ~ IsNative("icon", k)
        /\ IsWrapped("icon", k) => wrappedUsable
        /\ x.wallet >= v
        /\ bal' = [bal EXCEPT !["icon"][u][k] = TokenFallback([x EXCEPT !.wallet = @ - v], v)]
        /\ bts' = [bts EXCEPT !["icon"][k].held = @ + v]
        /\ UNCHANGED <<requests, serialNo, chan, gathers, wrappedUsable>>

\* The fee charged on a value.  ICON charges at least 1 when there is a ratio.
Charge(c, v) ==
    LET fee == (v * FeeNumerator) \div FeeDenominator + FixedFee
    IN  IF c = "icon" /\ FeeNumerator > 0 /\ fee = 0 THEN 1 ELSE fee

\* The batches a user may ask for: the native coin is passed along with the
\* call, so it comes once, first on ICON and last on the EVM chain.
Batches(c) ==
    {b \in UNION {[1 .. n -> Coins \X Values] : n \in 1 .. MaxLength} :
        /\ \A i \in DOMAIN b : IsNative(c, b[i][1]) =>
                i = IF c = "icon" THEN 1 ELSE Len(b)
        /\ RepeatCoins \/ \A i, j \in DOMAIN b : b[i][1] = b[j][1] => i = j}

\* The value leaves something to transfer: transferBatch of BTSCore, which
\* takes anything but the native coin alone, only asks that the fee be covered.
CoversFee(c, b) ==
    LET atLeast == c = "evm" /\ ~ (Len(b) = 1 /\ IsNative(c, b[1][1]))
    IN  \A i \in DOMAIN b :
            b[i][2] > Charge(c, b[i][2]) \/ (atLeast /\ b[i][2] = Charge(c, b[i][2]))

\* Mutant of Take: lock without its test of the coin type.
TakeUsable(c, k, x, v) == [x EXCEPT !.usable = @ - v]

\* What account x has of coin k after a transfer took v of it.  The wrapped
\* coins of ICON (IRC2Basic._transfer) call tokenFallback of a receiver that
\* is a contract, here the BTS itself.
Take(c, k, x, v) ==
    IF Deposited(c, k) THEN [x EXCEPT !.usable = @ - v]
    ELSE LET y == [x EXCEPT !.wallet = @ - v]
         IN  IF c = "icon" /\ IsWrapped(c, k) THEN TokenFallback(y, v) ELSE y

\* sendRequest, sendServiceMessage: the request is recorded under a new number
\* and sent; of the assets the receiver reads coin and amount only.
Record(c, from, assets) ==
    /\ serialNo' = [serialNo EXCEPT ![c] = @ + 1]
    /\ requests' = [requests EXCEPT ![c] = @ \cup
            {[sn |-> serialNo[c] + 1, from |-> from, assets |-> assets]}]

RequestMessage(c, to, assets) ==
    [type |-> "request", sn |-> serialNo[c] + 1, to |-> to, assets |-> assets]

\* The messages on the way when chain c has sent msgs to the other chain, and
\* when it has done so in handling the next message it received.
Sent(c, msgs)    == [chan EXCEPT ![Other(c)] = @ \o msgs]
Handled(c, msgs) == [chan EXCEPT ![c] = Tail(@), ![Other(c)] = @ \o msgs]

\* transferNativeCoin, transfer, transferBatch: user u transfers b to the
\* account of user v on the other chain.
Transfer(c, u, v, b) ==
    LET assets == [i \in DOMAIN b |-> [coin   |-> b[i][1],
                                       amount |-> b[i][2] - Charge(c, b[i][2]),
                                       fee    |-> Charge(c, b[i][2])]]
    IN  /\ serialNo[c] < MaxRequests
        /\ Len(b) <= MaxBatchSize
        /\ CoversFee(c, b)
        /\ \A k \in Coins :
                Total(assets, k) <= IF Deposited(c, k) THEN bal[c][u][k].usable
                                                       ELSE bal[c][u][k].wallet
        /\ bal' = [bal EXCEPT ![c][u] = [k \in Coins |->
                    [Take(c, k, bal[c][u][k], Total(assets, k)) EXCEPT
                        !.locked = @ + Total(assets, k)]]]
        /\ bts' = [bts EXCEPT ![c] = [k \in Coins |->
                    [bts[c][k] EXCEPT !.held = IF Deposited(c, k) THEN @ ELSE @ + Total(assets, k)]]]
        /\ Record(c, u, assets)
        /\ chan' = Sent(c, <<RequestMessage(c, v, assets)>>)
        /\ UNCHANGED <<gathers, wrappedUsable>>

\* The next message chain c has to handle.
Receives(c, type) == chan[c] # <<>> /\ Head(chan[c]).type = type

\* What a request pays out of coin k.  handleRequest of ICON keeps one amount
\* of the native coin, the last one it reads.
PaidOut(c, assets, k) ==
    IF c = "icon" /\ IsNative(c, k) /\ Positions(assets, k) # {}
    THEN assets[Max(Positions(assets, k))].amount
    ELSE Amount(assets, k)

\* A request is well-formed and the BTS can pay it.
Payable(c, assets) ==
    /\ Len(assets) <= MaxBatchSize
    /\ c = "icon" => \A i \in DOMAIN assets : assets[i].amount > 0
    /\ \A k \in Coins : ~ IsWrapped(c, k) => PaidOut(c, assets, k) <= bts[c][k].held

\* handleRequest, handleRequestService: mints wrapped coins, pays out others,
\* and answers RC_OK.
AcceptRequest(c) ==
    LET m == Head(chan[c])
    IN  /\ Receives(c, "request")
        /\ Payable(c, m.assets)
        /\ bal' = [bal EXCEPT ![c][m.to] = [k \in Coins |->
                    [bal[c][m.to][k] EXCEPT !.wallet = @ + PaidOut(c, m.assets, k)]]]
        /\ bts' = [bts EXCEPT ![c] = [k \in Coins |->
                    [bts[c][k] EXCEPT !.held = IF IsWrapped(c, k) THEN @
                                               ELSE @ - PaidOut(c, m.assets, k)]]]
        /\ chan' = Handled(c, <<[type |-> "response", sn |-> m.sn, code |-> "RC_OK"]>>)
        /\ UNCHANGED <<requests, serialNo, gathers, wrappedUsable>>

\* Mutant of RejectRequest: BTSPeriphery answers, and its BMC, too.
RejectRequestTwice(c) ==
    LET m == Head(chan[c])
    IN  /\ Receives(c, "request")
        /\ chan' = Handled(c, <<[type |-> "response", sn |-> m.sn, code |-> "RC_ERR"],
                               [type |-> "error", sn |-> m.sn]>>)
        /\ UNCHANGED <<bal, bts, requests, serialNo, gathers, wrappedUsable>>

\* The request is refused, by the checks above or by what is left to choice:
\* nothing of it is kept.  BTSPeriphery answers RC_ERR where it catches the
\* error; otherwise, and always on ICON, the BMC sends an error.
RejectRequest(c) ==
    LET m == Head(chan[c])
    IN  /\ Receives(c, "request")
        /\ \/ chan' = Handled(c, <<[type |-> "error", sn |-> m.sn]>>)
           \/ /\ c = "evm"
              /\ chan' = Handled(c, <<[type |-> "response", sn |-> m.sn, code |-> "RC_ERR"]>>)
        /\ UNCHANGED <<bal, bts, requests, serialNo, gathers, wrappedUsable>>

Pending(c, sn) == {q \in requests[c] : q.sn = sn}

\* Mutant of Burned: the charged fee is burned as well.
BurnedFee(c, q, k) == IF IsWrapped(c, k) /\ q.from # BTS THEN Total(q.assets, k) ELSE 0

\* The coins of request q that are burned when it succeeded.
Burned(c, q, k) == IF IsWrapped(c, k) /\ q.from # BTS THEN Amount(q.assets, k) ELSE 0

\* Mutant of Settles: the largest batch is taken for too large.
SettlesLess(c, q, code) ==
    /\ Len(q.assets) < MaxBatchSize
    /\ code = "RC_OK" => \A k \in Coins : Burned(c, q, k) <= bts[c][k].held

\* A response is handled without a revert.
Settles(c, q, code) ==
    /\ Len(q.assets) <= MaxBatchSize
    /\ code = "RC_OK" => \A k \in Coins : Burned(c, q, k) <= bts[c][k].held

\* handleResponse, handleResponseService of a user's request: unlock, then
\* burn or refund; what could not be refunded (of the coins in refused) is
\* recorded as refundable.
SettleTransfer(c, q, code, refused) ==
    LET a(k) == Amount(q.assets, k)
        Refund(k, x) == IF code = "RC_OK" THEN x
                        ELSE IF k \in refused THEN [x EXCEPT !.refundable = @ + a(k)]
                        ELSE [x EXCEPT !.wallet = @ + a(k)]
        paid(k) == IF code = "RC_OK" THEN Burned(c, q, k)
                   ELSE IF k \in refused THEN 0 ELSE a(k)
    IN  /\ \A k \in Coins : paid(k) <= bts[c][k].held
        /\ bal' = [bal EXCEPT ![c][q.from] = [k \in Coins |->
                    Refund(k, [bal[c][q.from][k] EXCEPT !.locked = @ - Total(q.assets, k)])]]
        /\ bts' = [bts EXCEPT ![c] = [k \in Coins |->
                    [held |-> bts[c][k].held - paid(k),
                     fees |-> bts[c][k].fees + Fee(q.assets, k)]]]

\* Mutant of SettleGathering: the fees are saved back on RC_OK as well.
SettleGatheringAlways(c, q, code) ==
    /\ bts' = [bts EXCEPT ![c] = [k \in Coins |->
                    [bts[c][k] EXCEPT !.fees = @ + Amount(q.assets, k)]]]
    /\ UNCHANGED bal

\* handleResponseService of a fee gathering: on RC_ERR the fees are saved back.
SettleGathering(c, q, code) ==
    /\ bts' = [bts EXCEPT ![c] = [k \in Coins |-> [bts[c][k] EXCEPT
                    !.fees = IF code = "RC_ERR" THEN @ + Amount(q.assets, k) ELSE @]]]
    /\ UNCHANGED bal

\* Mutant of Settle: a failed request is not deleted.
SettleKeeps(c, q, code) ==
    /\ Settles(c, q, code)
    /\ \/ q.from # BTS /\ SettleTransfer(c, q, code, {})
       \/ q.from = BTS /\ SettleGathering(c, q, code)
    /\ requests' = [requests EXCEPT ![c] = IF code = "RC_OK" THEN @ \ {q} ELSE @]
    /\ UNCHANGED <<serialNo, gathers, wrappedUsable>>

\* The request is settled and forgotten.
Settle(c, q, code) ==
    /\ Settles(c, q, code)
    /\ \/ /\ q.from # BTS
          /\ \E refused \in SUBSET {q.assets[i].coin : i \in DOMAIN q.assets} :
                /\ code = "RC_OK" => refused = {}
                /\ SettleTransfer(c, q, code, refused)
       \/ q.from = BTS /\ SettleGathering(c, q, code)
    /\ requests' = [requests EXCEPT ![c] = @ \ {q}]
    /\ UNCHANGED <<serialNo, gathers, wrappedUsable>>

\* A response settles the request with its number.
HandleResponse(c) ==
    LET m == Head(chan[c])
    IN  /\ Receives(c, "response")
        /\ \E q \in Pending(c, m.sn) : Settle(c, q, m.code)
        /\ chan' = Handled(c, <<>>)

\* A response that settles nothing.  ICON ignores one without a request; what
\* a BTS reverts, its BMC answers with an error of the same number.
RejectResponse(c) ==
    LET m == Head(chan[c])
    IN  /\ Receives(c, "response")
        /\ ~ \E q \in Pending(c, m.sn) : Settles(c, q, m.code)
        /\ chan' = Handled(c, IF c = "icon" /\ Pending(c, m.sn) = {} THEN <<>>
                              ELSE <<[type |-> "error", sn |-> m.sn]>>)
        /\ UNCHANGED <<bal, bts, requests, serialNo, gathers, wrappedUsable>>

\* handleBTPError: the other chain could not handle the message with this
\* number; the request is settled as a failure.
HandleError(c) ==
    LET m == Head(chan[c])
    IN  /\ Receives(c, "error")
        /\ \E q \in Pending(c, m.sn) : Settle(c, q, "RC_ERR")
        /\ chan' = Handled(c, <<>>)

\* handleBTPError reverts or ignores it: the BMC only logs ErrorOnBTPError.
DropError(c) ==
    LET m == Head(chan[c])
    IN  /\ Receives(c, "error")
        /\ ~ \E q \in Pending(c, m.sn) : Settles(c, q, "RC_ERR")
        /\ chan' = Handled(c, <<>>)
        /\ UNCHANGED <<bal, bts, requests, serialNo, gathers, wrappedUsable>>

\* BTSCore.refund, which BTSCore.reclaim calls with the caller of reclaim, is
\* for the contract itself only ("Unauthorized").
MayRefund(caller) == caller = BTS

\* reclaim: what is refundable is paid back; on ICON then what is usable, too.
Reclaim(c, u, k, v) ==
    LET x == bal[c][u][k]
        r == IF v > x.refundable THEN x.refundable ELSE v
    IN  /\ c = "evm" => MayRefund(u) /\ v <= x.refundable
        /\ v <= x.refundable + x.usable
        /\ v <= bts[c][k].held
        /\ IsWrapped(c, k) /\ v > x.refundable => wrappedUsable
        /\ bal' = [bal EXCEPT ![c][u][k] =
                    [wallet |-> x.wallet + v, usable |-> x.usable - (v - r),
                     locked |-> x.locked, refundable |-> x.refundable - r]]
        /\ bts' = [bts EXCEPT ![c][k].held = @ - v]
        /\ UNCHANGED <<requests, serialNo, chan, gathers, wrappedUsable>>

\* sendFeeGathering of the BMC of ICON: its BTS pays its fees to the
\* aggregator (or fails, and keeps them), and the other chains are told to.
GatherFees ==
    /\ gathers < MaxGathers
    /\ gathers' = gathers + 1
    /\ \/ /\ \A k \in Coins : bts["icon"][k].fees <= bts["icon"][k].held
          /\ bal' = [bal EXCEPT !["icon"][Aggregator] = [k \in Coins |->
                        [bal["icon"][Aggregator][k] EXCEPT !.wallet = @ + bts["icon"][k].fees]]]
          /\ bts' = [bts EXCEPT !["icon"] = [k \in Coins |->
                        [held |-> bts["icon"][k].held - bts["icon"][k].fees, fees |-> 0]]]
       \/ UNCHANGED <<bal, bts>>
    /\ chan' = Sent("icon", <<[type |-> "gather"]>>)
    /\ UNCHANGED <<requests, serialNo, wrappedUsable>>

\* handleFeeGathering, transferFees: a request without fee for all the fees
\* there are, however many coins that takes.  (The order of the coins in it is
\* left open.)
HandleGather ==
    LET charged == SetToSeq({k \in Coins : bts["evm"][k].fees # 0})
        assets  == [i \in DOMAIN charged |->
                        [coin |-> charged[i], amount |-> bts["evm"][charged[i]].fees, fee |-> 0]]
    IN  /\ Receives("evm", "gather")
        /\ bts' = [bts EXCEPT !["evm"] = [k \in Coins |-> [bts["evm"][k] EXCEPT !.fees = 0]]]
        /\ Record("evm", BTS, assets)
        /\ chan' = Handled("evm", <<RequestMessage("evm", Aggregator, assets)>>)
        /\ UNCHANGED <<bal, gathers, wrappedUsable>>

\* The BMC of chain c dispatches the next message.
Handle(c) ==
    \/ AcceptRequest(c) \/ RejectRequest(c)
    \/ HandleResponse(c) \/ RejectResponse(c)
    \/ HandleError(c) \/ DropError(c)
    \/ c = "evm" /\ HandleGather

Next ==
    \/ \E c \in Chains : \E u, v \in Users : \E b \in Batches(c) : Transfer(c, u, v, b)
    \/ \E c \in Chains : Handle(c)
    \/ GatherFees
    \/ \E u \in Users, k \in Coins, v \in Values :
            Deposit(u, k, v) \/ \E c \in Chains : Reclaim(c, u, k, v)

Spec == Init /\ [][Next]_vars

(***************************************************************************)
(* Fairness.  The relays deliver what was sent and the BMC dispatches it   *)
(* (BTPLink!EventuallyDispatched); an owner of something refundable tries  *)
(* to reclaim it.                                                          *)
(***************************************************************************)
Fairness ==
    /\ \A c \in Chains : WF_vars(Handle(c))
    /\ \A c \in Chains, u \in Users, k \in Coins :
            WF_vars(\E v \in 1 .. bal[c][u][k].refundable : Reclaim(c, u, k, v))

FairSpec == Spec /\ Fairness

-----------------------------------------------------------------------------
\* Properties.

\* The pending requests of chain c as one sum of f over them.
SumPending(c, f(_)) == Sum([q \in requests[c] |-> f(q)], requests[c])

(***************************************************************************)
(* The locked balance of an account is what its pending requests took,     *)
(* fees included: concurrent requests of one account share one number, and *)
(* answers come in any order, as RC_OK, RC_ERR, an error, or never.        *)
(***************************************************************************)
LockedMatchesPending ==
    \A c \in Chains, u \in Users, k \in Coins :
        bal[c][u][k].locked =
            SumPending(c, LAMBDA q : IF q.from = u THEN Total(q.assets, k) ELSE 0)

\* The receiver has been paid, and the answer is on its way to chain c.
Accepted(c, q) ==
    \E i \in DOMAIN chan[c] : /\ chan[c][i].type = "response"
                             /\ chan[c][i].sn = q.sn
                             /\ chan[c][i].code = "RC_OK"

\* What the BTS of chain c owes of coin k: refunds and deposits, fees, and
\* what of its pending requests has not yet been paid by the other chain.
Owed(c, k) ==
    LET claims(x) == x.refundable + IF IsWrapped(c, k) THEN 0 ELSE x.usable
    IN  Sum([u \in Accounts |-> claims(bal[c][u][k])], Accounts)
            + bts[c][k].fees
            + SumPending(c, LAMBDA q : Fee(q.assets, k) +
                            IF Accepted(c, q) THEN 0 ELSE Amount(q.assets, k))

(***************************************************************************)
(* Every wrapped coin is backed: what the BTS holds of a coin on its home  *)
(* chain is what it owes there, plus the wrapped coins of all accounts,    *)
(* plus what the BTS of the other chain owes.  Neither a refund, nor a     *)
(* late answer, nor fee gathering creates or destroys value.  It does not  *)
(* hold once users deposit wrapped coins on ICON.                          *)
(***************************************************************************)
WrappedBacked ==
    ~wrappedUsable => \A k \in Coins :
        LET h == Home(k)
            w == Other(h)
        IN  bts[h][k].held =
                Owed(h, k) + Owed(w, k)
                    + Sum([u \in Accounts |-> bal[w][u][k].wallet], Accounts)

(***************************************************************************)
(* "The only issue, which might happen, is BTSCore's token balance lower   *)
(* than burning amount": the wrapped coins a BTS holds cover everything it *)
(* may have to burn or pay back.                                           *)
(***************************************************************************)
BurnCovered ==
    ~wrappedUsable => \A c \in Chains, k \in Coins : IsWrapped(c, k) =>
        bts[c][k].held >= bts[c][k].fees
            + Sum([u \in Accounts |-> bal[c][u][k].refundable], Accounts)
            + SumPending(c, LAMBDA q : Total(q.assets, k))

\* The messages on the way that decide the request of chain c with number sn.
About(c, sn) ==
    {i \in DOMAIN chan[Other(c)] : chan[Other(c)][i].type = "request"
                                        /\ chan[Other(c)][i].sn = sn}
        \X {"request"}
    \cup {i \in DOMAIN chan[c] : chan[c][i].type \in {"response", "error"}
                                        /\ chan[c][i].sn = sn}
        \X {"answer"}

(***************************************************************************)
(* A request is answered once: while it is pending there is one message on *)
(* the way that decides it, the request or its answer, and there is no     *)
(* answer to a request that is not pending, which a BTS would bounce as an *)
(* error to hit whatever request of the other chain has the same number.   *)
(***************************************************************************)
OneAnswer ==
    ~wrappedUsable => \A c \in Chains : \A sn \in 1 .. serialNo[c] :
        Cardinality(About(c, sn)) = Cardinality(Pending(c, sn))

(***************************************************************************)
(* The inductive invariants behind these properties.  BooksInv: the        *)
(* requests of a chain have numbers of their own, and the books of each    *)
(* BTS agree with them.  BridgeInv: between the two chains, each pending   *)
(* request is decided by one message, and each message decides a pending   *)
(* request, so that no response and no error is refused.  The latter needs *)
(* batches that both chains treat alike: no coin twice, and no more coins  *)
(* than a batch holds, also when all of them are gathered.                 *)
(***************************************************************************)
RequestsNumbered ==
    \A c \in Chains :
        /\ IsFiniteSet(requests[c])
        /\ \A q \in requests[c] : q.sn \in 1 .. serialNo[c]
        /\ \A p, q \in requests[c] : p.sn = q.sn => p = q

BooksInv == TypeOK /\ RequestsNumbered /\ LockedMatchesPending /\ BurnCovered

SmallBatches == ~RepeatCoins /\ Cardinality(Coins) <= MaxBatchSize

RequestsFit ==
    \A c \in Chains : \A q \in requests[c] :
        /\ Len(q.assets) <= MaxBatchSize
        /\ \A i, j \in DOMAIN q.assets : q.assets[i].coin = q.assets[j].coin => i = j
        /\ q.from = BTS => \A i \in DOMAIN q.assets : q.assets[i].fee = 0

\* The chain and the number of the request that message m to chain c decides.
Decides(c, m) == IF m.type = "request" THEN <<Other(c), m.sn>> ELSE <<c, m.sn>>

\* The places in the channels with such a message.
Deciding(c, i) == i \in DOMAIN chan[c] /\ chan[c][i].type # "gather"

DecidedOnce ==
    \A c, d \in Chains : \A i \in DOMAIN chan[c], j \in DOMAIN chan[d] :
        /\ Deciding(c, i) /\ Deciding(d, j)
        /\ Decides(c, chan[c][i]) = Decides(d, chan[d][j])
        => c = d /\ i = j

DecidesPending ==
    \A c \in Chains : \A i \in DOMAIN chan[c] : Deciding(c, i) =>
        \E d \in Chains : \E q \in requests[d] :
            /\ Decides(c, chan[c][i]) = <<d, q.sn>>
            /\ chan[c][i].type = "request" => q.assets = chan[c][i].assets

PendingDecided ==
    \A c \in Chains : \A q \in requests[c] :
        \E d \in Chains : \E i \in DOMAIN chan[d] :
            Deciding(d, i) /\ Decides(d, chan[d][i]) = <<c, q.sn>>

BridgeInv ==
    ~wrappedUsable =>
        RequestsFit /\ DecidedOnce /\ DecidesPending /\ PendingDecided /\ WrappedBacked

BTSInv == BooksInv /\ (SmallBatches => BridgeInv)

(***************************************************************************)
(* Every request is settled eventually, unless deposits of wrapped coins   *)
(* take away what the answer has to burn.                                  *)
(***************************************************************************)
Settled ==
    ~wrappedUsable => \A c \in Chains : \A sn \in 1 .. MaxRequests + MaxGathers :
        Pending(c, sn) # {} ~> Pending(c, sn) = {}

(***************************************************************************)
(* What comments and tests of the contracts say; the runs show where they  *)
(* fail.                                                                   *)
(***************************************************************************)

\* BTSPeriphery: if a fee gathering fails, "BTSCore saves charged fees back to
\* `aggregationFee` state mapping variable": it is settled, one way or other.
GatheringSettled ==
    \A sn \in 1 .. MaxRequests + MaxGathers :
        (\E q \in Pending("evm", sn) : q.from = BTS) ~> Pending("evm", sn) = {}

\* BTSCore.transferBatch: "`_amounts` is true amounts to receive at a
\* destination after deducting charged fees".
AmountsReceived ==
    [][ \A c \in Chains : AcceptRequest(c) =>
            LET m == Head(chan[c])
            IN  \A k \in Coins : bal'[c][m.to][k].wallet =
                                    bal[c][m.to][k].wallet + Amount(m.assets, k) ]_vars

\* The test of BTSCore.reclaim: "Should succeed when a client, which owns a
\* refundable, tries to reclaim".
RefundableReclaimed ==
    \A u \in Users, k \in Coins :
        bal["evm"][u][k].refundable > 0 ~> bal["evm"][u][k].refundable = 0

\* BTPTokenService.transfer: "lock tokens on BTS"; what is locked, usable or
\* refundable is held by the BTS.
BalancesHeld ==
    \A c \in Chains, k \in Coins :
        bts[c][k].held >= bts[c][k].fees
            + Sum([u \in Accounts |-> bal[c][u][k].usable + bal[c][u][k].locked
                                        + bal[c][u][k].refundable], Accounts)
==============================================================================
