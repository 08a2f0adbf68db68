# icon-bridge: TLA+ models, checks and proofs

ICON Bridge moves coins and messages between ICON and other chains (BSC, SNOW,
NEAR, ...). Contracts on each chain talk through a *BTP link*: the BTP message
centre (BMC) of one chain emits `Message` events, an off-chain *relay* (BMR)
carries them to the BMC of the other chain, which dispatches them to services
such as the token service (BTS). This project models the link, the receivers that
feed it (of the EVM chains, of ICON, of NEAR and of Algorand, whose client keeps
the link itself) and the token transfer in TLA+, model-checks small instances
with TLC, and proves their safety for every size with TLAPS.

    tlc -config link_safety.cfg MCBTPLink     # any run of the table below
    tlapm BTPLink_proofs.tla                  # any module *_proofs

`PROJECT.json` says for each definition which lines of the source it models.

## 1. The system

### Parts, state, operations

| part | source | state | operations |
|------|--------|-------|------------|
| relay (BMR) | `cmd/iconbridge/relay` | `srcMsg` buffer, `txBlockHeight`, the tx in hand | `relay.Start`: subscribe, buffer, filter, segment, send, wait for the receipt; `multiRelay.Start`: restart after 5s |
| chain sender | `cmd/iconbridge/chain/*/sender.go` | nonce, gas price | `Status`, `Segment`, `relayTx.Send`, `relayTx.Receipt` |
| chain receiver | `cmd/iconbridge/chain/*/receiver.go` | `opts.Seq`, next height, fetched blocks | `Subscribe`, `receiveLoop` (concurrent fetch, verify, deliver in order) |
| verifiers | `.../verifier.go` | validator sets, next height | `Verify`, `Update` |
| BMC on EVM chains | `solidity/bmc` | links (`txSeq`, `rxSeq`, `rxHeight`, rotation), routes, services, relays | `sendMessage`, `handleRelayMessage`, dispatch, owner operations |
| BMC on ICON | `javascore/bmc` | the same, fragments, relayer bonds and rewards, fee gathering term | the same, `handleFragment`, `sendFeeGathering` |
| BTS on EVM chains | `solidity/bts` | `balances` (locked, refundable), `aggregationFee`, `requests`, `serialNo`, coins, blacklist, limits | `transfer*`, `handleBTPMessage`, `handleBTPError`, `refund`, `reclaim`, `transferFees` |
| BTS on ICON | `javascore/bts` | the same, `usable` balances | the same, `tokenFallback` |
| wrapped coin on ICON | `javascore/irc2Tradeable` | balances, allowances | `transfer`, `transferFrom`, `mint`, `burn` |
| NEAR client | `chain/near` | `Receiver.verifier`, shared by subscriptions | `Subscribe`, `SyncHeader`, `ValidateHeader`, `ReceiveBlocks` |
| Algorand client | `chain/algo` | `linkStatus.json`, `receiver.vr` | `incrementSeq`, `updateHeight`, `getStatus`; `Segment`, `Send`, `Receipt`; `Subscribe`, `inspectBlock` |
| contracts of NEAR and Algorand, clients of Harmony and substrate | `rust`, `pyteal`, `chain/*` | own contracts | see section 8 |
| codecs, keys, logging, statistics, e2e tests | `common`, `cmd` | none of the bridge's | conversion, I/O |

### How they interact

A user calls `transfer` of a BTS; it locks the value, records a pending request
under `serialNo` and calls `BMC.sendMessage`, which increments `txSeq` and emits
an event. The receiver of a relay reads finalised blocks and hands their
receipts to the relay, which buffers them, asks the destination BMC for its
`rxSeq` and `rxHeight`, drops what is already there, cuts a piece that fits in
one transaction and sends it. `handleRelayMessage` drops receipts below
`rxHeight` and events up to `rxSeq`, requires the rest to be consecutive, and
dispatches each. The BTS mints or pays out and answers `RC_OK`, or the answer
is `RC_ERR`, or the BMC sends an error on behalf of a service that reverted.
The answer takes the same way back on the other direction of the link.

### What is hard

* The relay keeps everything in memory, acts on a status that a lagging node
  may have answered, sends transactions that may be lost, late or doubled, gives
  up on receipts, and is restarted with nothing. Several relays may serve a link.
* `rxHeight` filters receipts and says where to resume, `rxSeq` filters events:
  two cursors that must never disagree about a message still to come.
* Requests of one account share one locked balance, and are answered in any
  order; refunds may fail; fees are taken out and saved back while others are
  charged; an answer that cannot be handled is bounced as an error.
* The wrapped coin of ICON calls the BTS back in the middle of a transfer.
* The receiver asks many nodes for many blocks at a time. Requests fail, nodes
  lag or are on another branch, and a block that was used to verify the one
  before it may have to be fetched again, from another node.
* The receiver of ICON has a main loop and any number of websocket goroutines
  that share two channels, the height to ask for and the duty to empty the
  channels, each looking (`len(ch) > 0`) before it takes.
* A relay that gave up a subscription leaves it running. In the clients of NEAR
  and Algorand the old one still moves the verifier of the new one.
* The link to Algorand is a file that two directions read, change and write
  without a lock, next to a BMC that would execute an event twice.

`PROJECT.json` lists the hazards with their lines and the properties that would
catch them.

### What makes each part correct

* *Link*: each message is dispatched once and in order; none is skipped; the
  link never turns back; if nodes, blocks and relays keep going, every message
  arrives.
* *Relay*: what it has been given and the destination has not dispatched is in
  its buffer, or the buffer has a gap at every link status, so that the relay
  stops with "missing event sequence" and reads it again; what it sends is never
  refused for its sequence numbers.
* *BTS*: locked balances are the pending requests; every wrapped coin is backed
  on its home chain; what may have to be burned or refunded is held; a request
  has one answer and is settled.
* *Receiver, verifier (EVM)*: each block is delivered once, in order, linked to
  the one before it and sealed; and with good nodes, eventually.
* *Receiver, verifier (ICON)*: no block with an event is passed over unless the
  reconnect of a failed monitor took its response (then it is, silently, until a
  later event shows the gap); the height never ahead of what was handled; the
  verifier always with the validators of the block it waits for; and every other
  event arrives, if reconnecting ends.
* *Receiver, verifier (NEAR)*: an honest chain with skipped heights and new epochs
  raises no error; only blocks approved by more than two thirds of the stake that
  their approvals list are relayed, which is two thirds of the epoch's only if the
  list is complete; none is missed, and all events are relayed.
* *Algorand client*: while accesses of its file do not meet, no event is given up
  and no message is handled twice or out of order.
* *BMC management*: routes lead to connected links, owner operations leave the
  cursors of both ends in agreement (planned).

## 2. Modules

| module | models |
|--------|--------|
| `BTPChannel` | abstract: a first-in first-out channel, what a link promises |
| `BTPLink` | source events, receiver, relays, transactions, destination BMC |
| `BTPLink_proofs` | the theorems about `BTPLink` |
| `MCBTPLink` | instances of `BTPLink` for TLC |
| `BlockReceiver` | `receiveLoop` and `syncVerifier` of the EVM receiver, with the verifier |
| `BlockReceiver_proofs` | the theorems about `BlockReceiver` |
| `MCBlockReceiver` | instances of `BlockReceiver` for TLC |
| `IconReceiver` | `receiveLoop` of ICON: main loop, monitors, channels, verifier |
| `IconReceiver_proofs` | the theorems about `IconReceiver` |
| `MCIconReceiver` | instances of `IconReceiver` for TLC |
| `AlgoLink` | the link to Algorand: the file, sender, receiver, and both relays |
| `AlgoLink_proofs` | the theorems about `AlgoLink` |
| `MCAlgoLink` | instances of `AlgoLink` for TLC |
| `NearReceiver` | the receiver and verifier of NEAR, with the relay |
| `NearReceiver_proofs` | the theorems about `NearReceiver` |
| `MCNearReceiver` | instances of `NearReceiver` for TLC |
| `BTSTransfer` | the BTS of ICON and of an EVM chain, over two channels |
| `BTSTransfer_proofs` | the theorems about each BTS by itself: types, locked balances, cover of burns |
| `BTSBridge_proofs` | the theorems about the two of them: backing, one answer |
| `MCBTSTransfer` | instances of `BTSTransfer` for TLC |
| `Sums`, `Select` | sums over finite sets; the elements of a sequence that a filter keeps, without recursion |
| `Sums_proofs` | lemmas about both, used by the other proofs |

`BTPLink` implements `BTPChannel` (property `ImplementsChannel`); `BTSTransfer`
takes the two directions of its link as such channels. `BTPLink!ReceiveBlock`
takes the blocks of the source one by one, in order; that is what
`BlockReceiver` shows of the receiver. Of that of ICON `OnlyTakenPassedOver` of
`IconReceiver` shows it up to responses that a failed monitor took; what follows
such a response has a gap, which is `ReceiveGap`.
`AlgoLink` and `NearReceiver` contain the relay, as far as it restarts, filters
and finds gaps, because there the trouble comes from what a restarted relay
leaves behind.

Definitions whose comment begins with "Mutant of" are plausible errors of the
definition that follows. They are used by no specification; a property is kept
only if putting such an error in the place of the original violates it.

### BTPLink

| model | code |
|-------|------|
| `receipts`, `srcHeight` | the source chain; a receipt holds consecutive events of one transaction |
| `optsSeq`, `nextBlock` | `opts.Seq` and the height of the subscription |
| `srcMsg`, `txBlockHeight`, `tx`, `newMsg`, `retryCount` | the variables of `relay.Start` |
| `pc` | where `relay.Start` is: not running, in its `select`, `sendLoop`, `waitLoop` |
| `sent`, `minedAt` | what `tx.Receipt` has to say of the relay's transaction: not in a block yet, an error, or no error and a height |
| `pool` | transactions on their way that no relay waits for |
| `hist` | the states of the link on the destination, one per height |
| `exec` | the relay transaction being executed |
| `status`, `confirmed`, `dispatched` | history, for the properties |

`Start` is the head of `relay.Start`; `ReceiveBlock` and `ReceiveGap` the case
`<-srcMsgCh`; `Relay`, `RelayNothing` and `RelayGap` the case `<-relayCh` up to
`Segment`; `Send`, `SendError` the `sendLoop`; `ReceiptFound`, `ReceiptRetry`,
`ReceiptGiveUp` the `waitLoop`; `Crash` a panic, an error of the subscription or
the end of the process, after which `multiRelay.Start` starts again. On the
destination `HandleOldReceipt`, `HandleReceipt`, `HandleRevert` and `Commit` are
`handleRelayMessage`; nothing else happens between its steps, since a
transaction is atomic.

`tx.Receipt` does not always say that a transaction failed. On ICON it returns the
block's height and no error whatever `txr.Status` is; on the EVM chains
`chain.RevertError` is nil for a reason it does not know. `Failed` has all three
outcomes, for a transaction that reverts (`HandleRevert`) and for one that runs
out of gas or steps (`FailTx`). When no error is returned, `ReceiptFound` replaces
`srcMsg` by what `Segment` left, and the failed transaction's events leave the
buffer undispatched. `NothingLost` says that this does not go unnoticed.

A status query answers any state of the link there has been (`hist[h]`): that is
a load-balanced set of nodes, some of them behind. `txBlockHeight` is the only
thing that keeps the relay from using an old one.

### BlockReceiver

| model | code |
|-------|------|
| `height`, `forkSealed` | the chain, and whether validators sealed its other branch |
| `pc` | where the subscription is: `newVerifier`, `syncVerifier`, the head of `receiveLoop`, its `select`, or ended by an error (`refused` if by the callback's test of the height) |
| `vr` | `Verifier.next` and `parentHash`; `NoVerifier` if none is configured |
| `cursor`, `prevHeader`, `sres` | the variables of `syncVerifier` |
| `latest`, `next`, `lbn`, `bnch` | the variables of `receiveLoop` |
| `delivered` | history: the blocks handed to the callback; `lastHeight` counts them |

`CreateVerifier` and `VerifierError` are `newVerifier` with its cross checks;
`SyncFetch`, `SyncFirst`, `SyncVerify`, `SyncError`, `SyncDone` are
`syncVerifier`; `Tick`, `Poll` and `Fetch` three cases of the `select`; the
fourth, which processes the notifications, is `ProcessFirst`, `RefuseRetry`,
`Deliver`, `DeliverRefused` and `Refetch`; `Resubscribe` is the relay's restart.
A batch of concurrent requests is one step: its outcome is any sorted choice of
blocks, of either branch, that some node has, up to the first missing one where
the code only forwards those (`Forwarded`). `latest` is capped by `MaxLatest`,
which also stands for the number that `height - BlockFinalityConfirmations` wraps
around to. Left out: the change of the validator set at an epoch (a block is
sealed or it is not), and an error of `vr.Update`, which no block of a well-formed
chain causes.

### IconReceiver

| model | code |
|-------|------|
| `pc`, `ret`, `next`, `requests`, `responses`, `cur`, `bn` | the main loop of `receiveLoop`, `syncVerifier` and `handleBTPBlockResponse`, and their variables |
| `seq` | `opts.Seq` of `Subscribe` |
| `taken` | history: the responses that failed monitors took from the channel |
| `vr` | `Verifier.next` and the validators of `nextValidatorsHash`; `NoVerifier` if none |
| `reconnectCh`, `btpBlockNotifCh`, `btpBlockRespCh` | the channels, bounded as in the code |
| `monitor[m]`, `blockReq` | the monitor goroutines, and the request all of them share |

`Reconnect`, `TakeFirstResp`, `Default` and `TakeFirstNotif` are the cases of the
`select`; `Collect`, `MoreNotif`, `TakeNotif`, `Fetch` and `Forward` the default
case; `Handle`, `MoreResp`, `TakeResp`, `Clear`
`handleBTPBlockResponse`; `SyncDone`, `SyncRequest`, `SyncApply` `syncVerifier`.
`reconnect()` is two steps each time, look and take, for the main loop
(`MainDrain`, `MainTake`) and for a monitor (`MonitorDrain`, `MonitorTake`): this
is where they meet. A batch of concurrent requests is one step with any subset of
answers. There may be `MaxMonitors` goroutines at a time. Blocks may have no event
(`EventHeights`), and the event of the first block may have been relayed or not
(`StartSeq`). Left out: the event logs and
merkle proofs that `handleBTPBlockRequest` checks (an answer is the block's, or an
error), and votes other than all or none of the validators'.

### AlgoLink

| model | code |
|-------|------|
| `file`, `access` | `linkStatus.json`; what a goroutine has read of it or truncated |
| `algo`, `executed` | the relay to Algorand with its transaction; history: events the BMC was called with |
| `icon`, `delivered` | the relay to ICON, its transactions (`pool`) and the link at ICON's BMC; history: messages handled |
| `vr`, `sub` | `receiver.vr`; the goroutines of `Subscribe`, old ones included |
| `races`, `faults`, `failed` | accesses of the file that met, faults, and whether a subscription failed |

A step is what happens between two accesses of the file, of `vr` or of a channel.
`ioutil.WriteFile` is two steps, truncating and writing, so that a reader may find
the file empty and two writers may mix. `rx_seq` grows by one for a transaction of
several events (`ReceiptSeq`), and `Segment` leaves everything when everything
fits (`Rest`): together they let the relay send events again, and none is left
out. `UpdateVerifier` is the unlocked `r.vr.Round++`, of two at a time one may be
lost. The relay to ICON sends (`IconRelay`), and finds the receipt or gives it up
(`IconReceipt`, `IconGiveUp`), whatever became of the transaction; that is executed
whenever ICON likes, more than once if `Send` was repeated (`IconExecute`), or
fails (`IconTxFail`). A receipt of ICON is the range `first .. last` of its events, a round of
Algorand the sequence of its messages. Assumed of the chains: the events of a receipt
fit into a group (`AlgoAssumption`; a receipt of `atomicTxnLimit` events would never
be sent) and receipts are in order; the BMC of Algorand numbers its messages to ICON
one after the other, none before the verifier's round (`MessageAssumption`). Left
out: decoding, and the foreign assets and accounts that `Segment` collects.

### NearReceiver

| model | code |
|-------|------|
| `blocks`, `head` | the chain; a height may have no block |
| `verifier` | `Receiver.verifier`; `owner` says which subscription made it |
| `sub` | the goroutines of `Subscribe` with the items in their rxgo pipeline |
| `relay`, `link` | `relay.Start` and the link at ICON's BMC |

`SyncHeader` and `Scan` give one block to the verifier; `Process`, `SendMessage`
and `SendError` are the loop of `ReceiveBlocks`. `ValidateHeader` is the whole
function: it moves the verifier before the checks of epoch, producers and
approvals, which matters since `SyncHeader` ignores its result. A subscription
that nobody listens to goes on until it is stuck (`Dead`); then its place is
used again. `SetLinkRxHeight` is the owner's operation on ICON. A wrong answer
has other approvals than the block, in a list of any length (`OtherApprovals`),
with the hash of the block or with its own. The hash covers the approvals: with the
block's hash such an answer is refused and the verifier stays where it is; with its
own the verifier moves to that hash (`OffChain`), and the approvals are counted. A
list that is too short is accepted if more than two thirds of the stake *listed*
approve, since `totalStake` is summed over the list. Signatures and receipt proofs
are taken to do their work. Of the chain it is assumed (`ChainAssumption`,
`EventAssumption`) that a block has the one before it as its parent, is approved by
the producers of its epoch, that an epoch is followed by the next, and that the BMC
numbers its events from 1 on, the first of them not before `StartHeight`.

### BTSTransfer

| model | code |
|-------|------|
| `bal[c][u][k]` | the holder's coins (`wallet`), and `usable`, `locked`, `refundable` of the BTS |
| `bts[c][k]` | what the contract itself owns (`held`), and `aggregationFee` / `feeBalances` (`fees`) |
| `requests`, `serialNo` | the pending requests of the BTS and the number of the last |
| `chan[c]` | messages on their way to chain `c` |

`Transfer` is `transferNativeCoin`, `transfer` and `transferBatch`; `Deposit` a
transfer of tokens to the BTS of ICON (`tokenFallback`); `AcceptRequest` and
`RejectRequest` are `handleRequest` / `handleRequestService` with the answer of
BTS or BMC; `HandleResponse`, `RejectResponse`, `HandleError`, `DropError` are
`handleBTPMessage` and `handleBTPError` of an answer; `GatherFees` and
`HandleGather` the fee gathering on either chain; `Reclaim` is `reclaim`. The
differences between the Java and the Solidity contract are kept: the minimum fee
(`Charge`), the position of the native coin in a batch (`Batches`), the fee that
may equal the value (`CoversFee`), the one native amount ICON pays (`PaidOut`),
what happens to an answer without a request (`RejectResponse`), and who may call
`refund` (`MayRefund`).

Two constants set the scope of a run. With `RepeatCoins` a batch may name a coin
twice. `UsableWrapped` says whether users deposit wrapped coins with the BTS of
ICON and reclaim what is recorded as usable of them; `bts_transfer` covers both
cases. Both are possible in the code, and both break properties (section 5).
`LockedMatchesPending` holds with usable wrapped coins, the conservation
properties are stated for behaviours without them, so that what else could break
them shows.

## 3. Runs

| run | checks | result |
|-----|--------|--------|
| `link_safety` | two relays race, with crashes, retries, lagging nodes, failed transactions that are taken for successful, an offset above the first block and a message whose dispatch reverts: `TypeOK`, `ExactlyOnceInOrder`, `NothingSkipped`, `NothingLost`, `NoInvalidSeqNumber`, `RelayInv`, `LinkMonotonic` | hold |
| `link_liveness` | fairness: `EventuallyDispatched`, `ImplementsChannel` | hold |
| `link_stale_status` | `StatusNotStale` | violated, see 5 |
| `receiver` | failing, lagging and forked nodes, with and without a verifier: `TypeOK`, `NotificationsInOrder`, `DeliveredLinked`, `DeliveredOnMain`, `ReceiverInv`, and with fairness `EventuallyDelivered` | hold |
| `icon_receiver` | failing connections, canceled monitors, failed requests, missing votes, a new validator set, blocks without events, with and without a verifier: `TypeOK`, `OnlyTakenPassedOver`, `ResponsesAhead`, `VerifierAhead`, `IconInv`, and with fairness `EventuallyDelivered` | hold |
| `algo_link` | both directions of the link to Algorand, four pairs of chains, one fault or race, transactions to ICON lost, repeated and late at any point: `TypeOK`, `NoEventSkipped`, `DeliveredInOrder`, `DeliveredComplete`, `AlgoInv`, and with fairness `EventuallyExecuted` | hold |
| `near_receiver` | two chains with skipped heights and a new epoch, two faults, three subscriptions, other lists of approvals: `TypeOK`, `NoFalseAlarm`, `SentApproved`, `NothingMissing`, `NearInv`, and with fairness `EventuallyRelayed` | hold |
| `bts_transfer` | a token of ICON and the native coin of the EVM chain, both directions, batches of two, deposits, reclaims, one gathering, usable wrapped coins or none: `TypeOK`, `LockedMatchesPending`, `WrappedBacked`, `BurnCovered`, `OneAnswer`, `BTSInv`, and with fairness `Settled` | hold |
| `bts_fees_lost` | `GatheringSettled` | violated, see 5 |
| `bts_repeat` | `AmountsReceived` | violated, see 5 |
| `bts_reclaim` | `RefundableReclaimed` | violated, see 5 |
| `bts_usable_credit` | `BalancesHeld` | violated, see 5 |

### Bounds, and why they are enough

*Link.* Three messages (`MaxSeq`), up to three in one receipt (`MaxEvents`), in
up to three blocks (`MaxHeight` 4: the block being produced is not readable):
enough for two receipts in one block, a receipt cut at its front, a buffer with
something behind the transaction in hand, and a block behind that. Any transaction
may fail, the one with message 3 always does. A
transaction takes two events, so that a receipt of three never fits (one event
in `link_liveness`, where all receipts fit). One attempt at a receipt reaches
success, failure and giving up (30 in the code); two in `link_liveness` add the
second attempt, whose height is not kept. One crash of either of two relays may
hit at every point of their race; more crashes return a relay to the same `down`
state with a larger pool of old transactions. `link_safety` takes states as equal
that differ only in `status` and `confirmed` (`SafetyView`): no step depends on these
histories, and of its properties only their types do. The theorems of section 6 do
not depend on any of these bounds.

*Receiver.* Two requests at a time (`SyncConcurrency`, up to 300 in the code): one
of them missing, or from the other branch. The verifier starts one block below
the subscription, so that it has to walk. Three confirmations (10 in the code)
with a chain of at first two blocks let `latest` wrap around. The other branch
leaves the chain at the first block that is delivered: a branch below it lets
the receiver refuse for ever what replaces its first block (a hazard in
`PROJECT.json`). Eight blocks are enough for two of them to be final with a
successor, which `EventuallyDelivered` is about. The theorems hold for all
values of these.

*Receiver of ICON.* Two monitors are an old one, canceled in any state, and its
successor; channels of two elements (up to 100 in the code) can be full, and can
lose one element of a batch. Two faults in all, each a connection that fails, a
batch with a request that fails, or an answer without votes, may hit at every
point. The validators change
at the last height, so that a verifier with the old ones would refuse it. The chain
has events at the first two heights from the start and none at the last: a response
with an event can be lost and followed by one without, which nothing refuses.

*Algorand.* One fault or one meeting of two accesses of the file, at every point,
with two subscriptions: an old and a new one. Failing, repeated and late
transactions to ICON are not counted as faults. The four chains are: two receipts
of which the second does not fit into the group; one receipt with two events, and
two messages in one round; three messages in two rounds, so that transactions of
one, two and three of them overlap; a message to another BMC before one to ICON.

*NEAR.* Two faults allow a failure followed by another while the new subscription
synchronises, with a third subscription after that. One chain has an epoch that
ends at a height without a block, among the blocks with events; in the other the
epoch ends while the verifier is synchronised. Stakes are such that two of three
producers have exactly, or more than, two thirds. A wrong list of approvals is
complete with half of the stake, or short, with all of the stake listed or half of
it.

*BTS.* Two requests per chain make two pending requests of one account, in either
direction at once, with equal numbers on the two chains. Values 2 and 3 with a
fixed fee of 1 differ in amount. `MaxBatchSize` is 2 where batches have two coins,
and 1 where a fee gathering has to exceed it. One gathering overlaps with pending
transfers and new fees.

Where a BTS run says `CHECK_DEADLOCK FALSE` the system really may stop: all
transfers of the bound are made and settled; in the receivers of ICON and NEAR and
in the link to Algorand all blocks of the bounded chain are relayed and the
goroutines wait for the next one, or a subscription returned its error. A link
always goes on, its ticker ticks, so there deadlock is checked.

## 4. Fairness

*Link.* Source blocks are produced (`NewBlock`); `multiRelay` restarts a relay 5s
after it stopped (`Start`); the subscription hands over every finalised block;
the relay's ticker signals every 5s and the query is eventually answered by a node
that is not behind (`RelayUpToDate`); a failing `Send` is retried until it
succeeds; a transaction cut from the present status is included if it is tried
again and again (`UpToDate(r) /\ ExecTx(r)`), so it does not fail every time; the
`waitLoop` goes on; a buffer with a gap is found by some status query, which ends
the relay (`RelayGap`). Strong
fairness is used where an action is disabled between attempts, because the code
retries each of them without end; the assumption is on nodes and chains, which
the bridge cannot replace. Nothing is assumed about crashes, losses, old
statuses and failing transactions other than that they do not take every turn.
`EventuallyDispatched` has the hypothesis `ReceiptsFit`, and `link_liveness` no
message whose dispatch reverts: otherwise the link is blocked in the code, too
(see the hazards).

*Receiver.* The chain grows, the goroutine of the subscription goes on, the relay
subscribes again after an error. A client is picked at random for each call and
failed fetches are repeated without end, so in each situation in which the
receiver fetches again and again a node on the main branch answers some time
(strong fairness of `FetchMain` and `SyncFetchMain`, one for each situation), and
with receipts that match (`Deliver`). Without good answers there is nothing to
deliver.

*Receiver of ICON.* The goroutines are scheduled and the chain grows (weak
fairness); Go's `select` chooses among ready cases at random, so a signal in
`reconnectCh` is not passed over for ever (strong fairness of `Reconnect`).
Connections may fail. `EventuallyDelivered` has hypotheses, and TLC refutes it
without any one of them. The main loop is not `Stuck`: a failed monitor that
empties the channels can take the element the main loop has just seen, which then
waits for ever at line 660 of `receiver.go`, or at line 420 if no monitor is left
that would send. Reconnecting comes to an end: a canceled monitor that was about
to send adds an old block after the channel was emptied, whose height makes the
main loop reconnect again; and with both monitors of the instance waiting to empty
channels that are empty there is no place for a third. Not `LastAtRisk`, an edge of
the bounded chain: the last block is not taken by a failed monitor, because no
later one follows whose height shows the gap. What is delivered are the events but
those of responses that failed monitors took.

*Algorand, NEAR.* Some goroutine that can go on does (weak fairness of `Step`; the
chains are finite, so no goroutine can keep the others from their turn for ever).
`EventuallyExecuted` holds while accesses of the file do not overlap, and while an
old subscription does not set `tx_height` back, for which the *other* direction's
relay waits. `EventuallyRelayed` holds if no subscription starts at a block after
a height without one (`TargetKnown`): `SyncHeader` stops at the first block that is
not below its target, which is then the first block of the subscription itself,
and `ValidateHeader` refuses it when it comes again, in every new subscription.

*BTS.* The link delivers and the BMC dispatches (`WF` of `Handle`), which is what
`EventuallyDispatched` shows of the link; the owner of a refundable balance tries
to reclaim it.

## 5. Findings

* `StatusNotStale`: `relay.go:223` keeps the block height of the first call of
  `tx.Receipt` only. If that call fails, which it does while the transaction is
  not mined, `txBlockHeight` becomes 0 and the "skip until dst.Status is updated"
  of line 184 skips nothing. No message is lost or dispatched twice by it
  (`link_safety` has the same behaviour); the relay sends again, or stops with a
  missing sequence and is restarted.
* `GatheringSettled`: `transferFees` puts all coins with fees into one request.
  With more than the batch limit ICON refuses it, the answer cannot be handled
  (`require(loop <= MAX_BATCH_SIZE)`), and the fees are gone from
  `aggregationFee` while the request stays pending.
* `AmountsReceived`: a batch with ICON's native coin twice pays the last amount
  only, and is answered `RC_OK`.
* `RefundableReclaimed`: `reclaim` of `BTSCore` calls `refund`, which only the
  contract itself may call; it always reverts.
* `BalancesHeld`: the wrapped coin's `_transfer` calls `tokenFallback` when the
  BTS of ICON takes it for a transfer; the value is recorded as usable and as
  locked, and held once.

## 6. Proofs

Each theorem is proved from the ASSUMEs of the module it is about and nothing else,
for every value of the constants. The ASSUMEs are evaluated by TLC in the runs. The
inductive invariants (`RelayInv`, `ReceiverInv`, `IconInv`, `NearInv`, `AlgoInv`,
`BTSInv`) are
checked by the runs too.

### The link

`BTPLink_proofs`, for every set of relays, `SrcOffset`, `TxDataSizeLimit`,
`ReceiptRetries`, `Poison`, and all bounds:

| theorem | statement |
|---------|-----------|
| `TypeCorrect` | `Spec => []TypeOK` |
| `LinkInvariant`, `RelayInvariant` | `Spec => []LinkInv`, `Spec => []RelayInv` |
| `ExactlyOnce` | `Spec => []ExactlyOnceInOrder` |
| `NoneSkipped` | `Spec => []NothingSkipped` |
| `NoneLost` | `Spec => []NothingLost` |
| `SeqNumbersValid` | `Spec => []NoInvalidSeqNumber` |
| `LinkOnlyAdvances` | `Spec => LinkMonotonic` |
| `ImplementsChannelSafely` | `Spec => Channel!ChanSafety` |

None of the safety properties is inductive. What the destination may
dispatch depends on what is on its way, which depends on what relays hold, which
depends on what they read. `LinkInv` adds just that:

* `SourceInOrder`: sequence numbers and heights of the source's receipts grow.
* `BuffersFromSource`: buffers hold pieces of source receipts.
* `TxsRelayable`: a transaction on its way is cut from the source, has no gap
  and starts at most one above the link's `rxSeq`. `filterSrcMsg` checked that
  against *some* earlier status, and by `HistInOrder` the link has only advanced
  since, so it holds of the present link (`NoGapContinues`, `ContinuesLater`).
  This is where an old status is harmless.
* `ExecSound`: the same of a transaction half executed, with its own cursors.
* `LinkSound`: `rxHeight` has not passed a message above `rxSeq`. It is kept
  because a receipt dispatched without a gap is the next one of the source, and
  the heights of later ones are no smaller.

`SourceKeepsInv`, `RelayKeepsInv` and `ExecKeepsInv` are the induction step, one
case per action; `RelayFrame` and `ExecFrame` carry over what an action does not
touch.

`RelayInv` strengthens it for `NothingLost`. `BufferSound`: the buffer and the rest
that waits behind a transaction are in order and older than what the subscription
delivers next, so that what `filterSrcMsg` and `Segment` cut off is a beginning;
and while anything it delivered is undispatched, both end with the last event
delivered. The second part is what survives a failed transaction that is taken for
a successful one: the rest that replaces `srcMsg` is not empty and ends where the
buffer did. So if it has no gap at some link status, it reaches back to that
status and holds every event that the link still expects; `NothingLost` follows: an
undispatched event is held, or there is a gap at every status.

`ImplementsChannelSafely` shows that each step of the link is, with the numbers of
the last event emitted and of the last one dispatched as the two ends, a step of a
first-in first-out channel or none. The fairness of the channel is TLC's part.

### The receiver of the EVM chains

`BlockReceiver_proofs`, for every start height, verifier height, number of
confirmations, concurrency and fork height:

| theorem | statement |
|---------|-----------|
| `ReceiverInvariant` | `Spec => []ReceiverInv` |
| `ReceiverTypeCorrect` | `Spec => []TypeOK` |
| `BlocksInOrder` | `Spec => []NotificationsInOrder` |
| `BlocksLinked` | `Spec => []DeliveredLinked` |
| `BlocksOnMain` | `Spec => []DeliveredOnMain` |

That the callback never refuses a height depends on `lbn`: `LastIsNext` says that
it is the block after those delivered and that `next` is either the height after
it or, while it is fetched again, its own; so that `next--` after a failed
verification cannot step back twice. `QueueInOrder` says that the queue continues
at `next`, which is why a block of the height of `lbn` can only come first;
`NothingYet` and `OnlyInLoop` give the start. `DeliveredLinked` and
`DeliveredOnMain` are inductive with these, because `Verify` compares the parent
of `lbn` with the hash the verifier kept at the moment of delivery, and not when
`lbn` was fetched.

### The receiver of ICON

`IconReceiver_proofs`, for every number of monitors, channel size, chain and
sequence of validator sets:

| theorem | statement |
|---------|-----------|
| `IconInvariant` | `Spec => []IconInv` |
| `IconTypeCorrect` | `Spec => []TypeOK` |
| `NonePassedOver` | `Spec => []OnlyTakenPassedOver` |
| `NextNotAhead` | `Spec => []ResponsesAhead` |
| `VerifierNotBehind` | `Spec => []VerifierAhead` |

`ResponsesInOrder` says of the responses, on their way into the channel, in it or
taken from it, that their heights grow and are not below `next`. Monitors only ever
take elements away, from the front, so a race with them leaves gaps but no disorder.
`GapsSettled` says what such a gap may be: between `next` and a response that waits
every block with an event waits as well, was given to the relay, or is one of
`taken`. This is why `next`, which counts responses and does not compare their
heights, passes over nothing else. `VerifierSynced` says that the
verifier has the validators of the height it waits for and is not behind `next` once
anything is fetched; `WithinChain` keeps heights within the chain.

### The receiver of NEAR

`NearReceiver_proofs`, for every chain of the assumed kind, every number of
subscriptions, producers and stakes:

| theorem | statement |
|---------|-----------|
| `NearInvariant` | `Spec => []NearInv` |
| `NearTypeCorrect` | `Spec => []TypeOK` |
| `OnlyApprovedSent` | `Spec => []SentApproved` |
| `NoneMissing` | `Spec => []NothingMissing` |
| `NoAlarm` | `Spec => []NoFalseAlarm` |

`VerifierSound` and `WaitingApproved` say what the shared verifier may hold,
whoever moved it and with whatever hash, and that what waits in a subscription has
passed it: more than two thirds of the stake listed, by the stakes of the block's
own epoch, since the producers are exchanged with the epoch or not at all.
`EventsContinue` is about the numbers: the relay's events follow one another and
start no later than the link expects, and those of its subscription follow them.
`HeightsContinue` is about the other cursor: along the pipeline heights only grow,
so that `rxHeight` never passes an event that is still expected. Both are needed for
`NothingMissing`, because the relay resumes at a height and filters by number.
`Undisturbed` describes the run without a failure, where the verifier follows the
only subscription (`Follows`), for `NoFalseAlarm`.

### The token service

`BTSTransfer_proofs` and `BTSBridge_proofs`, for every set of coins, users and
values, every fee and batch size:

| theorem | statement |
|---------|-----------|
| `Books` | `Spec => []BooksInv` |
| `TypeCorrect` | `Spec => []TypeOK`; balances are natural numbers, so nothing underflows |
| `LockedIsPending` | `Spec => []LockedMatchesPending` |
| `BurnsAreCovered` | `Spec => []BurnCovered` |
| `Bridge` | `Spec => []BTSInv` |
| `WrappedIsBacked` | `SmallBatches` implies `Spec => []WrappedBacked` |
| `AnsweredOnce` | `SmallBatches` implies `Spec => []OneAnswer` |

`BooksInv` is about each chain by itself: types, `RequestsNumbered` (pending requests
are finite and have different numbers up to `serialNo`), and the two equations
between balances and pending requests. It is inductive for all constants, usable
wrapped coins and repeated coins included.

`BridgeInv` is about the two chains and the messages between them. `DecidedOnce`
and `DecidesPending` say that each message that decides a request (the request
itself, its answer or an error) belongs to one pending request, and no two to the
same; `PendingDecided` that each pending request has one. With `RequestsFit` (a batch
is small enough to be answered) `WrappedBacked` is then a conservation law: what an
action adds to wrapped coins, fees or pending amounts it takes from messages or
locked coins. `SmallBatches` is what makes this true of the code: no batch repeats a
coin, and all coins together fit into one batch. Without the first `AmountsReceived` fails and
without the second `GatheringSettled`, for the reasons in section 5.

`Sums_proofs` has what the provers lack: that `MapThenSumSet` is additive, that a
sum changes with one of its terms, and that a filtered sequence has the kept
elements in order. Induction over sets is by a minimal counterexample
(`WFMin` on cardinalities), as no induction principle can be instantiated.

### The client of Algorand

`AlgoLink_proofs`, for every pair of chains of the assumed kind, every limit of a
group, number of subscriptions, failures, restarts and meetings of accesses:

| theorem | statement |
|---------|-----------|
| `AlgoInvariant` | `Spec => []AlgoInv` |
| `AlgoTypeCorrect` | `Spec => []TypeOK` |
| `NoneGivenUp` | `Spec => []NoEventSkipped` |
| `HandledInOrder` | `Spec => []DeliveredInOrder` |
| `HandledComplete` | `Spec => []DeliveredComplete` |

`FileSound` is about the time before two accesses of the file met: at most one
process has it truncated, `rx_seq` (or what it was before the file was emptied)
counts executed events only, and the transaction in hand starts at the event after it, so that
counting one event per transaction is never too much. `VerifierMoves` bounds the
shared verifier: its round plus the number of subscriptions about to move it stays
below the end of the chain plus `MaxSubs`, and the block that a subscription has in
hand is one the verifier has passed. `LabelsGrow` is about the order on ICON, also
until accesses meet: `tx_seq` is not below any label, so no number is given twice; of
the labelled messages that may still be handled, in the relay, in its subscription
or in any transaction ever sent, a higher label is on a later message; and a
subscription whose next number `tx_seq` has passed labels nothing any more, while
one that still labels takes from later rounds than all of these. A transaction may
then be executed at any time: what it adds follows `rxSeq`, and is later than what
was handled. Once accesses meet this is lost: `tx_seq` may be set back, a number is
given to a second message, and a transaction that the relay gave up brings the first.
`NoneLeftOut` adds that before a failure there is one subscription: messages are
labelled with their own numbers, and the next number is the first message not
looked at.

### Checked by TLC only

`EventuallyDispatched`, both `EventuallyDelivered`, `EventuallyExecuted`,
`EventuallyRelayed`, `Settled` and the fairness part of `ImplementsChannel`: liveness
under fairness is out of the prover's reach.

## 7. Plan

Done: the link (most important: everything else rests on it), the receivers of the
EVM chains, of ICON and of NEAR, the token transfer, and the client of Algorand,
with proofs of their safety. Next, in this order:

1. `BMCLinks`: links, routes, reachable networks, relays and rotation with the
   internal messages Init, Link and Unlink, on two or three BMCs.
2. `BTSRestrictions`: blacklist and token limits, kept on ICON and copied by
   requests to the others; registration of coins.
3. `RelayerRewards`: bonds, terms and carry-over of the ICON BMC. `Fragments`:
   `handleFragment` of ICON, which no sender of the repository uses.

## 8. Not modelled

Cryptography, encoding (RLP, ABI, JSON) and networking: data and I/O. Gas prices
and nonces: they decide only whether a transaction is included, which is a free
choice here. NEAR's contracts, a third implementation with asynchronous calls
between contracts, and Algorand's contracts, of which the BMC keeps no state of the
link: projects of their own. Harmony and substrate clients: variants of the EVM
client behind the same interface, with the same loop. The
legacy token service and the tools around the bridge. Within the modelled parts:
blacklist, limits and receivers that refuse are a free choice of
`RejectRequest` and `SettleTransfer`; allowances are taken to be given; fee
ratios do not change.

Most Go lines of the repository are not the bridge's logic: contract bindings
generated from ABIs (about 16,000 lines), the end-to-end test driver (about 15,000),
and RPC types, codecs, wallets and command lines. Of the files that carry the
control of the relay and its chain clients (`relay.go`, the receivers, the senders and
verifiers that are modelled, `link_operations.go`) the map covers
about 60 %, and of the contracts in Solidity and Java what the token and the
message paths go through.
