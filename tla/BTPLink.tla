------------------------------- MODULE BTPLink -------------------------------
(***************************************************************************)
(* One direction of one BTP link, from the Message events of the source    *)
(* BMC to the dispatch of the messages by the destination BMC:             *)
(*                                                                         *)
(*   source chain      the Message events of the link, in receipts, in     *)
(*                     blocks (BMCPeriphery._sendMessage);                 *)
(*   chain.Receiver    Subscribe: walks the finalised blocks in order and  *)
(*                     hands each block's receipts to the relay;           *)
(*   relay.Start       buffers the receipts (srcMsg), asks the destination *)
(*                     for the link status, filters and cuts the buffer,   *)
(*                     sends a transaction and waits for its receipt;      *)
(*   multiRelay.Start  starts a relay again when Start returns an error or *)
(*                     panics;                                             *)
(*   destination BMC   handleRelayMessage: rxSeq and rxHeight of the link. *)
(*                                                                         *)
(* A link may have several registered relays, each with its own buffer.    *)
(* Transactions are lost, delayed, duplicated by retries and overtake one  *)
(* another; status queries may be answered by a node that lags behind.     *)
(*                                                                         *)
(* Abstractions.  A message is its sequence number.  A receipt carries the *)
(* consecutive numbers first..last of the events one transaction emitted   *)
(* on this link.  A destination height is the number of link states there  *)
(* have been so far: heights are only compared with one another, and a     *)
(* block that leaves the link as it was is not counted.                    *)
(***************************************************************************)
EXTENDS Naturals, Sequences, FiniteSets

CONSTANTS
    Relays,             \* the registered relays (BMRs) of the link
    NoRelay,            \* stands for "no relay is waiting for this transaction"
    SrcOffset,          \* cfg.Src.Offset: the relay reads no older block
    TxDataSizeLimit,    \* how many events fit in one relay transaction
    ReceiptRetries,     \* attempts of the waitLoop (30 in relay.go)
    Poison,             \* messages whose dispatch reverts the transaction
    MaxSeq,             \* bound: messages emitted
    MaxEvents,          \* bound: messages emitted by one transaction
    MaxHeight,          \* bound: source height
    MaxCrashes          \* bound: crashes of a relay process

ASSUME RelaysAssumption == NoRelay \notin Relays
ASSUME OffsetAssumption == SrcOffset \in Nat /\ SrcOffset >= 1
ASSUME LimitAssumption  == TxDataSizeLimit \in Nat
ASSUME RetryAssumption  == ReceiptRetries \in Nat /\ ReceiptRetries >= 1
ASSUME BoundAssumption  == {MaxSeq, MaxEvents, MaxHeight, MaxCrashes} \subseteq Nat

VARIABLES
    receipts,       \* source: the receipts with Message events of this link
    srcHeight,      \* source: height of the block being produced
    pc,             \* relay: where relay.Start is
    optsSeq,        \* relay: opts.Seq of its subscription
    nextBlock,      \* relay: next block its subscription delivers
    srcMsg,         \* relay: srcMsg.Receipts, the buffer
    txBlockHeight,  \* relay: block height of its last transaction
    tx,             \* relay: the receipts of the transaction being sent
    newMsg,         \* relay: what Segment left for later
    status,         \* relay: height of the link status tx was cut from
    retryCount,     \* relay: failed calls of tx.Receipt
    sent,           \* relay: what tx.Receipt has to say of the transaction it waits for
    minedAt,        \* relay: the block height tx.Receipt returns for it
    confirmed,      \* relay (history): height of the last receipt it was given
    crashes,        \* how many crashes there have been
    pool,           \* transactions on their way that no relay waits for
    hist,           \* destination: the states of the link, one per height
    exec,           \* destination: the transaction being executed
    dispatched      \* destination (history): the messages dispatched

srcVars   == <<receipts, srcHeight>>
subVars   == <<optsSeq, nextBlock>>
bufVars   == <<srcMsg, txBlockHeight, confirmed>>
txVars    == <<tx, newMsg, status, retryCount>>
sentVars  == <<sent, minedAt>>
relayVars == <<pc, subVars, bufVars, txVars, sentVars, crashes>>
dstVars   == <<hist, exec, dispatched>>
vars      == <<srcVars, relayVars, pool, dstVars>>

-----------------------------------------------------------------------------
\* Receipts and link states.

Receipt == [height : Nat, first : Nat, last : Nat]
Batch   == Seq(Receipt)
Link    == [rxSeq : Nat, rxHeight : Nat]

Events(rc) == rc.first .. rc.last

\* The link as the latest block of the destination has it.
CurrentHeight == Len(hist)
CurrentLink   == hist[CurrentHeight]

\* txSeq of the source BMC.
TxSeq == IF receipts = <<>> THEN 0 ELSE receipts[Len(receipts)].last

\* The numbers a..b as a sequence.
Interval(a, b) == [k \in 1 .. ((b + 1) - a) |-> (a + k) - 1]

TypeOK ==
    /\ receipts \in Batch
    /\ srcHeight \in Nat
    /\ pc \in [Relays -> {"down", "select", "send", "wait"}]
    /\ optsSeq \in [Relays -> Nat \ {0}]
    /\ nextBlock \in [Relays -> Nat]
    /\ srcMsg \in [Relays -> Batch]
    /\ txBlockHeight \in [Relays -> Nat]
    /\ status \in [Relays -> Nat]
    /\ tx \in [Relays -> Batch]
    /\ newMsg \in [Relays -> Batch]
    /\ retryCount \in [Relays -> Nat]
    /\ sent \in [Relays -> {"none", "pending", "found", "failed"}]
    /\ minedAt \in [Relays -> Nat]
    /\ confirmed \in [Relays -> Nat]
    /\ crashes \in Nat
    /\ pool \in SUBSET Batch
    /\ hist \in Seq(Link) /\ hist # <<>>
    /\ exec \in [state : {"idle", "running"}, by : Relays \cup {NoRelay},
                 todo : Batch, link : Link, out : Seq(Nat)]
    /\ dispatched \in Seq(Nat)

\* No transaction is being executed.
IdleExec == [state |-> "idle", by |-> NoRelay, todo |-> <<>>,
             link |-> [rxSeq |-> 0, rxHeight |-> 0], out |-> <<>>]

Init ==
    /\ receipts = <<>>
    /\ srcHeight = 1
    /\ pc = [r \in Relays |-> "down"]
    /\ optsSeq = [r \in Relays |-> 1]
    /\ nextBlock = [r \in Relays |-> 0]
    /\ srcMsg = [r \in Relays |-> <<>>]
    /\ txBlockHeight = [r \in Relays |-> 0]
    /\ status = [r \in Relays |-> 0]
    /\ tx = [r \in Relays |-> <<>>]
    /\ newMsg = [r \in Relays |-> <<>>]
    /\ retryCount = [r \in Relays |-> 0]
    /\ sent = [r \in Relays |-> "none"]
    /\ minedAt = [r \in Relays |-> 0]
    /\ confirmed = [r \in Relays |-> 0]
    /\ crashes = 0
    /\ pool = {}
    /\ hist = <<[rxSeq |-> 0, rxHeight |-> 0]>>
    /\ exec = IdleExec
    /\ dispatched = <<>>

-----------------------------------------------------------------------------
\* The source chain.

\* _sendMessage increments txSeq and emits Message(next, txSeq, msg).  The
\* event is in a transaction of its own ...
SendMessage ==
    /\ TxSeq < MaxSeq /\ srcHeight < MaxHeight
    /\ receipts' = Append(receipts, [height |-> srcHeight,
                                     first |-> TxSeq + 1, last |-> TxSeq + 1])
    /\ UNCHANGED <<srcHeight, relayVars, pool, dstVars>>

\* ... or in the transaction that emitted the event before it.
SendMessageAgain ==
    /\ TxSeq < MaxSeq
    /\ receipts # <<>>
    /\ LET rc == receipts[Len(receipts)]
       IN  rc.height = srcHeight /\ (rc.last + 1) - rc.first < MaxEvents
    /\ receipts' = [receipts EXCEPT ![Len(receipts)].last = @ + 1]
    /\ UNCHANGED <<srcHeight, relayVars, pool, dstVars>>

\* The block is closed; from here on the receivers may read it.
NewBlock ==
    /\ srcHeight < MaxHeight
    /\ srcHeight' = srcHeight + 1
    /\ UNCHANGED <<receipts, relayVars, pool, dstVars>>

-----------------------------------------------------------------------------
\* The relay.

\* The transaction the relay stops waiting for may still be executed.
Abandon(r) ==
    pool' = IF sent[r] = "pending" THEN pool \cup {tx[r]} ELSE pool

\* The case <-relayCh ends: the transaction's variables go out of scope.
EndRelay(r) ==
    /\ tx' = [tx EXCEPT ![r] = <<>>]
    /\ newMsg' = [newMsg EXCEPT ![r] = <<>>]
    /\ status' = [status EXCEPT ![r] = 0]
    /\ retryCount' = [retryCount EXCEPT ![r] = 0]
    /\ sent' = [sent EXCEPT ![r] = "none"]
    /\ minedAt' = [minedAt EXCEPT ![r] = 0]

\* relay.Start returns: what it held in memory is gone.
Stop(r) ==
    /\ pc' = [pc EXCEPT ![r] = "down"]
    /\ optsSeq' = [optsSeq EXCEPT ![r] = 1]
    /\ nextBlock' = [nextBlock EXCEPT ![r] = 0]
    /\ srcMsg' = [srcMsg EXCEPT ![r] = <<>>]
    /\ txBlockHeight' = [txBlockHeight EXCEPT ![r] = 0]
    /\ confirmed' = [confirmed EXCEPT ![r] = 0]

\* relay.rxHeight
SubscribeHeight(linkRxHeight) ==
    IF SrcOffset > linkRxHeight THEN SrcOffset ELSE linkRxHeight

\* Mutant of Start: subscribes to the message the link already has.
StartAtRxSeq(r) ==
    /\ pc[r] = "down"
    /\ \E h \in 1 .. CurrentHeight :
        /\ optsSeq' = [optsSeq EXCEPT ![r] = hist[h].rxSeq]
        /\ nextBlock' = [nextBlock EXCEPT ![r] = SubscribeHeight(hist[h].rxHeight)]
        /\ txBlockHeight' = [txBlockHeight EXCEPT ![r] = h]
    /\ pc' = [pc EXCEPT ![r] = "select"]
    /\ UNCHANGED <<srcVars, srcMsg, confirmed, txVars, sentVars, crashes, pool, dstVars>>

\* The head of relay.Start: Status, Subscribe, an empty buffer.  Status may
\* be any state of the link up to the latest.
Start(r) ==
    /\ pc[r] = "down"
    /\ \E h \in 1 .. CurrentHeight :
        /\ optsSeq' = [optsSeq EXCEPT ![r] = hist[h].rxSeq + 1]
        /\ nextBlock' = [nextBlock EXCEPT ![r] = SubscribeHeight(hist[h].rxHeight)]
        /\ txBlockHeight' = [txBlockHeight EXCEPT ![r] = h]
    /\ pc' = [pc EXCEPT ![r] = "select"]
    /\ UNCHANGED <<srcVars, srcMsg, confirmed, txVars, sentVars, crashes, pool, dstVars>>

\* The receipts of block h.
BlockReceipts(h) ==
    SubSeq(receipts,
           Cardinality({i \in DOMAIN receipts : receipts[i].height < h}) + 1,
           Cardinality({i \in DOMAIN receipts : receipts[i].height <= h}))

\* Drops the receipts of b (which are in order) that are older than rxHeight
\* or hold no event above rxSeq, and the events up to rxSeq of the others.
Filter(b, rxHeight, rxSeq) ==
    LET n == Cardinality({i \in DOMAIN b : b[i].height < rxHeight \/ b[i].last <= rxSeq})
    IN  [i \in 1 .. (Len(b) - n) |->
            [b[i + n] EXCEPT !.first = IF @ > rxSeq THEN @ ELSE rxSeq + 1]]

\* Mutant of Gap: the check for missing events is gone.
GapUnchecked(b, rxSeq) == FALSE

\* An event is missing: the receipts do not continue rxSeq without a gap.
Gap(b, rxSeq) ==
    \E i \in DOMAIN b :
        b[i].first # (IF i = 1 THEN rxSeq ELSE b[i - 1].last) + 1

\* The events of the next block the callback of Subscribe takes, in sequence
\* from opts.Seq on; receipts without events are dropped by relay.Start.
NextReceipts(r) == Filter(BlockReceipts(nextBlock[r]), 0, optsSeq[r] - 1)

\* The subscription hands over the next finalised block and relay.Start
\* appends its receipts to srcMsg.
ReceiveBlock(r) ==
    /\ pc[r] = "select"
    /\ nextBlock[r] < srcHeight
    /\ LET b == NextReceipts(r)
       IN  /\ ~ Gap(b, optsSeq[r] - 1)
           /\ srcMsg' = [srcMsg EXCEPT ![r] = @ \o b]
           /\ optsSeq' = [optsSeq EXCEPT ![r] = IF b = <<>> THEN @ ELSE b[Len(b)].last + 1]
    /\ nextBlock' = [nextBlock EXCEPT ![r] = @ + 1]
    /\ UNCHANGED <<srcVars, pc, txBlockHeight, confirmed, txVars, sentVars,
                   crashes, pool, dstVars>>

\* "invalid event seq": the subscription ends with an error, Start returns it.
ReceiveGap(r) ==
    /\ pc[r] = "select"
    /\ nextBlock[r] < srcHeight
    /\ Gap(NextReceipts(r), optsSeq[r] - 1)
    /\ Stop(r)
    /\ UNCHANGED <<srcVars, txVars, sentVars, crashes, pool, dstVars>>

\* The first n receipts of b fit in a transaction.
Fits(b, n) == n > 0 => (b[n].last + 1) - b[1].first <= TxDataSizeLimit

\* Mutant of Remaining: the receipt that did not fit is left out.
RemainingAfter(b, n) == IF n = Len(b) THEN b ELSE SubSeq(b, n + 2, Len(b))

\* What Segment leaves: the receipts from the first that did not fit; all of
\* them when all of them fit, since newMsg then stays as it was set up.
Remaining(b, n) == IF n = Len(b) THEN b ELSE SubSeq(b, n + 1, Len(b))

\* "skip until dst.Status is updated": the link status of height h is used.
StatusUpdated(r, h) == h >= txBlockHeight[r]

\* A relay signal (the ticker, or a long buffer): Status, skipped while older
\* than the last transaction, filterSrcMsg, and a Segment of what is left.
Relay(r) ==
    /\ pc[r] = "select"
    /\ \E h \in 1 .. CurrentHeight :
        LET b == Filter(srcMsg[r], hist[h].rxHeight, hist[h].rxSeq)
        IN  /\ StatusUpdated(r, h)
            /\ ~ Gap(b, hist[h].rxSeq)
            /\ b # <<>>
            /\ srcMsg' = [srcMsg EXCEPT ![r] = b]
            /\ status' = [status EXCEPT ![r] = h]
            /\ \E n \in 0 .. Len(b) :
                /\ Fits(b, n)
                /\ n < Len(b) => ~ Fits(b, n + 1)
                /\ tx' = [tx EXCEPT ![r] = SubSeq(b, 1, n)]
                /\ newMsg' = [newMsg EXCEPT ![r] = Remaining(b, n)]
    /\ pc' = [pc EXCEPT ![r] = "send"]
    /\ UNCHANGED <<srcVars, subVars, txBlockHeight, confirmed, retryCount,
                   sentVars, crashes, pool, dstVars>>

\* The same signal when nothing is left to relay: Segment returns no tx.
RelayNothing(r) ==
    /\ pc[r] = "select"
    /\ \E h \in 1 .. CurrentHeight :
        /\ StatusUpdated(r, h)
        /\ Filter(srcMsg[r], hist[h].rxHeight, hist[h].rxSeq) = <<>>
    /\ srcMsg' = [srcMsg EXCEPT ![r] = <<>>]
    /\ UNCHANGED <<srcVars, pc, subVars, txBlockHeight, confirmed, txVars,
                   sentVars, crashes, pool, dstVars>>

\* The same signal when filterSrcMsg reports a missing sequence number: Start
\* returns an error.
RelayGap(r) ==
    /\ pc[r] = "select"
    /\ \E h \in 1 .. CurrentHeight :
        /\ StatusUpdated(r, h)
        /\ Gap(Filter(srcMsg[r], hist[h].rxHeight, hist[h].rxSeq), hist[h].rxSeq)
    /\ Stop(r)
    /\ UNCHANGED <<srcVars, txVars, sentVars, crashes, pool, dstVars>>

\* tx.Send succeeds: the sendLoop ends.
Send(r) ==
    /\ pc[r] = "send"
    /\ pc' = [pc EXCEPT ![r] = "wait"]
    /\ sent' = [sent EXCEPT ![r] = "pending"]
    /\ UNCHANGED <<srcVars, subVars, bufVars, txVars, minedAt, crashes, pool, dstVars>>

\* tx.Send reports an error although the transaction is on its way; the
\* sendLoop sends again.  (An error without that is a stuttering step.)
SendError(r) ==
    /\ pc[r] = "send"
    /\ pool' = pool \cup {tx[r]}
    /\ UNCHANGED <<srcVars, relayVars, dstVars>>

\* tx.Receipt returns no error: the rest becomes the buffer, also when the
\* transaction failed and tx.Receipt does not say so.  blockHeight is assigned
\* by the first call only; a call that fails returns 0.
ReceiptFound(r) ==
    /\ pc[r] = "wait" /\ sent[r] = "found"
    /\ pc' = [pc EXCEPT ![r] = "select"]
    /\ srcMsg' = [srcMsg EXCEPT ![r] = newMsg[r]]
    /\ txBlockHeight' = [txBlockHeight EXCEPT
                            ![r] = IF retryCount[r] = 0 THEN minedAt[r] ELSE 0]
    /\ confirmed' = [confirmed EXCEPT ![r] = minedAt[r]]
    /\ EndRelay(r)
    /\ UNCHANGED <<srcVars, subVars, crashes, pool, dstVars>>

\* tx.Receipt fails: not found yet, failed and reported as such, or the query
\* itself failed.
ReceiptRetry(r) ==
    /\ pc[r] = "wait"
    /\ retryCount[r] + 1 < ReceiptRetries
    /\ retryCount' = [retryCount EXCEPT ![r] = @ + 1]
    /\ UNCHANGED <<srcVars, pc, subVars, bufVars, tx, newMsg, status, sentVars,
                   crashes, pool, dstVars>>

\* After ReceiptRetries failures the waitLoop ends with the buffer as it was.
ReceiptGiveUp(r) ==
    /\ pc[r] = "wait"
    /\ retryCount[r] + 1 >= ReceiptRetries
    /\ pc' = [pc EXCEPT ![r] = "select"]
    /\ Abandon(r)
    /\ EndRelay(r)
    /\ UNCHANGED <<srcVars, subVars, bufVars, crashes, dstVars>>

\* The process dies, Start panics, or the subscription fails: Start is called
\* again by multiRelay.Start (or by whoever restarts the process).
Crash(r) ==
    /\ pc[r] # "down"
    /\ crashes < MaxCrashes
    /\ crashes' = crashes + 1
    /\ Stop(r)
    /\ Abandon(r)
    /\ EndRelay(r)
    /\ UNCHANGED <<srcVars, dstVars>>

-----------------------------------------------------------------------------
\* The destination chain.

\* A transaction never makes it into a block (dropped, underpriced, expired).
LoseTx(r) ==
    /\ sent[r] = "pending"
    /\ sent' = [sent EXCEPT ![r] = "failed"]
    /\ UNCHANGED <<srcVars, pc, subVars, bufVars, txVars, minedAt, crashes,
                   pool, dstVars>>

\* tx.Receipt of relay r's transaction returns (height, nil).
Found(r, height) ==
    /\ sent' = [sent EXCEPT ![r] = "found"]
    /\ minedAt' = [minedAt EXCEPT ![r] = height]

\* Relay r's transaction is in a block and failed.  tx.Receipt returns an error
\* (bsc and hmny, for a reason RevertError knows), no error and height 0 (for
\* one it does not know), or no error and the block's height (icon, which does
\* not look at txr.Status).
Failed(r) ==
    \/ sent' = [sent EXCEPT ![r] = "failed"] /\ UNCHANGED minedAt
    \/ \E height \in {0, CurrentHeight} : Found(r, height)

\* The transaction runs out of gas or steps: nothing of it is kept.  (Of one
\* no relay waits for, this is LosePooled.)
FailTx(r) ==
    /\ sent[r] = "pending"
    /\ Failed(r)
    /\ UNCHANGED <<srcVars, pc, subVars, bufVars, txVars, crashes, pool, dstVars>>

LosePooled(b) ==
    /\ b \in pool
    /\ pool' = pool \ {b}
    /\ UNCHANGED <<srcVars, relayVars, dstVars>>

\* handleRelayMessage begins: rxSeq and rxHeight are read from the link.
BeginExec(by, b) ==
    exec' = [state |-> "running", by |-> by, todo |-> b,
             link |-> CurrentLink, out |-> dispatched]

ExecTx(r) ==
    /\ sent[r] = "pending"
    /\ BeginExec(r, tx[r])
    /\ UNCHANGED <<srcVars, relayVars, pool, hist, dispatched>>

ExecPooled(b) ==
    /\ b \in pool
    /\ BeginExec(NoRelay, b)
    /\ pool' = pool \ {b}
    /\ UNCHANGED <<srcVars, relayVars, hist, dispatched>>

\* Mutant of HandleOldReceipt: the receipts of block rxHeight are ignored, too.
HandleOldReceiptAt ==
    /\ exec.state = "running" /\ exec.todo # <<>>
    /\ Head(exec.todo).height <= exec.link.rxHeight
    /\ exec' = [exec EXCEPT !.todo = Tail(@)]
    /\ UNCHANGED <<srcVars, relayVars, pool, hist, dispatched>>

\* "ignore lower block height"
HandleOldReceipt ==
    /\ exec.state = "running" /\ exec.todo # <<>>
    /\ Head(exec.todo).height < exec.link.rxHeight
    /\ exec' = [exec EXCEPT !.todo = Tail(@)]
    /\ UNCHANGED <<srcVars, relayVars, pool, hist, dispatched>>

\* Mutant of FirstNew: lower sequence numbers are not ignored.
FirstAny(rc, rxSeq) == rc.first

\* The events of the receipt that are new to the link, from rxSeq + 1 on.
FirstNew(rc, rxSeq) == IF rc.first > rxSeq THEN rc.first ELSE rxSeq + 1

\* Mutant of HandleReceipt: rxSeq is that of the receipt, whatever it was.
HandleReceiptLast ==
    /\ exec.state = "running" /\ exec.todo # <<>>
    /\ LET rc  == Head(exec.todo)
           new == FirstNew(rc, exec.link.rxSeq)
       IN  /\ rc.height >= exec.link.rxHeight
           /\ rc.first <= exec.link.rxSeq + 1
           /\ exec' = [exec EXCEPT
                !.todo = Tail(@),
                !.link = [rxHeight |-> rc.height, rxSeq |-> rc.last],
                !.out  = @ \o Interval(new, rc.last)]
    /\ UNCHANGED <<srcVars, relayVars, pool, hist, dispatched>>

\* The events of a receipt, "ignore lower sequence number" and then one by one
\* in sequence; each message is dispatched.
HandleReceipt ==
    /\ exec.state = "running" /\ exec.todo # <<>>
    /\ LET rc  == Head(exec.todo)
           seq == exec.link.rxSeq
           new == FirstNew(rc, seq)
       IN  /\ rc.height >= exec.link.rxHeight
           /\ rc.first <= seq + 1
           /\ new .. rc.last \cap Poison = {}
           /\ exec' = [exec EXCEPT
                !.todo = Tail(@),
                !.link = [rxHeight |-> rc.height,
                          rxSeq |-> IF rc.last > seq THEN rc.last ELSE seq],
                !.out  = @ \o Interval(new, rc.last)]
    /\ UNCHANGED <<srcVars, relayVars, pool, hist, dispatched>>

\* BMCRevertInvalidSeqNumber, or a message whose dispatch reverts: nothing of
\* the transaction is kept.
HandleRevert ==
    /\ exec.state = "running" /\ exec.todo # <<>>
    /\ LET rc == Head(exec.todo)
       IN  /\ rc.height >= exec.link.rxHeight
           /\ \/ rc.first > exec.link.rxSeq + 1
              \/ FirstNew(rc, exec.link.rxSeq) .. rc.last \cap Poison # {}
    /\ exec' = IdleExec
    /\ IF exec.by \in Relays THEN Failed(exec.by) ELSE UNCHANGED sentVars
    /\ UNCHANGED <<srcVars, pc, subVars, bufVars, txVars, crashes,
                   pool, hist, dispatched>>

\* Mutant of Commit: rxHeight is that of the next block.
CommitNextHeight ==
    /\ exec.state = "running" /\ exec.todo = <<>>
    /\ hist' = IF exec.link = CurrentLink THEN hist
              ELSE Append(hist, [exec.link EXCEPT !.rxHeight = @ + 1])
    /\ dispatched' = exec.out
    /\ exec' = IdleExec
    /\ IF exec.by \in Relays THEN Found(exec.by, Len(hist')) ELSE UNCHANGED sentVars
    /\ UNCHANGED <<srcVars, pc, subVars, bufVars, txVars, crashes, pool>>

\* The end of handleRelayMessage: updateLinkRxSeq, updateLinkRxHeight.
Commit ==
    /\ exec.state = "running" /\ exec.todo = <<>>
    /\ hist' = IF exec.link = CurrentLink THEN hist ELSE Append(hist, exec.link)
    /\ dispatched' = exec.out
    /\ exec' = IdleExec
    /\ IF exec.by \in Relays THEN Found(exec.by, Len(hist')) ELSE UNCHANGED sentVars
    /\ UNCHANGED <<srcVars, pc, subVars, bufVars, txVars, crashes, pool>>

-----------------------------------------------------------------------------
SourceStep == SendMessage \/ SendMessageAgain \/ NewBlock

RelayStep(r) ==
    \/ Start(r) \/ ReceiveBlock(r) \/ ReceiveGap(r)
    \/ Relay(r) \/ RelayNothing(r) \/ RelayGap(r)
    \/ Send(r) \/ SendError(r)
    \/ ReceiptFound(r) \/ ReceiptRetry(r) \/ ReceiptGiveUp(r)
    \/ Crash(r)

ExecStep == HandleOldReceipt \/ HandleReceipt \/ HandleRevert \/ Commit

\* A transaction is atomic: while it runs nothing else is taken.
Next ==
    \/ ExecStep
    \/ /\ exec.state = "idle"
       /\ \/ SourceStep
          \/ \E r \in Relays : RelayStep(r) \/ LoseTx(r) \/ FailTx(r) \/ ExecTx(r)
          \/ \E b \in pool : LosePooled(b) \/ ExecPooled(b)

Spec == Init /\ [][Next]_vars

(***************************************************************************)
(* Fairness.  Blocks are produced; multiRelay restarts a relay 5s after it *)
(* stopped; the select loop takes what its channels hold and the ticker    *)
(* signals every 5s; a running transaction ends.  All but the last are     *)
(* disabled while a transaction runs, hence strong fairness.  Of what may  *)
(* go wrong at every attempt (a lagging node, a failing Send, a            *)
(* transaction that is not included or fails), it also says that it does   *)
(* not go wrong every time: relay.Start retries each of them without end,  *)
(* and whether a transaction is included does not depend on the status it  *)
(* was cut from.                                                           *)
(***************************************************************************)
RelayUpToDate(r) == Relay(r) /\ status'[r] = CurrentHeight
UpToDate(r)      == status[r] = CurrentHeight

WhenIdle(A) == A /\ exec.state = "idle"

Fairness ==
    /\ SF_vars(WhenIdle(NewBlock))
    /\ WF_vars(ExecStep)
    /\ \A r \in Relays :
        /\ SF_vars(WhenIdle(Start(r)))
        /\ SF_vars(WhenIdle(ReceiveBlock(r)))
        /\ SF_vars(WhenIdle(RelayUpToDate(r)))
        /\ SF_vars(WhenIdle(RelayGap(r)))
        /\ SF_vars(WhenIdle(Send(r)))
        /\ SF_vars(WhenIdle(UpToDate(r) /\ ExecTx(r)))
        /\ SF_vars(WhenIdle(ReceiptFound(r) \/ ReceiptRetry(r) \/ ReceiptGiveUp(r)))

FairSpec == Spec /\ Fairness

-----------------------------------------------------------------------------
\* Properties.

(***************************************************************************)
(* A registered relay that buffers, filters, retries and restarts cannot   *)
(* make the BMC dispatch a message twice, out of order or not at all: the  *)
(* messages dispatched are 1, 2, ..., rxSeq.                               *)
(***************************************************************************)
ExactlyOnceInOrder == dispatched = Interval(1, CurrentLink.rxSeq)

(***************************************************************************)
(* handleRelayMessage drops every receipt below rxHeight unread, and a     *)
(* restarted relay subscribes from rxHeight on.  So rxHeight must never    *)
(* pass the block of a message that is still to be dispatched: it would    *)
(* be skipped for good and the link would be stuck behind it.              *)
(***************************************************************************)
NothingSkipped ==
    \A i \in DOMAIN receipts :
        receipts[i].last > CurrentLink.rxSeq
            => receipts[i].height >= CurrentLink.rxHeight

(***************************************************************************)
(* An event that a subscription has delivered and the BMC has not          *)
(* dispatched does not leave the relay's buffer unnoticed.  filterSrcMsg   *)
(* never drops it, however old the link status is; it does leave when a    *)
(* Segment's transaction fails and tx.Receipt reports no error, since the  *)
(* rest then replaces srcMsg.  From then on the buffer has a gap at every  *)
(* link status there is, so that the next relay signal ends Start with     *)
(* "missing event sequence" and the event is read again from the source.   *)
(***************************************************************************)
Holds(b, s) == \E i \in DOMAIN b : s \in Events(b[i])

Undispatched(r) == (CurrentLink.rxSeq + 1) .. (optsSeq[r] - 1)

NothingLost ==
    \A r \in Relays : pc[r] = "select" =>
        \A s \in Undispatched(r) :
            \/ Holds(srcMsg[r], s)
            \/ \A h \in DOMAIN hist :
                    Gap(Filter(srcMsg[r], hist[h].rxHeight, hist[h].rxSeq), hist[h].rxSeq)

(***************************************************************************)
(* BMCRevertInvalidSeqNumber never happens: whatever a relay sends, when   *)
(* its transaction runs (late, again, or after those of other relays) each *)
(* receipt continues the link's rxSeq or starts below it.                  *)
(***************************************************************************)
NoInvalidSeqNumber ==
    exec.state = "running" /\ exec.todo # <<>>
        => Head(exec.todo).first <= exec.link.rxSeq + 1

(***************************************************************************)
(* The inductive invariant behind these properties.  The receipts of the   *)
(* source are in order; whatever travels is cut out of them without a gap  *)
(* and starts no later than the message the link expects next; and the     *)
(* link has not passed a message that is still to be dispatched.           *)
(***************************************************************************)
SourceInOrder ==
    /\ \A i \in DOMAIN receipts : /\ 1 <= receipts[i].first
                                   /\ receipts[i].first <= receipts[i].last
                                   /\ receipts[i].height <= srcHeight
    /\ \A i, j \in DOMAIN receipts : i < j =>
            /\ receipts[i].last < receipts[j].first
            /\ receipts[i].height <= receipts[j].height

FromSource(b) ==
    \A i \in DOMAIN b : \E j \in DOMAIN receipts :
        /\ b[i].height = receipts[j].height
        /\ receipts[j].first <= b[i].first
        /\ b[i].last <= receipts[j].last

Continues(b, rxSeq) ==
    /\ b # <<>> => b[1].first <= rxSeq + 1
    /\ \A i \in DOMAIN b : i > 1 => b[i].first = b[i - 1].last + 1

Relayable(b, rxSeq) == FromSource(b) /\ Continues(b, rxSeq)

LinkSound(l) ==
    /\ l.rxHeight <= srcHeight
    /\ \A i \in DOMAIN receipts :
            receipts[i].last > l.rxSeq => receipts[i].height >= l.rxHeight

HistInOrder ==
    \A h \in DOMAIN hist : /\ hist[h].rxSeq <= CurrentLink.rxSeq
                           /\ hist[h].rxHeight <= CurrentLink.rxHeight

BuffersFromSource ==
    \A r \in Relays : FromSource(srcMsg[r]) /\ FromSource(newMsg[r])

TxsRelayable ==
    /\ \A r \in Relays : Relayable(tx[r], CurrentLink.rxSeq)
    /\ \A b \in pool : Relayable(b, CurrentLink.rxSeq)

ExecSound ==
    exec.state = "running" =>
        /\ Relayable(exec.todo, exec.link.rxSeq)
        /\ LinkSound(exec.link)
        /\ exec.link.rxSeq >= CurrentLink.rxSeq
        /\ exec.link.rxHeight >= CurrentLink.rxHeight
        /\ exec.out = Interval(1, exec.link.rxSeq)

LinkInv ==
    /\ TypeOK
    /\ SourceInOrder
    /\ LinkSound(CurrentLink)
    /\ HistInOrder
    /\ BuffersFromSource
    /\ TxsRelayable
    /\ ExecSound
    /\ ExactlyOnceInOrder

(***************************************************************************)
(* The inductive invariant behind NothingLost.  A buffer is in order, so   *)
(* that what filterSrcMsg and Segment cut off is its beginning, and older  *)
(* than what the subscription delivers next.  As long as an event is still *)
(* to be dispatched, the buffer ends with the last event the subscription  *)
(* delivered, and so does the rest that Segment left: it is never empty.   *)
(* Hence a buffer without a gap holds every event from rxSeq + 1 on.       *)
(***************************************************************************)
InOrder(b) ==
    /\ \A i \in DOMAIN b : b[i].first <= b[i].last
    /\ \A i, j \in DOMAIN b : i < j => b[i].last < b[j].first /\ b[i].height <= b[j].height

OlderThan(b, height, seq) == \A i \in DOMAIN b : b[i].height < height /\ b[i].last < seq

EndsAt(b, s) == b # <<>> /\ b[Len(b)].last = s

BufferSound(r) ==
    /\ InOrder(srcMsg[r]) /\ OlderThan(srcMsg[r], nextBlock[r], optsSeq[r])
    /\ InOrder(newMsg[r]) /\ OlderThan(newMsg[r], nextBlock[r], optsSeq[r])
    /\ pc[r] = "down" => srcMsg[r] = <<>>
    /\ pc[r] \in {"down", "select"} => newMsg[r] = <<>>
    /\ Undispatched(r) # {} =>
            /\ EndsAt(srcMsg[r], optsSeq[r] - 1)
            /\ pc[r] \in {"send", "wait"} => EndsAt(newMsg[r], optsSeq[r] - 1)

RelayInv == LinkInv /\ \A r \in Relays : BufferSound(r)

(***************************************************************************)
(* rxSeq and rxHeight of the link only grow, and dispatched messages stay  *)
(* dispatched: a late or repeated transaction cannot turn the link back.   *)
(***************************************************************************)
LinkMonotonic ==
    [][ /\ CurrentLink'.rxSeq >= CurrentLink.rxSeq
        /\ CurrentLink'.rxHeight >= CurrentLink.rxHeight ]_vars

(***************************************************************************)
(* Every message the source BMC emitted is dispatched eventually, as long  *)
(* as no receipt is above the limit: Segment never takes such a receipt,   *)
(* and sends empty transactions for ever.                                  *)
(***************************************************************************)
ReceiptsFit == \A i \in DOMAIN receipts : Cardinality(Events(receipts[i])) <= TxDataSizeLimit

EventuallyDispatched ==
    []ReceiptsFit => \A s \in 1 .. MaxSeq : TxSeq >= s ~> CurrentLink.rxSeq >= s

(***************************************************************************)
(* The link implements a first-in first-out channel.                       *)
(***************************************************************************)
Channel == INSTANCE BTPChannel WITH sent <- TxSeq, received <- CurrentLink.rxSeq

ImplementsChannel == Channel!ChanSpec

(***************************************************************************)
(* What a comment of the Go code says; the run shows where it fails.       *)
(***************************************************************************)

\* relay.go: a status older than the relay's last transaction is not used
\* ("skip until dst.Status is updated").
StatusNotStale == \A r \in Relays : pc[r] = "send" => status[r] >= confirmed[r]
=============================================================================
