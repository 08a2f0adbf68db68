---------------------------- MODULE BlockReceiver ----------------------------
(***************************************************************************)
(* The receiver of an EVM chain (bsc.receiver): receiveLoop fetches the    *)
(* blocks from the start height on, many at a time, from nodes that fail,  *)
(* lag behind, or are on another branch of the chain; it verifies them and *)
(* hands them to the callback of Subscribe one by one.  BTPLink takes the  *)
(* result for granted: every block once, in order.                         *)
(*                                                                         *)
(* A block is verified by its successor: lbn, the last block notification, *)
(* is delivered when the next one is linked to it and carries the seal of  *)
(* a validator.  A failure makes the receiver fetch lbn again.             *)
(*                                                                         *)
(* Abstractions.  The hash of a block is the block itself.  There is one   *)
(* other branch of the chain, which leaves it at height ForkAt.  A request *)
(* fails when all its attempts (RPCCallRetry) did.  Receipts that do not   *)
(* match their header are a free choice of the step that verifies them.    *)
(***************************************************************************)
EXTENDS Naturals, Sequences

CONSTANTS
    StartHeight,                \* opts.Height of the subscription
    VerifierHeight,             \* opts.Verifier.BlockHeight
    BlockFinalityConfirmations, \* 10
    SyncConcurrency,            \* requests made at a time (up to 300)
    ForkAt,                     \* height of the first block of the other branch
    NoBlock,                    \* lbn, prevHeader: nil
    NoVerifier,                 \* vr: nil
    MaxHeight,                  \* bound: height of the chain
    MaxLatest                   \* bound: latest

ASSUME HeightAssumption ==
    /\ {StartHeight, VerifierHeight, ForkAt} \subseteq Nat \ {0}
    /\ VerifierHeight <= StartHeight
ASSUME ReceiverAssumption ==
    /\ BlockFinalityConfirmations \in Nat
    /\ SyncConcurrency \in Nat \ {0}
ASSUME ReceiverBounds == MaxHeight \in Nat /\ MaxLatest \in Nat /\ MaxLatest > MaxHeight

VARIABLES
    height,         \* the height of the chain
    forkSealed,     \* the other branch is sealed by validators
    pc,             \* where the subscription is
    vr,             \* the verifier: the next height and the hash of its parent
    cursor,         \* syncVerifier: the next height it asks for
    prevHeader,     \* syncVerifier: the last header
    sres,           \* syncVerifier: the responses
    latest,         \* the height the receiver may fetch up to
    next,           \* the next height to process
    lbn,            \* last unverified block notification
    bnch,           \* block notifications to process
    delivered       \* (history) the blocks handed to the callback

chainVars == <<height, forkSealed>>
syncVars  == <<cursor, prevHeader, sres>>
loopVars  == <<latest, next, lbn, bnch, delivered>>
vars      == <<chainVars, pc, vr, syncVars, loopVars>>

-----------------------------------------------------------------------------
\* Blocks.

Block    == [height : Nat, branch : {"main", "fork"}]
Verifier == [next : Nat, parent : Block]

ASSUME NilAssumption == NoBlock \notin Block /\ NoVerifier \notin Verifier

\* The block the parent hash of b names.
Parent(b) == [height |-> b.height - 1,
              branch |-> IF b.height = ForkAt THEN "main" ELSE b.branch]

Sealed(b) == b.branch = "main" \/ forkSealed

\* The blocks some node has.
Exists(b) == b.height <= height /\ (b.branch = "fork" => b.height >= ForkAt)

TypeOK ==
    /\ height \in Nat
    /\ forkSealed \in BOOLEAN
    /\ pc \in {"new", "sync", "begin", "select", "stopped", "refused"}
    /\ vr \in Verifier \cup {NoVerifier}
    /\ cursor \in Nat
    /\ prevHeader \in Block \cup {NoBlock}
    /\ sres \in Seq(Block)
    /\ latest \in Nat
    /\ next \in Nat
    /\ lbn \in Block \cup {NoBlock}
    /\ bnch \in Seq(Block)
    /\ delivered \in Seq(Block)

\* The verifier as newVerifier sets it up; its hashes are those of the chain.
NewVerifier == [next |-> VerifierHeight,
                parent |-> [height |-> VerifierHeight - 1, branch |-> "main"]]

Init ==
    /\ height = StartHeight
    /\ forkSealed \in BOOLEAN
    /\ vr \in {NewVerifier, NoVerifier}
    /\ pc = "new"
    /\ cursor = VerifierHeight
    /\ prevHeader = NoBlock
    /\ sres = <<>>
    /\ latest = 0
    /\ next = StartHeight
    /\ lbn = NoBlock
    /\ bnch = <<>>
    /\ delivered = <<>>

\* The chain grows.
NewBlock ==
    /\ height < MaxHeight
    /\ height' = height + 1
    /\ UNCHANGED <<forkSealed, pc, vr, syncVars, loopVars>>

-----------------------------------------------------------------------------
\* The verifier.

\* Mutant of Verify: the hashes are not looked at.
VerifySealOnly(header, nextHeader) ==
    /\ nextHeader.height = header.height + 1
    /\ vr.next = header.height
    /\ Sealed(nextHeader)

\* Mutant of Verify: the seal is not looked at.
VerifyUnsealed(header, nextHeader) ==
    /\ Parent(nextHeader) = header
    /\ vr.next = header.height
    /\ vr.parent = Parent(header)

\* Verifier.Verify: header is linked to nextHeader, which has a valid seal,
\* and to the blocks verified before.
Verify(header, nextHeader) ==
    /\ Parent(nextHeader) = header
    /\ vr.next = header.height
    /\ vr.parent = Parent(header)
    /\ Sealed(nextHeader)

\* Verifier.Update
Updated(header) == [next |-> header.height + 1, parent |-> header]

-----------------------------------------------------------------------------
\* newVerifier, and syncVerifier: the verifier walks from its own height to
\* the start height.

\* The hashes and validators of the options are those a node answers with; no
\* walk is needed if the subscription starts at the verifier's height.
CreateVerifier ==
    /\ pc = "new"
    /\ pc' = IF vr = NoVerifier \/ vr.next = StartHeight THEN "begin" ELSE "sync"
    /\ UNCHANGED <<chainVars, vr, syncVars, loopVars>>

\* They are not, or no node answers: the subscription ends with an error.
VerifierError ==
    /\ pc = "new" /\ vr # NoVerifier
    /\ pc' = "stopped"
    /\ UNCHANGED <<chainVars, vr, syncVars, loopVars>>

\* The headers of the next heights; some requests may fail.
SyncFetch ==
    /\ pc = "sync" /\ sres = <<>> /\ cursor <= StartHeight
    /\ \E n \in 1 .. SyncConcurrency :
       \E s \in [1 .. n -> [height : cursor .. (cursor + SyncConcurrency - 1),
                            branch : {"main", "fork"}]] :
            /\ \A i \in 1 .. n : Exists(s[i])
            /\ \A i, j \in 1 .. n : i < j => s[i].height < s[j].height
            /\ sres' = s
    /\ UNCHANGED <<chainVars, pc, vr, cursor, prevHeader, loopVars>>

\* The first header of all is only kept.
SyncFirst ==
    /\ pc = "sync" /\ sres # <<>> /\ prevHeader = NoBlock
    /\ cursor' = cursor + 1
    /\ prevHeader' = Head(sres)
    /\ sres' = Tail(sres)
    /\ UNCHANGED <<chainVars, pc, vr, loopVars>>

\* A header verifies the one before it.
SyncVerify ==
    /\ pc = "sync" /\ sres # <<>> /\ prevHeader # NoBlock
    /\ vr.next < StartHeight
    /\ Verify(prevHeader, Head(sres))
    /\ vr' = Updated(prevHeader)
    /\ cursor' = cursor + 1
    /\ prevHeader' = Head(sres)
    /\ sres' = Tail(sres)
    /\ UNCHANGED <<chainVars, pc, loopVars>>

\* The verification fails: the subscription ends with an error.
SyncError ==
    /\ pc = "sync" /\ sres # <<>> /\ prevHeader # NoBlock
    /\ vr.next < StartHeight
    /\ ~ Verify(prevHeader, Head(sres))
    /\ pc' = "stopped"
    /\ UNCHANGED <<chainVars, vr, syncVars, loopVars>>

\* The verifier is there: what is left of the responses is dropped.
SyncDone ==
    /\ pc = "sync"
    /\ \/ sres # <<>> /\ vr.next >= StartHeight
       \/ sres = <<>> /\ cursor > StartHeight
    /\ pc' = "begin"
    /\ sres' = <<>>
    /\ UNCHANGED <<chainVars, vr, cursor, prevHeader, loopVars>>

-----------------------------------------------------------------------------
\* receiveLoop

\* Mutant of LatestHeight: signed arithmetic.
LatestHeightSigned == height - BlockFinalityConfirmations

\* The height that has enough confirmations, in unsigned arithmetic: it wraps
\* around to more than any height when the chain is shorter.
LatestHeight ==
    IF height >= BlockFinalityConfirmations THEN height - BlockFinalityConfirmations
                                            ELSE MaxLatest

\* The head of receiveLoop; the query for the height may fail.
Begin ==
    /\ pc = "begin"
    /\ latest' \in {0, LatestHeight}
    /\ pc' = "select"
    /\ UNCHANGED <<chainVars, vr, syncVars, next, lbn, bnch, delivered>>

\* heightTicker: every BlockInterval the chain is taken to have a new block.
Tick ==
    /\ pc = "select"
    /\ latest < MaxLatest
    /\ latest' = latest + 1
    /\ UNCHANGED <<chainVars, pc, vr, syncVars, next, lbn, bnch, delivered>>

\* heightPoller, if the query succeeds.
Poll ==
    /\ pc = "select"
    /\ LatestHeight > 0
    /\ latest' = LatestHeight
    /\ UNCHANGED <<chainVars, pc, vr, syncVars, next, lbn, bnch, delivered>>

\* The heights asked for at a time.
Requested == {h \in next .. (next + SyncConcurrency - 1) : h < latest}

\* Mutant of Forwarded: blocks behind a missing one are forwarded, too.
ForwardedAll(s) ==
    \A i, j \in DOMAIN s : /\ s[i].height \in Requested /\ Exists(s[i])
                           /\ i < j => s[i].height < s[j].height

\* Of the blocks answered those up to the first that is missing are forwarded.
Forwarded(s) ==
    \A i \in DOMAIN s : /\ s[i].height \in Requested /\ Exists(s[i])
                        /\ s[i].height = next + i - 1

\* default: fetch blocks concurrently, sort and forward what came.
Fetch ==
    /\ pc = "select" /\ bnch = <<>>
    /\ next < latest
    /\ \E n \in 1 .. SyncConcurrency :
       \E s \in [1 .. n -> [height : Requested, branch : {"main", "fork"}]] :
            Forwarded(s) /\ bnch' = s
    /\ UNCHANGED <<chainVars, pc, vr, syncVars, latest, next, lbn, delivered>>

\* case bn := <-bnch takes all notifications; a tick between two of them would
\* make no difference to it.
Processes(bn) == pc = "select" /\ bnch # <<>> /\ bn = Head(bnch)

\* bn becomes the last unverified notification.
Advance(bn) ==
    /\ lbn' = bn
    /\ next' = next + 1
    /\ bnch' = Tail(bnch)

\* The first notification, or lbn fetched again.
ProcessFirst(bn) ==
    /\ Processes(bn)
    /\ lbn # NoBlock => lbn.height = bn.height /\ Parent(lbn) = Parent(bn)
    /\ Advance(bn)
    /\ UNCHANGED <<chainVars, pc, vr, syncVars, latest, delivered>>

\* "verification failed on retry": the notifications are dropped.
RefuseRetry(bn) ==
    /\ Processes(bn)
    /\ lbn # NoBlock /\ lbn.height = bn.height /\ Parent(lbn) # Parent(bn)
    /\ bnch' = <<>>
    /\ UNCHANGED <<chainVars, pc, vr, syncVars, latest, next, lbn, delivered>>

\* The next notification verifies lbn; without a verifier nothing is checked.
Verified(bn) == vr # NoVerifier => Verify(lbn, bn)

\* The callback of Subscribe expects the heights in order.
Expected(b) == b.height = StartHeight + Len(delivered)

\* vr.Update(lbn.Header)
UpdatedVerifier == IF vr = NoVerifier THEN NoVerifier ELSE Updated(lbn)

\* lbn is verified and delivered.
Deliver(bn) ==
    /\ Processes(bn)
    /\ lbn # NoBlock /\ lbn.height # bn.height
    /\ Verified(bn)
    /\ Expected(lbn)
    /\ vr' = UpdatedVerifier
    /\ delivered' = Append(delivered, lbn)
    /\ Advance(bn)
    /\ UNCHANGED <<chainVars, pc, syncVars, latest>>

\* "block notification: expected=%d, got=%d": the subscription ends.  (The other
\* error of the callback, a missing event sequence, is ReceiveGap of BTPLink.)
DeliverRefused(bn) ==
    /\ Processes(bn)
    /\ lbn # NoBlock /\ lbn.height # bn.height
    /\ Verified(bn)
    /\ ~ Expected(lbn)
    /\ vr' = UpdatedVerifier
    /\ pc' = "refused"
    /\ UNCHANGED <<chainVars, syncVars, loopVars>>

\* Mutant of Refetch: the block after lbn is fetched, not lbn.
RefetchNext(bn) ==
    /\ Processes(bn)
    /\ lbn # NoBlock /\ lbn.height # bn.height
    /\ vr # NoVerifier
    /\ bnch' = <<>>
    /\ UNCHANGED <<chainVars, pc, vr, syncVars, latest, next, lbn, delivered>>

\* "verification failed. refetching block": bn does not verify lbn, or the
\* receipts of bn do not match its header.
Refetch(bn) ==
    /\ Processes(bn)
    /\ lbn # NoBlock /\ lbn.height # bn.height
    /\ vr # NoVerifier
    /\ next' = next - 1
    /\ bnch' = <<>>
    /\ UNCHANGED <<chainVars, pc, vr, syncVars, latest, lbn, delivered>>

\* The relay was restarted after an error and subscribes again.
Resubscribe ==
    /\ pc \in {"stopped", "refused"}
    /\ vr' = IF vr = NoVerifier THEN NoVerifier ELSE NewVerifier
    /\ pc' = "new"
    /\ cursor' = VerifierHeight
    /\ prevHeader' = NoBlock
    /\ sres' = <<>>
    /\ latest' = 0
    /\ next' = StartHeight
    /\ lbn' = NoBlock
    /\ bnch' = <<>>
    /\ delivered' = <<>>
    /\ UNCHANGED chainVars

-----------------------------------------------------------------------------
Sync ==
    \/ CreateVerifier \/ VerifierError
    \/ SyncFetch \/ SyncFirst \/ SyncVerify \/ SyncError \/ SyncDone

Process(bn) ==
    \/ ProcessFirst(bn) \/ RefuseRetry(bn)
    \/ Deliver(bn) \/ DeliverRefused(bn) \/ Refetch(bn)

Next ==
    \/ NewBlock
    \/ Sync
    \/ Begin \/ Tick \/ Poll \/ Fetch
    \/ bnch # <<>> /\ Process(Head(bnch))
    \/ Resubscribe

Spec == Init /\ [][Next]_vars

(***************************************************************************)
(* Fairness.  The chain grows, the goroutine of the subscription goes on,  *)
(* a relay that stopped is restarted.  Each query goes to a random node    *)
(* and failed ones are repeated without end, so whatever the receiver is   *)
(* waiting for, a node on the main branch answers eventually; and receipts *)
(* that match their header come eventually (Deliver).                      *)
(***************************************************************************)
OnMain(s) == \A i \in DOMAIN s : s[i].branch = "main"

FetchMain == Fetch /\ OnMain(bnch')
SyncFetchMain ==
    SyncFetch /\ OnMain(sres') /\ \A i \in DOMAIN sres' : sres'[i].height = cursor + i - 1

Fairness ==
    /\ WF_vars(NewBlock) /\ WF_vars(Resubscribe)
    /\ WF_vars(Begin) /\ WF_vars(Poll)
    /\ WF_vars(Sync) /\ SF_vars(CreateVerifier)
    /\ SF_vars(SyncFetchMain /\ prevHeader = NoBlock)
    /\ SF_vars(SyncFetchMain /\ prevHeader = [height |-> cursor - 1, branch |-> "main"])
    /\ SF_vars(Fetch)
    /\ SF_vars(FetchMain /\ lbn = [height |-> next - 1, branch |-> "main"])
    /\ SF_vars(FetchMain /\ lbn # NoBlock /\ lbn.height = next)
    /\ WF_vars(bnch # <<>> /\ Process(Head(bnch)))
    /\ SF_vars(bnch # <<>> /\ Deliver(Head(bnch)))

FairSpec == Spec /\ Fairness

-----------------------------------------------------------------------------
\* Properties.

(***************************************************************************)
(* The callback of Subscribe never refuses a block: whatever is missing    *)
(* from a concurrent fetch, dropped after a failed verification or fetched *)
(* again, receiveLoop delivers each height once and in order.              *)
(***************************************************************************)
NotificationsInOrder == pc # "refused"

(***************************************************************************)
(* With a verifier the blocks delivered are linked to one another and to   *)
(* the block the verifier starts from, although lbn may be replaced by     *)
(* what another node answers after it has verified the block before it.    *)
(***************************************************************************)
DeliveredLinked ==
    vr # NoVerifier =>
        \A i \in DOMAIN delivered :
            /\ i > 1 => Parent(delivered[i]) = delivered[i - 1]
            /\ i = Len(delivered) => vr.parent = delivered[i]

(***************************************************************************)
(* With a verifier, and if validators sealed no other branch, every block  *)
(* delivered is on the main branch: "prove that header is linked to        *)
(* verified nextHeader, only then can header be used for                   *)
(* receiver.Callback or vr.Update()".                                      *)
(***************************************************************************)
DeliveredOnMain ==
    vr # NoVerifier /\ ~ forkSealed => OnMain(delivered)

(***************************************************************************)
(* The inductive invariant behind these properties.  The notifications to  *)
(* process continue at next; lbn is the block after those delivered, and   *)
(* next is the height after it or, when it is to be fetched again, its own *)
(* height.                                                                 *)
(***************************************************************************)
QueueInOrder == \A i \in DOMAIN bnch : bnch[i].height = next + i - 1

NothingYet == lbn = NoBlock => delivered = <<>> /\ next = StartHeight

LastIsNext ==
    lbn # NoBlock => /\ lbn.height = StartHeight + Len(delivered)
                     /\ next \in {lbn.height, lbn.height + 1}

OnlyInLoop == pc # "select" => lbn = NoBlock

ReceiverInv ==
    /\ TypeOK
    /\ QueueInOrder
    /\ NothingYet
    /\ LastIsNext
    /\ OnlyInLoop
    /\ NotificationsInOrder
    /\ DeliveredLinked
    /\ DeliveredOnMain

(***************************************************************************)
(* A block with enough confirmations is delivered eventually.              *)
(***************************************************************************)
EventuallyDelivered ==
    \A h \in StartHeight .. MaxHeight :
        (~ forkSealed /\ height >= BlockFinalityConfirmations + h + 2)
            ~> Len(delivered) > h - StartHeight
=============================================================================
