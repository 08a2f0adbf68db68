---------------------------- MODULE NearReceiver ----------------------------
(***************************************************************************)
(* The receiver and the block verifier of NEAR                             *)
(* (src/cmd/iconbridge/chain/near), with the relay that subscribes to them *)
(* again after each error.                                                 *)
(*                                                                         *)
(* A subscription is a goroutine of its own that nothing ends when the     *)
(* relay has given it up, and Receiver.verifier is one field: what an old  *)
(* subscription still receives is validated by the verifier of the new     *)
(* one.  A step is one block that goes through a stage of the pipeline, or *)
(* one exchange with the relay.                                            *)
(***************************************************************************)
EXTENDS Integers, Sequences, FiniteSets, SequencesExt, Select, Sums

CONSTANTS
    Chains,          \* what the chain of NEAR may hold: at each height no block,
                     \* or [prev, epoch, approvals, events], where an event is
                     \* its sequence number, or 0 for one to another network
    NoBlock,
    Stakes,          \* stakes of the block producers of each epoch, in order
    OtherApprovals,  \* lists of approvals that a node may put into a block in
                     \* the place of the block's own, of any length
    VerifierHeight,  \* configured height of the verifier
    WithVerifier,    \* whether a verifier is configured: a set of BOOLEANs
    StartHeight,     \* height of the new link
    RxHeights,       \* heights that the owner of ICON's BMC may set
    FirstHead,       \* newest block at first
    MaxSubs,         \* bound: subscriptions that exist at a time
    MaxFaults        \* bound: requests that fail, wrong answers, heights
                     \* set by the owner, and restarts of the process

Subs == 1 .. MaxSubs

\* Blocks that were validated and not yet looked at: one is held by each of
\* the two operators between the verifier and the loop that reads them.
Ahead == 2

\* A block, whose hash is written as its height; and the hash of any block
\* that is not on the chain.
Block == [prev : Nat, epoch : DOMAIN Stakes, approvals : Seq(BOOLEAN), events : Seq(Nat)]

OffChain == -1

ASSUME NearAssumption ==
    /\ Stakes \in Seq(Seq(Nat)) /\ 1 \in DOMAIN Stakes
    /\ NoBlock \notin Block /\ OtherApprovals \subseteq Seq(BOOLEAN)
    /\ VerifierHeight \in Nat \ {0} /\ StartHeight \in Nat /\ StartHeight > VerifierHeight
    /\ \A c \in Chains :
          /\ c \in Seq(Block \cup {NoBlock})
          /\ StartHeight \in DOMAIN c /\ RxHeights \subseteq DOMAIN c
          /\ \E h \in DOMAIN c : h >= VerifierHeight /\ c[h] # NoBlock
          /\ FirstHead \in 0 .. Len(c) + 3
    /\ WithVerifier \subseteq BOOLEAN
    /\ MaxSubs \in Nat \ {0} /\ MaxFaults \in Nat

\* Events to ICON of a block, and of the blocks of a chain.
EventsOf(b) == Keep(b.events, {i \in DOMAIN b.events : b.events[i] # 0})

EventsIn(c) == UNION {Range(EventsOf(c[h])) : h \in {k \in DOMAIN c : c[k] # NoBlock}}

\* More than two thirds of the stake approved the block.  Only producers that
\* have a place in the list of approvals are counted.
StakeOf(stakes, S) == Sum(stakes, S)

\* Mutant of Approved: two thirds are enough.
ApprovedAtThreshold(approvals, stakes) ==
    LET listed == DOMAIN approvals \cap DOMAIN stakes
    IN  StakeOf(stakes, {i \in listed : approvals[i]})
            >= (2 * StakeOf(stakes, listed)) \div 3

Approved(approvals, stakes) ==
    LET listed == DOMAIN approvals \cap DOMAIN stakes
    IN  StakeOf(stakes, {i \in listed : approvals[i]})
            > (2 * StakeOf(stakes, listed)) \div 3

\* The chain of NEAR is as its validators make it.  A block is approved by the
\* producers of its epoch and has the block before it as its parent; an epoch
\* is followed by the next one, and the verifier is configured with the first.
ASSUME ChainAssumption ==
    \A c \in Chains : \A h \in DOMAIN c : c[h] # NoBlock =>
        /\ c[h].prev \in 0 .. h - 1
        /\ c[h].prev = 0 \/ c[c[h].prev] # NoBlock
        /\ \A k \in c[h].prev + 1 .. h - 1 : c[k] = NoBlock
        /\ Len(c[h].approvals) = Len(Stakes[c[h].epoch])
        /\ Approved(c[h].approvals, Stakes[c[h].epoch])
        /\ IF c[h].prev >= VerifierHeight
           THEN c[h].epoch - c[c[h].prev].epoch \in {0, 1}
           ELSE h >= VerifierHeight => c[h].epoch \in {1, 2}

\* The BMC of NEAR numbers its messages to ICON from 1, in the order of the
\* blocks, and the link was added before the first.
ASSUME EventAssumption ==
    \A c \in Chains :
        LET known == {h \in DOMAIN c : c[h] # NoBlock}
        IN  /\ IsFiniteSet(EventsIn(c))
            /\ EventsIn(c) = 1 .. Cardinality(EventsIn(c))
            /\ \A h \in known :
                  /\ h < StartHeight => EventsOf(c[h]) = <<>>
                  /\ \A i \in DOMAIN EventsOf(c[h]) :
                        EventsOf(c[h])[i] = EventsOf(c[h])[1] + i - 1
            /\ \A h, k \in known : h < k =>
                  \A i \in DOMAIN EventsOf(c[h]), j \in DOMAIN EventsOf(c[k]) :
                        EventsOf(c[h])[i] < EventsOf(c[k])[j]

VARIABLES
    blocks,      \* the chain of NEAR
    verified,    \* whether a verifier is configured
    head,        \* height of the newest block
    link,        \* the link at ICON's BMC; "set" when the owner set its height
    relay,       \* the relay, its subscription and its srcMsg
    verifier,    \* Receiver.verifier
    sub,         \* the subscriptions
    sent,        \* blocks whose events were sent to a relay
    faults

vars == <<blocks, verified, head, link, relay, verifier, sub, sent, faults>>

Known(h) == h \in DOMAIN blocks /\ blocks[h] # NoBlock

EventsAt(h) == EventsOf(blocks[h])
MaxSeq      == Cardinality(EventsIn(blocks))

NoVerifier == [owner |-> 0, blockHeight |-> 0, previousBlockHash |-> 0,
               currentEpochId |-> 0, nextEpochId |-> 0, blockProducers |-> 0]

\* An error in the place of a block.
Error == [height |-> 0, approvals |-> <<>>]

NoSub == [pc |-> "done", seq |-> 0, height |-> 0, pos |-> 0, queue |-> <<>>,
          ended |-> FALSE, block |-> Error, msg |-> <<>>]

Statuses == {"done", "sync", "syncError", "receive", "message", "seqError", "error"}

Item     == [height : {h \in DOMAIN blocks : Known(h)}, approvals : Seq(BOOLEAN)] \cup {Error}
Receipt  == [height : DOMAIN blocks, seq : 1 .. MaxSeq]
Verifier == [owner : 0 .. MaxSubs, blockHeight : 0 .. Len(blocks),
             previousBlockHash : {OffChain} \cup 0 .. Len(blocks), currentEpochId : Nat,
             nextEpochId : Nat, blockProducers : {0} \cup DOMAIN Stakes]
Sub      == [pc : Statuses, seq : 0 .. MaxSeq + 1,
             height : 0 .. Len(blocks), pos : 0 .. Len(blocks) + 1,
             queue : Seq(Item), ended : BOOLEAN, block : Item, msg : Seq(Receipt)]
Link       == [rxSeq : 0 .. MaxSeq, rxHeight : DOMAIN blocks, set : BOOLEAN]
RelayState == [pc : {"start", "run"}, live : 0 .. MaxSubs, srcMsg : Seq(Receipt)]

TypeOK ==
    /\ blocks \in Chains /\ verified \in BOOLEAN
    /\ head \in FirstHead .. Len(blocks) + 3
    /\ link \in Link /\ relay \in RelayState
    /\ verifier \in Verifier
    /\ sub \in [Subs -> Sub]
    /\ \A s \in Subs : Len(sub[s].queue) <= Ahead
    /\ sent \subseteq Item
    /\ faults \in 0 .. MaxFaults

Init ==
    /\ blocks \in Chains
    /\ verified \in WithVerifier
    /\ head = FirstHead
    /\ link = [rxSeq |-> 0, rxHeight |-> StartHeight, set |-> FALSE]
    /\ relay = [pc |-> "start", live |-> 0, srcMsg |-> <<>>]
    /\ verifier = NoVerifier
    /\ sub = [s \in Subs |-> NoSub]
    /\ sent = {}
    /\ faults = 0

Fault == faults < MaxFaults /\ faults' = faults + 1

-----------------------------------------------------------------------------
(* The verifier.                                                           *)

\* NewVerifier: the block producers of the parent of the configured block.
NewVerifier(s) ==
    LET first == CHOOSE h \in DOMAIN blocks :
                    /\ h >= VerifierHeight /\ Known(h)
                    /\ \A k \in VerifierHeight .. h - 1 : ~Known(k)
    IN  [owner |-> s, blockHeight |-> VerifierHeight,
         previousBlockHash |-> blocks[first].prev,
         currentEpochId |-> 1, nextEpochId |-> 2, blockProducers |-> 1]

\* ValidateHeader: the hash is computed from the hash of the verifier's block
\* and from the header with its approvals, and a block that has another one
\* changes nothing; own tells that the node that answers gives the hash that
\* will be computed.  Any other block is the verifier's new block, also when a
\* check fails after that.  Approvals are signatures over the hash of the
\* parent or, after a gap, over its height, and are compared with what the
\* verifier has.  fetched tells whether the block producers were answered.
ValidateHeader(v, h, approvals, own, fetched) ==
    LET b       == blocks[h]
        onChain == v.previousBlockHash = b.prev /\ approvals = b.approvals
        moved   == [v EXCEPT !.blockHeight = h,
                             !.previousBlockHash = IF onChain THEN h ELSE OffChain]
        entered == [moved EXCEPT !.currentEpochId = b.epoch,
                                 !.nextEpochId = b.epoch + 1,
                                 !.blockProducers = b.epoch]
        new     == IF b.epoch = v.nextEpochId THEN entered ELSE moved
        signed  == IF b.prev + 1 = h THEN v.previousBlockHash = b.prev
                   ELSE v.blockHeight = b.prev
    IN  IF ~onChain /\ ~own
        THEN [v |-> v, ok |-> FALSE]
        ELSE IF \/ b.epoch \notin {v.currentEpochId, v.nextEpochId}
                \/ b.epoch = v.nextEpochId /\ ~fetched
        THEN [v |-> moved, ok |-> FALSE]
        ELSE [v |-> new, ok |-> signed /\ Approved(approvals, Stakes[new.blockProducers])]

-----------------------------------------------------------------------------
(* The relay and its subscriptions.                                        *)

\* A subscription that nobody listens to any more and that is stuck.
Dead(s) ==
    \/ sub[s].pc = "done"
    \/ /\ relay.live # s
       /\ \/ sub[s].pc \in {"syncError", "error"}
          \/ /\ sub[s].pc \in {"message", "seqError"}
             /\ sub[s].ended \/ Len(sub[s].queue) = Ahead

\* Mutant of Subscribe: the verifier is created once.
SubscribeKeeps ==
    /\ relay.pc = "start"
    /\ \E s \in Subs :
          /\ Dead(s) /\ \A t \in 1 .. s - 1 : ~Dead(t)
          /\ relay' = [pc |-> "run", live |-> s, srcMsg |-> <<>>]
          /\ verifier' = CASE ~verified             -> NoVerifier
                           [] verifier = NoVerifier -> NewVerifier(s)
                           [] OTHER                 -> [verifier EXCEPT !.owner = s]
          /\ sub' = [sub EXCEPT ![s] =
                [NoSub EXCEPT !.pc = IF verified THEN "sync" ELSE "receive",
                              !.seq = link.rxSeq + 1, !.height = link.rxHeight,
                              !.pos = IF verified THEN VerifierHeight ELSE link.rxHeight]]
    /\ UNCHANGED <<blocks, verified, head, link, sent, faults>>

\* Relay.Start and Receiver.Subscribe, from the status of the link.
Subscribe ==
    /\ relay.pc = "start"
    /\ \E s \in Subs :
          /\ Dead(s) /\ \A t \in 1 .. s - 1 : ~Dead(t)
          /\ relay' = [pc |-> "run", live |-> s, srcMsg |-> <<>>]
          /\ verifier' = IF verified THEN NewVerifier(s) ELSE NoVerifier
          /\ sub' = [sub EXCEPT ![s] =
                [NoSub EXCEPT !.pc = IF verified THEN "sync" ELSE "receive",
                              !.seq = link.rxSeq + 1, !.height = link.rxHeight,
                              !.pos = IF verified THEN VerifierHeight ELSE link.rxHeight]]
    /\ UNCHANGED <<blocks, verified, head, link, sent, faults>>

\* The block producers are not answered: Start returns, and old
\* subscriptions are left without a verifier.
SubscribeFail ==
    /\ relay.pc = "start" /\ verified
    /\ Fault
    /\ verifier' = NoVerifier
    /\ UNCHANGED <<blocks, verified, head, link, relay, sub, sent>>

\* A block three below the newest one is fetched: MonitorBlockHeight.
Available(h) == h + 3 <= head

\* The approvals in the block of a height, as a node may answer it.
Answers(h) == {blocks[h].approvals} \cup OtherApprovals

\* What the receiver sees of an answer is not what is on the chain.
Wrong(h, approvals, own, fetched) == approvals # blocks[h].approvals \/ own \/ ~fetched

MaybeFault(wrong) ==
    IF wrong THEN Fault ELSE UNCHANGED faults

\* Mutant of Target: the verifier is given the block of the link's height too.
TargetAtHeight(s) == sub[s].height

\* The target of SyncHeader.
Target(s) == sub[s].height - 1

\* Where a subscription goes on after the block at pos.
Synced(s) ==
    [sub[s] EXCEPT !.pc = IF sub[s].pos >= Target(s) /\ Known(sub[s].pos)
                          THEN "receive" ELSE "sync",
                   !.pos = IF sub[s].pos >= Target(s) /\ Known(sub[s].pos)
                           THEN sub[s].height ELSE @ + 1]

\* SyncHeader: the blocks up to the first one that is not below the target are
\* given to the verifier, and what it says of them is ignored.  The verifier
\* is the one of this subscription even after it was replaced.
SyncHeader(s) ==
    /\ sub[s].pc = "sync" /\ Available(sub[s].pos)
    /\ LET h == sub[s].pos IN
         \/ /\ ~Known(h) \/ verifier.owner # s
            /\ UNCHANGED <<verifier, faults>>
         \/ /\ Known(h) /\ verifier.owner = s
            /\ \E approvals \in Answers(h), own, fetched \in BOOLEAN :
                  /\ MaybeFault(Wrong(h, approvals, own, fetched))
                  /\ verifier' = ValidateHeader(verifier, h, approvals, own, fetched).v
    /\ sub' = [sub EXCEPT ![s] = Synced(s)]
    /\ UNCHANGED <<blocks, verified, head, link, relay, sent>>

\* A block cannot be fetched: SyncHeader returns the error.
SyncFail(s) ==
    /\ sub[s].pc = "sync" /\ Available(sub[s].pos)
    /\ Fault
    /\ sub' = [sub EXCEPT ![s].pc = "syncError"]
    /\ UNCHANGED <<blocks, verified, head, link, relay, verifier, sent>>

\* Mutant of Scans: the stages do not wait for each other.
ScansUnbounded(s) ==
    /\ sub[s].pc \in {"receive", "message", "seqError"} /\ ~sub[s].ended
    /\ Available(sub[s].pos)

\* The stages of ReceiveBlocks before its loop work on.
Scans(s) ==
    /\ sub[s].pc \in {"receive", "message", "seqError"} /\ ~sub[s].ended
    /\ Len(sub[s].queue) < Ahead /\ Available(sub[s].pos)

\* ReceiveBlocks: the next block is validated by the verifier of the
\* receiver, if it has one.  An error is the last item.
Scan(s) ==
    /\ Scans(s)
    /\ LET h == sub[s].pos IN
         \/ /\ ~Known(h)
            /\ sub' = [sub EXCEPT ![s] = [sub[s] EXCEPT !.pos = @ + 1]]
            /\ UNCHANGED <<verifier, faults>>
         \/ /\ Known(h)
            /\ \E approvals \in Answers(h), own, fetched \in BOOLEAN :
                  LET item   == [height |-> h, approvals |-> approvals]
                      result == IF verifier = NoVerifier THEN [v |-> verifier, ok |-> TRUE]
                                ELSE ValidateHeader(verifier, h, approvals, own, fetched)
                  IN  /\ MaybeFault(Wrong(h, approvals, own, fetched))
                      /\ verifier' = result.v
                      /\ sub' = [sub EXCEPT ![s] = [sub[s] EXCEPT
                            !.pos = @ + 1, !.ended = ~result.ok,
                            !.queue = Append(@, IF result.ok THEN item ELSE Error)]]
    /\ UNCHANGED <<blocks, verified, head, link, relay, sent>>

\* A block or its receipts cannot be fetched.
ScanFail(s) ==
    /\ Scans(s)
    /\ Fault
    /\ sub' = [sub EXCEPT ![s] = [sub[s] EXCEPT !.ended = TRUE, !.queue = Append(@, Error)]]
    /\ UNCHANGED <<blocks, verified, head, link, relay, verifier, sent>>

\* The events of a block that are the next ones, from seq.
NextEvents(events, seq) ==
    LET new == Keep(events, {i \in DOMAIN events : events[i] >= seq})
        n   == Max({k \in 0 .. Len(new) : \A i \in 1 .. k : new[i] = seq + i - 1})
    IN  SubSeq(new, 1, n)

\* The loop of ReceiveBlocks: events after a gap are an error, and the ones
\* before it in the same block are dropped.
ProcessItem(s, item, events, next) ==
    LET gap == \E i \in DOMAIN events : events[i] >= sub[s].seq + Len(next)
        msg == [i \in DOMAIN next |-> [height |-> item.height, seq |-> next[i]]]
    IN  sub' = [sub EXCEPT ![s] = [sub[s] EXCEPT
            !.queue = Tail(@), !.seq = @ + Len(next),
            !.block = IF gap \/ next = <<>> THEN Error ELSE item,
            !.msg = IF gap THEN <<>> ELSE msg,
            !.pc = IF gap THEN "seqError"
                   ELSE IF next # <<>> THEN "message" ELSE "receive"]]

\* (A value bound by \E in a set of one is evaluated once by TLC.)
Process(s) ==
    /\ sub[s].pc = "receive" /\ sub[s].queue # <<>>
    /\ \E item \in {Head(sub[s].queue)} :
         \/ /\ item = Error
            /\ sub' = [sub EXCEPT ![s] = [sub[s] EXCEPT !.queue = Tail(@), !.pc = "error"]]
         \/ /\ item # Error
            /\ \E events \in {EventsAt(item.height)} :
               \E next \in {NextEvents(events, sub[s].seq)} :
                  ProcessItem(s, item, events, next)
    /\ UNCHANGED <<blocks, verified, head, link, relay, verifier, sent, faults>>

\* Mutant of SendMessage: the message is dropped when the relay is busy.
SendMessageDrops(s) ==
    /\ sub[s].pc = "message" /\ relay.pc = "run" /\ relay.live = s
    /\ relay' \in {relay, [relay EXCEPT !.srcMsg = @ \o sub[s].msg]}
    /\ sub' = [sub EXCEPT ![s] =
          [sub[s] EXCEPT !.pc = "receive", !.msg = <<>>, !.block = Error]]
    /\ sent' = sent \cup {sub[s].block}
    /\ UNCHANGED <<blocks, verified, head, link, verifier, faults>>

\* The receipts go to the relay of this subscription.
SendMessage(s) ==
    /\ sub[s].pc = "message" /\ relay.pc = "run" /\ relay.live = s
    /\ relay' = [relay EXCEPT !.srcMsg = @ \o sub[s].msg]
    /\ sub' = [sub EXCEPT ![s] =
          [sub[s] EXCEPT !.pc = "receive", !.msg = <<>>, !.block = Error]]
    /\ sent' = sent \cup {sub[s].block}
    /\ UNCHANGED <<blocks, verified, head, link, verifier, faults>>

\* The relay takes the error and returns.  The subscription goes on, unless
\* ReceiveBlocks has returned.
SendError(s) ==
    /\ sub[s].pc \in {"syncError", "seqError", "error"}
    /\ relay.pc = "run" /\ relay.live = s
    /\ relay' = [pc |-> "start", live |-> 0, srcMsg |-> <<>>]
    /\ sub' = [sub EXCEPT ![s] =
         CASE sub[s].pc = "syncError" -> [@ EXCEPT !.pc = "receive", !.pos = sub[s].height]
           [] sub[s].pc = "seqError"  -> [@ EXCEPT !.pc = "receive"]
           [] sub[s].pc = "error"     -> NoSub]
    /\ UNCHANGED <<blocks, verified, head, link, verifier, sent, faults>>

-----------------------------------------------------------------------------
(* The relay, ICON's BMC, and the chain.                                   *)

\* filterSrcMsg: the receipts of the link's height or later that are new ...
Filtered(msg) ==
    Keep(msg, {i \in DOMAIN msg : msg[i].height >= link.rxHeight
                                  /\ msg[i].seq > link.rxSeq})

\* ... which must follow rxSeq one by one.
Missing(msg) == \E i \in DOMAIN msg : msg[i].seq # link.rxSeq + i

\* One turn of the relay: the first new receipt is relayed, and more of them
\* are several such turns.  A missing event ends Start.
Relay ==
    /\ relay.pc = "run"
    /\ \E msg \in {Filtered(relay.srcMsg)} :
         IF Missing(msg)
         THEN /\ relay' = [pc |-> "start", live |-> 0, srcMsg |-> <<>>]
              /\ UNCHANGED link
         ELSE /\ msg # <<>>
              /\ relay' = [relay EXCEPT !.srcMsg = msg]
              /\ link' = [link EXCEPT !.rxSeq = @ + 1, !.rxHeight = msg[1].height]
    /\ UNCHANGED <<blocks, verified, head, verifier, sub, sent, faults>>

\* BTPMessageCenter.setLinkRxHeight, an operation of the owner.
SetLinkRxHeight ==
    /\ Fault
    /\ \E h \in RxHeights : link' = [link EXCEPT !.rxHeight = h, !.set = TRUE]
    /\ UNCHANGED <<blocks, verified, head, relay, verifier, sub, sent>>

NewBlock ==
    /\ head < Len(blocks) + 3
    /\ head' = head + 1
    /\ UNCHANGED <<blocks, verified, link, relay, verifier, sub, sent, faults>>

\* The relay process is restarted.
Crash ==
    /\ Fault
    /\ relay' = [pc |-> "start", live |-> 0, srcMsg |-> <<>>]
    /\ verifier' = NoVerifier
    /\ sub' = [s \in Subs |-> NoSub]
    /\ UNCHANGED <<blocks, verified, head, link, sent>>

SubStep(s) == \/ SyncHeader(s) \/ Scan(s) \/ Process(s)
              \/ SendMessage(s) \/ SendError(s)

Step == Subscribe \/ Relay \/ NewBlock \/ \E s \in Subs : SubStep(s)

Next ==
    \/ Step
    \/ SubscribeFail
    \/ \E s \in Subs : SyncFail(s) \/ ScanFail(s)
    \/ SetLinkRxHeight
    \/ Crash

Spec == Init /\ [][Next]_vars

\* Some goroutine that can go on does, and the chain grows.
FairSpec == Spec /\ WF_vars(Step)

-----------------------------------------------------------------------------
(* Properties.                                                             *)

\* The block before the link's height exists: SyncHeader can stop at it.
TargetKnown == ~verified \/ Known(link.rxHeight - 1)

\* On an honest chain and without failures the verifier is at the parent of
\* each block that it is given: no subscription ends with an error, whatever
\* heights have no block, wherever an epoch ends, and however far the
\* pipeline is ahead.
NoFalseAlarm ==
    faults = 0 /\ Known(StartHeight - 1) =>
        \A s \in Subs : /\ sub[s].pc \notin {"syncError", "seqError", "error"}
                        /\ ~sub[s].ended

\* More than two thirds of the stake of the producers in the list of approvals,
\* who are those of the epoch of the block, approved what was answered: of all
\* the stake of the epoch if the list is as long as it should be.
Good(b) ==
    LET stakes == Stakes[blocks[b.height].epoch]
        listed == DOMAIN b.approvals \cap DOMAIN stakes
    IN  3 * StakeOf(stakes, {i \in listed : b.approvals[i]})
            > 2 * StakeOf(stakes, listed)

\* Every block whose events reach a relay was approved by more than two thirds
\* of the stake that its approvals list, by the stakes of its own epoch,
\* although SyncHeader ignores blocks that fail, the producers of an epoch may
\* be fetched late, a node may answer blocks with other approvals and another
\* hash, and old subscriptions move the verifier.  (A list that is too short
\* passes with less than two thirds of the stake of the epoch.)
SentApproved ==
    verified => \A b \in sent : Good(b)

\* Unless the owner sets the height of the link, the relay never misses an
\* event: a subscription that failed is never the one of the running relay.
NothingMissing ==
    ~link.set /\ relay.pc = "run" => ~Missing(Filtered(relay.srcMsg))

\* A verifier has the producers of its epoch, and the next epoch follows it.
EpochSound(v) ==
    /\ v.owner # 0
    /\ v.blockProducers = v.currentEpochId
    /\ v.nextEpochId = v.currentEpochId + 1

\* The relay that runs has a subscription, and there is a verifier, of some
\* subscription, if and only if one is configured.
VerifierSound ==
    /\ relay.pc = "run" => relay.live \in Subs
    /\ relay.pc = "run" /\ verified => verifier # NoVerifier
    /\ verifier # NoVerifier => verified /\ EpochSound(verifier)

\* What waits in the subscription of the relay is approved, so that only
\* approved blocks are sent.
WaitingApproved ==
    /\ SentApproved
    /\ verified /\ relay.pc = "run" =>
          LET sb == sub[relay.live]
          IN  /\ \A i \in 1 .. Len(sb.queue) : sb.queue[i] = Error \/ Good(sb.queue[i])
              /\ sb.pc = "message" => Good(sb.block)

\* The events that the relay has follow one another and start no later than
\* the link expects, and those of its subscription follow them.
EventsContinue ==
    ~link.set /\ relay.pc = "run" =>
        LET sb    == sub[relay.live]
            src   == relay.srcMsg
            first == sb.seq - Len(sb.msg)
        IN  /\ \A i \in 1 .. Len(src) : src[i].seq = src[1].seq + i - 1
            /\ src # <<>> => src[1].seq <= link.rxSeq + 1
            /\ \A i \in 1 .. Len(sb.msg) : sb.msg[i].seq = first + i - 1
            /\ sb.pc # "seqError" =>
                  IF src = <<>> THEN first <= link.rxSeq + 1
                  ELSE first = src[Len(src)].seq + 1

\* Not below the height of the link, nor below what the relay has.
NotBelow(h) ==
    /\ link.rxHeight <= h
    /\ \A i \in 1 .. Len(relay.srcMsg) : relay.srcMsg[i].height <= h

\* Heights only grow along the pipeline, so that the height of the link has not
\* passed an event that it still expects.
HeightsContinue ==
    ~link.set /\ relay.pc = "run" =>
        LET sb  == sub[relay.live]
            src == relay.srcMsg
        IN  /\ \A i, j \in 1 .. Len(src) : i < j => src[i].height <= src[j].height
            /\ \A i \in 1 .. Len(src) :
                  src[i].seq > link.rxSeq => src[i].height >= link.rxHeight
            /\ \A i, j \in 1 .. Len(sb.msg) : sb.msg[i].height = sb.msg[j].height
            /\ \A i \in 1 .. Len(sb.msg) :
                  /\ NotBelow(sb.msg[i].height)
                  /\ sb.msg[i].height <= sb.pos
            /\ \A i \in 1 .. Len(sb.queue) : sb.queue[i] # Error =>
                  /\ NotBelow(sb.queue[i].height)
                  /\ sb.queue[i].height < sb.pos
                  /\ \A j \in 1 .. Len(sb.msg) : sb.msg[j].height <= sb.queue[i].height
                  /\ \A j \in 1 .. i - 1 : sb.queue[j].height < sb.queue[i].height
            /\ sb.pc \in {"receive", "message", "seqError", "error"} => NotBelow(sb.pos)
            /\ sb.pc \in {"sync", "syncError"} =>
                  NotBelow(sb.height) /\ sb.queue = <<>> /\ sb.msg = <<>>
            /\ sb.pc = "receive" => sb.msg = <<>>

\* The verifier can go on at the height p: the first block from p on follows
\* its block, and is of its epoch or of the next one.
Follows(p) ==
    \A h \in DOMAIN blocks :
        h >= p /\ Known(h) /\ (\A k \in p .. h - 1 : ~Known(k)) =>
            /\ blocks[h].prev = verifier.previousBlockHash
            /\ blocks[h].epoch \in {verifier.currentEpochId, verifier.nextEpochId}

\* Without a failure there is one subscription, whose verifier follows it, and
\* which is to see exactly the events from its seq on.
Undisturbed ==
    faults = 0 /\ Known(StartHeight - 1) =>
        /\ ~link.set
        /\ \A s \in Subs : s # relay.live => sub[s] = NoSub
        /\ relay.pc = "start" =>
              /\ relay.live = 0 /\ link.rxSeq = 0 /\ link.rxHeight = StartHeight
        /\ relay.pc = "run" =>
              LET sb == sub[relay.live]
              IN  /\ sb.pc \in {"sync", "receive", "message"} /\ ~sb.ended
                  /\ sb.height = StartHeight
                  /\ IF sb.pc = "sync"
                     THEN /\ verified /\ sb.queue = <<>>
                          /\ sb.pos \in VerifierHeight .. StartHeight - 1
                     ELSE sb.pos >= StartHeight
                  /\ verified =>
                        /\ verifier.owner = relay.live
                        /\ Follows(sb.pos)
                        /\ sb.pc # "sync" =>
                              verifier.blockHeight = verifier.previousBlockHash
                  /\ \A i \in 1 .. Len(sb.queue) : sb.queue[i] # Error
                  /\ sb.seq > 0
                  /\ \A h \in DOMAIN blocks : Known(h) =>
                        \A i \in DOMAIN EventsAt(h) :
                           EventsAt(h)[i] >= sb.seq <=>
                              h >= sb.pos \/ \E j \in 1 .. Len(sb.queue) : sb.queue[j].height = h

\* The inductive invariant of the receiver of NEAR.
NearInv ==
    /\ TypeOK /\ VerifierSound /\ WaitingApproved
    /\ EventsContinue /\ HeightsContinue /\ Undisturbed

\* Every event is relayed in the end, with failures, restarts, and old
\* subscriptions that take the verifier away from the new one.  It must hold
\* that no subscription starts at a block after a height without one: the
\* verifier then passes its target, and each new subscription fails again.
EventuallyRelayed ==
    [](~link.set /\ (relay.pc = "start" => TargetKnown))
        => <>(link.rxSeq = MaxSeq)
=============================================================================
