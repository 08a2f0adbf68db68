------------------------------ MODULE AlgoLink ------------------------------
(***************************************************************************)
(* The link between ICON and Algorand (src/cmd/iconbridge/chain/algo).     *)
(* Algorand's BMC keeps no link: the relay process keeps it in the file    *)
(* linkStatus.json, which the sender of the one direction and the receiver *)
(* of the other read, change and write back without a lock.                *)
(*                                                                         *)
(* A step is what happens between two accesses of the file, the verifier   *)
(* or a channel.  Truncating the file and writing it are two steps.  The   *)
(* relay is the one of BTPLink; of ICON only its BMC's side of the link is *)
(* here, the status is that of the latest block, and both chains are fixed *)
(* sequences.                                                              *)
(***************************************************************************)
EXTENDS Integers, Sequences, FiniteSets, Select, FiniteSetsExt, Functions

CONSTANTS
    Chains,           \* what the two chains may hold: the receipts of ICON for
                      \* Algorand, with the events first .. last, and the messages
                      \* to ICON in the rounds of Algorand, 0 for another BMC
    AtomicTxnLimit,   \* atomicTxnLimit
    VerifierRound,    \* configured round of the verifier
    MaxSubs,          \* bound: subscriptions to Algorand that exist at a time
    ReceiptRetries,   \* attempts of tx.Receipt
    MaxFaults         \* bound: calls that fail, blocks that are not answered,
                      \* restarts, and accesses of the file that meet another

Subs  == 1 .. MaxSubs
Procs == 0 .. MaxSubs       \* 0 is the relay to Algorand

\* The messages to ICON in the rounds of Algorand, numbered as they were sent.
MessagesIn(c) == (UNION {Range(c.algo[r]) : r \in DOMAIN c.algo}) \ {0}

ASSUME AlgoAssumption ==
    /\ AtomicTxnLimit \in Nat
    /\ \A c \in Chains :
          /\ c.icon \in Seq([height : Nat, first : Nat \ {0}, last : Nat])
          /\ \A i \in DOMAIN c.icon :
                c.icon[i].last - c.icon[i].first + 1 \in 1 .. AtomicTxnLimit - 1
          /\ \A i, j \in DOMAIN c.icon : i < j => c.icon[i].last < c.icon[j].first
          /\ c.algo \in Seq(Seq(Nat)) /\ VerifierRound \in DOMAIN c.algo
    /\ MaxSubs \in Nat \ {0} /\ ReceiptRetries \in Nat
    /\ MaxFaults \in Nat

\* The BMC of Algorand sends its messages to ICON one after the other, and the
\* link was added after the verifier's round.
ASSUME MessageAssumption ==
    \A c \in Chains :
        /\ IsFiniteSet(MessagesIn(c)) /\ MessagesIn(c) = 1 .. Cardinality(MessagesIn(c))
        /\ \A r, q \in DOMAIN c.algo : \A i \in DOMAIN c.algo[r], j \in DOMAIN c.algo[q] :
              /\ c.algo[r][i] # 0 /\ c.algo[q][j] # 0
              /\ r < q \/ (r = q /\ i < j)
              => c.algo[r][i] < c.algo[q][j]
        /\ \A r \in 1 .. VerifierRound - 1 : \A i \in DOMAIN c.algo[r] : c.algo[r][i] = 0

VARIABLES
    chains,     \* what the two chains hold
    file,       \* linkStatus.json
    access,     \* what each process has read of it and not yet written back
    algo,       \* the relay to Algorand and its transaction
    executed,   \* events that Algorand's BMC was called with, in order
    icon,       \* the relay to ICON, the transactions it sent, and the status of
                \* the link at ICON's BMC
    vr,         \* the receiver's verifier, shared by its subscriptions
    sub,        \* the subscriptions to Algorand
    delivered,  \* messages that ICON's BMC handled, in order
    races,      \* accesses of the file that met another one
    failed,     \* a subscription failed, or a relay or the process was restarted
    faults

i2a  == <<algo, executed>>
a2i  == <<icon, vr, sub, delivered>>
vars == <<chains, file, access, races, i2a, a2i, failed, faults>>

IconReceipts == chains.icon
AlgoBlocks   == chains.algo

\* The numbers from a to b, in order.
Span(a, b) == [i \in 1 .. b - a + 1 |-> a + i - 1]

MaxEvents == IF IconReceipts = <<>> THEN 0 ELSE IconReceipts[Len(IconReceipts)].last
Messages  == MessagesIn(chains)

NoStatus == [rx_seq |-> -1, rx_height |-> -1, tx_seq |-> -1, tx_height |-> -1]
NoAccess == [st |-> "none", data |-> NoStatus]
NoTx     == [first |-> 1, last |-> 0, height |-> 0, newMsg |-> <<>>]
NoSub    == [pc |-> "done", seq |-> 0, height |-> 0, round |-> 0,
             todo |-> <<>>, receipts |-> <<>>]

Stopped    == [pc |-> "start", seq |-> 0, pos |-> 0, height |-> 0, srcMsg |-> <<>>,
               txBlockHeight |-> 0, tx |-> NoTx, retry |-> 0]
NewReceiver == [round |-> VerifierRound, hash |-> VerifierRound - 1]

\* What the file may hold, a receipt of ICON or what is left of it, and a
\* receipt of Algorand.
Status  == [rx_seq : Nat, rx_height : Nat, tx_seq : Nat, tx_height : 0 .. Len(AlgoBlocks)]
Receipt == {r \in [height : Nat, first : 1 .. MaxEvents, last : 1 .. MaxEvents] :
                r.last - r.first + 1 \in 1 .. AtomicTxnLimit - 1}
Labeled == [height : 0 .. Len(AlgoBlocks), seq : Nat, msg : Messages]

\* The relay to Algorand with its transaction, the relay to ICON, and a
\* subscription.
Tx     == [first : Nat \ {0}, last : 0 .. MaxEvents, height : Nat, newMsg : Seq(Receipt)]
ToAlgo == [pc : {"start", "run", "send", "seq", "height"}, seq : Nat,
           pos : 0 .. Len(IconReceipts), height : Nat, srcMsg : Seq(Receipt),
           txBlockHeight : Nat, retry : 0 .. ReceiptRetries,
           tx : Tx]
ToIcon == [pc : {"start", "run", "wait"}, live : 0 .. MaxSubs, srcMsg : Seq(Labeled),
           newMsg : Seq(Labeled), pool : SUBSET Seq(Labeled),
           rxSeq : Nat, rxHeight : 0 .. Len(AlgoBlocks)]
FromAlgo == [pc : {"done", "loop", "check", "update", "seq", "height", "label",
                   "send", "error"},
             seq : Nat, height : 0 .. Len(AlgoBlocks), round : 0 .. Len(AlgoBlocks),
             todo : Seq(Messages \cup {0}), receipts : Seq(Labeled)]

TypeOK ==
    /\ chains \in Chains
    /\ file \in Status \cup {NoStatus}
    /\ access \in [Procs -> [st : {"none", "read", "truncated"},
                             data : Status \cup {NoStatus}]]
    /\ \A p \in Procs : access[p].st # "none" => access[p].data \in Status
    /\ algo \in ToAlgo /\ executed \in Seq(1 .. MaxEvents)
    /\ icon \in ToIcon /\ delivered \in Seq(Messages)
    /\ vr \in [round : VerifierRound .. Len(AlgoBlocks) + MaxSubs - 1,
               hash : 0 .. Len(AlgoBlocks)]
    /\ sub \in [Subs -> FromAlgo]
    /\ races \in 0 .. MaxFaults /\ faults \in 0 .. MaxFaults /\ failed \in BOOLEAN

\* The file is set up with zeros, and the relay process starts.
Init ==
    /\ chains \in Chains
    /\ file = [rx_seq |-> 0, rx_height |-> 0, tx_seq |-> 0, tx_height |-> 0]
    /\ access = [p \in Procs |-> NoAccess]
    /\ algo = Stopped /\ executed = <<>>
    /\ icon = [pc |-> "start", live |-> 0, srcMsg |-> <<>>, newMsg |-> <<>>,
               pool |-> {}, rxSeq |-> 0, rxHeight |-> 0]
    /\ vr = NewReceiver
    /\ sub = [s \in Subs |-> NoSub]
    /\ delivered = <<>>
    /\ races = 0 /\ failed = FALSE
    /\ faults = 0

-----------------------------------------------------------------------------
(* The file: incrementSeq and updateHeight read all of it, and write all of *)
(* it back with one field changed.                                         *)

\* Counts an access that met another one.
Met(cond) ==
    /\ races' = IF cond THEN races + 1 ELSE races
    /\ races' + faults <= MaxFaults

ReadFile(p) ==
    /\ access[p].st = "none" /\ file # NoStatus
    /\ access' = [access EXCEPT ![p] = [st |-> "read", data |-> file]]
    /\ UNCHANGED <<file, races>>

\* ioutil.WriteFile empties the file first, whatever was written since ...
Truncate(p) ==
    /\ access[p].st = "read"
    /\ Met(file # access[p].data)
    /\ file' = NoStatus
    /\ access' = [access EXCEPT ![p].st = "truncated"]

\* ... and when someone else has written meanwhile the two texts mix.
WriteFile(p, data) ==
    /\ access[p].st = "truncated"
    /\ Met(file # NoStatus)
    /\ file' \in IF file = NoStatus THEN {data} ELSE {data, NoStatus}
    /\ access' = [access EXCEPT ![p] = NoAccess]

\* A read of the file while it is empty is an error.
ReadFails(p) ==
    /\ access[p].st = "none" /\ file = NoStatus
    /\ Met(TRUE)
    /\ UNCHANGED <<file, access>>

-----------------------------------------------------------------------------
(* From ICON to Algorand: the relay and the sender.                        *)

\* Relay.Start: the status is read and ICON is subscribed to.
AlgoStart ==
    /\ algo.pc = "start" /\ file # NoStatus
    /\ algo' = [Stopped EXCEPT !.pc = "run", !.seq = file.rx_seq + 1,
                               !.height = file.rx_height,
                               !.txBlockHeight = file.tx_height]
    /\ UNCHANGED <<file, access, races, executed, a2i, failed, faults>>

\* What is left of a receipt without the events up to seq.
After(r, seq) == [r EXCEPT !.first = IF @ > seq THEN @ ELSE seq + 1]

\* A receipt from ICON, with the events that are to be relayed.
AlgoReceive ==
    /\ algo.pc = "run" /\ algo.pos < Len(IconReceipts)
    /\ LET r == IconReceipts[algo.pos + 1]
       IN  algo' = [algo EXCEPT !.pos = @ + 1,
                      !.srcMsg = IF r.height < algo.height \/ r.last < algo.seq THEN @
                                 ELSE Append(@, After(r, algo.seq - 1))]
    /\ UNCHANGED <<file, access, races, executed, a2i, failed, faults>>

\* filterSrcMsg: the receipts of the link's height or later, with the events
\* after rxSeq ...
Filtered(msg, link) ==
    LET new == Keep(msg, {i \in DOMAIN msg : /\ msg[i].height >= link.rx_height
                                             /\ msg[i].last > link.rx_seq})
    IN  [i \in DOMAIN new |-> After(new[i], link.rx_seq)]

\* ... which must follow rxSeq one by one.
Missing(msg, link) ==
    \E i \in DOMAIN msg :
        msg[i].first # 1 + IF i = 1 THEN link.rx_seq ELSE msg[i - 1].last

\* Number of receipts, from the first, that Segment takes: it stops at the
\* one that would fill the group.
Taken(msg) ==
    Max({n \in 0 .. Len(msg) : \A k \in 1 .. n :
            msg[k].last - msg[1].first + 1 < AtomicTxnLimit})

\* Mutant of Rest: nothing is left when all receipts fit.
RestNone(msg) == SubSeq(msg, Taken(msg) + 1, Len(msg))

\* The receipts that Segment leaves for later: all of them, if all fit.
Rest(msg) ==
    IF Taken(msg) = Len(msg) THEN msg ELSE SubSeq(msg, Taken(msg) + 1, Len(msg))

\* One turn of the relay: status, filter and Segment.  A missing event ends
\* Start, and the relay is started again.
AlgoRelay ==
    /\ algo.pc = "run" /\ file # NoStatus
    /\ file.tx_height >= algo.txBlockHeight
    /\ LET msg == Filtered(algo.srcMsg, file) IN
         IF Missing(msg, file)
         THEN algo' = Stopped
         ELSE /\ msg # <<>>
              /\ algo' = [algo EXCEPT
                    !.pc = "send", !.srcMsg = msg,
                    !.tx = [first |-> msg[1].first, last |-> msg[Taken(msg)].last,
                            height |-> msg[1].height, newMsg |-> Rest(msg)]]
    /\ UNCHANGED <<file, access, races, executed, a2i, failed, faults>>

\* Send: one call of the BMC for each event, all or none.
Send ==
    /\ algo.pc = "send"
    /\ executed' = executed \o Span(algo.tx.first, algo.tx.last)
    /\ algo' = [algo EXCEPT !.pc = "seq", !.retry = 0]
    /\ UNCHANGED <<file, access, races, a2i, failed, faults>>

\* Mutant of SendFail: the relay goes on to the receipt as if Send had succeeded.
SendFailIgnored ==
    /\ algo.pc = "send" /\ races + faults < MaxFaults
    /\ faults' = faults + 1
    /\ algo' = [algo EXCEPT !.pc = "seq", !.retry = 0]
    /\ UNCHANGED <<file, access, races, executed, a2i, failed>>

\* Send fails, before the calls or after them, and is repeated.
SendFail ==
    /\ algo.pc = "send" /\ races + faults < MaxFaults
    /\ faults' = faults + 1
    /\ executed' \in {executed, executed \o Span(algo.tx.first, algo.tx.last)}
    /\ UNCHANGED <<file, access, races, algo, a2i, failed>>

\* tx.Receipt: incrementSeq("rx_seq"), once for the transaction ...
ReceiptSeq ==
    /\ algo.pc = "seq"
    /\ \/ ReadFile(0) /\ UNCHANGED algo
       \/ Truncate(0) /\ UNCHANGED algo
       \/ /\ WriteFile(0, [access[0].data EXCEPT !.rx_seq = @ + 1])
          /\ algo' = [algo EXCEPT !.pc = "height"]
    /\ UNCHANGED <<executed, a2i, failed, faults>>

\* ... and updateHeight("rx_height"); the relay goes on with newMsg, and with
\* a block height of 0 since Send changed a copy of the transaction.
ReceiptHeight ==
    /\ algo.pc = "height"
    /\ \/ ReadFile(0) /\ UNCHANGED algo
       \/ Truncate(0) /\ UNCHANGED algo
       \/ /\ WriteFile(0, [access[0].data EXCEPT !.rx_height = algo.tx.height])
          /\ algo' = [algo EXCEPT !.pc = "run", !.srcMsg = algo.tx.newMsg,
                                  !.txBlockHeight = 0, !.tx = NoTx]
    /\ UNCHANGED <<executed, a2i, failed, faults>>

\* Receipt fails and is called again as a whole, until the relay gives up.
ReceiptFail ==
    /\ algo.pc \in {"seq", "height"}
    /\ ReadFails(0)
    /\ algo' = IF algo.retry < ReceiptRetries
               THEN [algo EXCEPT !.pc = "seq", !.retry = @ + 1]
               ELSE [algo EXCEPT !.pc = "run", !.tx = NoTx]
    /\ UNCHANGED <<executed, a2i, failed, faults>>

AlgoStep == \/ AlgoStart \/ AlgoReceive \/ AlgoRelay \/ Send \/ ReceiptSeq
            \/ ReceiptHeight \/ ReceiptFail

-----------------------------------------------------------------------------
(* From Algorand to ICON: the subscriptions, and the relay.                *)

Goto(s, pc) == sub' = [sub EXCEPT ![s].pc = pc]

\* Relay.Start: a subscription from the status of ICON's BMC.
IconStart ==
    /\ icon.pc = "start"
    /\ \E s \in Subs :
          /\ sub[s] = NoSub /\ \A t \in 1 .. s - 1 : sub[t] # NoSub
          /\ sub' = [sub EXCEPT ![s] = [NoSub EXCEPT !.pc = "loop",
                        !.seq = icon.rxSeq + 1, !.height = icon.rxHeight]]
          /\ icon' = [icon EXCEPT !.pc = "run", !.live = s, !.srcMsg = <<>>]
    /\ UNCHANGED <<file, access, races, i2a, vr, delivered, failed, faults>>

\* Mutant of FetchBlock: the newest block is fetched too.
FetchBlockNewest(s) ==
    /\ sub[s].pc = "loop" /\ vr.round <= Len(AlgoBlocks)
    /\ sub' = [sub EXCEPT ![s].pc = "check", ![s].round = vr.round]
    /\ UNCHANGED <<file, access, races, i2a, icon, vr, delivered, failed, faults>>

\* The block of the verifier's round is fetched, once a later one is there.
FetchBlock(s) ==
    /\ sub[s].pc = "loop" /\ vr.round < Len(AlgoBlocks)
    /\ \/ /\ sub' = [sub EXCEPT ![s].pc = "check", ![s].round = vr.round]
          /\ UNCHANGED <<failed, faults>>
       \/ /\ races + faults < MaxFaults
          /\ faults' = faults + 1 /\ failed' = TRUE
          /\ Goto(s, "error")
    /\ UNCHANGED <<file, access, races, i2a, icon, vr, delivered>>

\* Its parent is compared with the verifier's block ...
CheckParent(s) ==
    /\ sub[s].pc = "check"
    /\ IF vr.hash = sub[s].round - 1
       THEN Goto(s, "update") /\ UNCHANGED failed
       ELSE Goto(s, "error") /\ failed' = TRUE
    /\ UNCHANGED <<file, access, races, i2a, icon, vr, delivered, faults>>

\* Mutant of UpdateVerifier: the round after the height of the link is
\* taken for relayed too.
UpdateVerifierSkips(s) ==
    /\ sub[s].pc = "update"
    /\ vr' = [round |-> vr.round + 1, hash |-> sub[s].round]
    /\ LET skip == sub[s].round <= sub[s].height + 1 \/ AlgoBlocks[sub[s].round] = <<>>
       IN  sub' = [sub EXCEPT ![s].pc = IF skip THEN "loop" ELSE "seq",
                       ![s].todo = IF skip THEN <<>> ELSE AlgoBlocks[sub[s].round],
                       ![s].receipts = <<>>]
    /\ UNCHANGED <<file, access, races, i2a, icon, delivered, failed, faults>>

\* Mutant of UpdateVerifier: the round of the link's height is looked at again.
UpdateVerifierAgain(s) ==
    /\ sub[s].pc = "update"
    /\ vr' = [round |-> vr.round + 1, hash |-> sub[s].round]
    /\ LET skip == sub[s].round < sub[s].height \/ AlgoBlocks[sub[s].round] = <<>>
       IN  sub' = [sub EXCEPT ![s].pc = IF skip THEN "loop" ELSE "seq",
                       ![s].todo = IF skip THEN <<>> ELSE AlgoBlocks[sub[s].round],
                       ![s].receipts = <<>>]
    /\ UNCHANGED <<file, access, races, i2a, icon, delivered, failed, faults>>

\* ... and the verifier moved on, without a lock: of two increments at a time
\* one may be lost.  The block is looked at afterwards, if it is not one of
\* those up to the height of the link.
UpdateVerifier(s) ==
    /\ sub[s].pc = "update"
    /\ \E round \in {vr.round + 1} \cup ({vr.round} \cap {sub[s].round + 1}) :
          vr' = [round |-> round, hash |-> sub[s].round]
    /\ LET skip == sub[s].round <= sub[s].height \/ AlgoBlocks[sub[s].round] = <<>>
       IN  sub' = [sub EXCEPT ![s].pc = IF skip THEN "loop" ELSE "seq",
                       ![s].todo = IF skip THEN <<>> ELSE AlgoBlocks[sub[s].round],
                       ![s].receipts = <<>>]
    /\ UNCHANGED <<file, access, races, i2a, icon, delivered, failed, faults>>

\* getRelayReceipts, one message: incrementSeq("tx_seq") ...
ExtractSeq(s) ==
    /\ sub[s].pc = "seq"
    /\ \/ ReadFile(s) /\ UNCHANGED sub
       \/ Truncate(s) /\ UNCHANGED sub
       \/ /\ WriteFile(s, [access[s].data EXCEPT !.tx_seq = @ + 1])
          /\ Goto(s, "height")
    /\ UNCHANGED <<i2a, icon, vr, delivered, failed, faults>>

\* ... updateHeight("tx_height") ...
ExtractHeight(s) ==
    /\ sub[s].pc = "height"
    /\ \/ ReadFile(s) /\ UNCHANGED sub
       \/ Truncate(s) /\ UNCHANGED sub
       \/ /\ WriteFile(s, [access[s].data EXCEPT !.tx_height = sub[s].round])
          /\ Goto(s, "label")
    /\ UNCHANGED <<i2a, icon, vr, delivered, failed, faults>>

\* ... and getEventFromMsg, which reads tx_seq back as the sequence number of
\* the message; it must be the next of the subscription.
Label(s) ==
    /\ sub[s].pc = "label" /\ file # NoStatus
    /\ IF Head(sub[s].todo) = 0 \/ file.tx_seq # sub[s].seq
       THEN Goto(s, "error") /\ failed' = TRUE
       ELSE /\ sub' = [sub EXCEPT
                 ![s].seq = @ + 1,
                 ![s].todo = Tail(@),
                 ![s].receipts = Append(@, [height |-> sub[s].round, seq |-> sub[s].seq,
                                            msg |-> Head(sub[s].todo)]),
                 ![s].pc = IF Len(sub[s].todo) = 1 THEN "send" ELSE "seq"]
            /\ UNCHANGED failed
    /\ UNCHANGED <<file, access, races, i2a, icon, vr, delivered, faults>>

\* The file is not readable: the block is given up.
ExtractFail(s) ==
    /\ sub[s].pc \in {"seq", "height", "label"}
    /\ ReadFails(s)
    /\ Goto(s, "error") /\ failed' = TRUE
    /\ UNCHANGED <<i2a, icon, vr, delivered, faults>>

\* The receipts go to the relay of this subscription, if it still runs.
SendReceipts(s) ==
    /\ sub[s].pc = "send" /\ icon.pc = "run" /\ icon.live = s
    /\ icon' = [icon EXCEPT !.srcMsg = @ \o sub[s].receipts]
    /\ sub' = [sub EXCEPT ![s].pc = "loop", ![s].round = 0, ![s].receipts = <<>>]
    /\ UNCHANGED <<file, access, races, i2a, vr, delivered, failed, faults>>

\* An error goes to the relay, which returns; the subscription goes on.
SendError(s) ==
    /\ sub[s].pc = "error" /\ icon.pc = "run" /\ icon.live = s
    /\ icon' = [icon EXCEPT !.pc = "start", !.srcMsg = <<>>]
    /\ sub' = [sub EXCEPT ![s].pc = "loop", ![s].round = 0, ![s].todo = <<>>,
                          ![s].receipts = <<>>]
    /\ UNCHANGED <<file, access, races, i2a, vr, delivered, failed, faults>>

\* The messages of msg, each in a receipt of its own, that ICON's BMC has not
\* handled according to its status.
NewToIcon(msg) ==
    Keep(msg, {i \in DOMAIN msg : /\ msg[i].height >= icon.rxHeight
                                  /\ msg[i].seq > icon.rxSeq})

\* They follow its status one by one.
Follows(msg) == \A i \in DOMAIN msg : msg[i].seq = icon.rxSeq + i

\* One turn of the relay: status, filterSrcMsg, Segment, which takes as many
\* receipts as their size allows and leaves the others, or all if all fit,
\* and Send, which may be repeated.  A missing message ends Start.
IconRelay ==
    /\ icon.pc = "run" /\ icon.srcMsg # <<>>
    /\ LET msg == NewToIcon(icon.srcMsg) IN
         \/ /\ ~ Follows(msg)
            /\ icon' = [icon EXCEPT !.pc = "start", !.srcMsg = <<>>]
            /\ failed' = TRUE
         \/ /\ Follows(msg) /\ msg = <<>>
            /\ icon' = [icon EXCEPT !.srcMsg = <<>>]
            /\ UNCHANGED failed
         \/ /\ Follows(msg)
            /\ \E n \in 1 .. Len(msg) :
                  icon' = [icon EXCEPT
                      !.pc = "wait", !.srcMsg = msg,
                      !.newMsg = IF n = Len(msg) THEN msg ELSE SubSeq(msg, n + 1, Len(msg)),
                      !.pool = @ \cup {SubSeq(msg, 1, n)}]
            /\ UNCHANGED failed
    /\ UNCHANGED <<file, access, races, i2a, vr, sub, delivered, faults>>

\* tx.Receipt finds the transaction, whether it was executed or failed.
IconReceipt ==
    /\ icon.pc = "wait"
    /\ icon' = [icon EXCEPT !.pc = "run", !.srcMsg = icon.newMsg, !.newMsg = <<>>]
    /\ UNCHANGED <<file, access, races, i2a, vr, sub, delivered, failed, faults>>

\* The relay gives the receipt up; the transaction may still be executed.
IconGiveUp ==
    /\ icon.pc = "wait"
    /\ icon' = [icon EXCEPT !.pc = "run", !.newMsg = <<>>]
    /\ UNCHANGED <<file, access, races, i2a, vr, sub, delivered, failed, faults>>

\* handleRelayMessage of a transaction, however long ago it was sent.  A
\* receipt below the height so far is passed over, as are messages up to
\* rxSeq.  Send may have sent the transaction more than once.
IconExecute ==
    \E msg \in icon.pool :
        LET height == Max({icon.rxHeight} \cup {msg[i].height : i \in DOMAIN msg})
            new    == NewToIcon(Keep(msg, {i \in DOMAIN msg : \A j \in 1 .. i - 1 :
                                               msg[j].height <= msg[i].height}))
        IN  /\ Follows(new)
            /\ icon' = [icon EXCEPT !.rxSeq = @ + Len(new), !.rxHeight = height]
            /\ delivered' = delivered \o [i \in DOMAIN new |-> new[i].msg]
            /\ UNCHANGED <<file, access, races, i2a, vr, sub, failed, faults>>

\* A transaction is lost, or fails: it runs out of steps, or is reverted for
\* a message that does not follow rxSeq.
IconTxFail ==
    /\ \E msg \in icon.pool : icon' = [icon EXCEPT !.pool = @ \ {msg}]
    /\ UNCHANGED <<file, access, races, i2a, vr, sub, delivered, failed, faults>>

ToIconStep == IconRelay \/ IconReceipt \/ IconGiveUp \/ IconExecute \/ IconTxFail

SubStep(s) == \/ FetchBlock(s) \/ CheckParent(s) \/ UpdateVerifier(s)
              \/ ExtractSeq(s) \/ ExtractHeight(s) \/ Label(s)
              \/ ExtractFail(s) \/ SendReceipts(s) \/ SendError(s)

-----------------------------------------------------------------------------

\* The relay process is restarted: all but the file and the transactions on
\* their way is lost.
Crash ==
    /\ races + faults < MaxFaults
    /\ faults' = faults + 1
    /\ failed' = TRUE
    /\ Met(file = NoStatus)
    /\ access' = [p \in Procs |-> NoAccess]
    /\ algo' = Stopped
    /\ icon' = [icon EXCEPT !.pc = "start", !.live = 0, !.srcMsg = <<>>, !.newMsg = <<>>]
    /\ vr' = NewReceiver
    /\ sub' = [s \in Subs |-> NoSub]
    /\ UNCHANGED <<file, executed, delivered>>

\* What the goroutines do by themselves.
Step ==
    /\ AlgoStep \/ IconStart \/ \E s \in Subs : SubStep(s)
    /\ UNCHANGED chains

Next ==
    \/ Step
    \/ (ToIconStep \/ SendFail \/ Crash) /\ UNCHANGED chains

Spec == Init /\ [][Next]_vars

\* Some goroutine that can go on does: each of them has finitely many steps
\* to take, so none of them needs an assumption of its own.
FairSpec == Spec /\ WF_vars(Step)

-----------------------------------------------------------------------------
(* Properties.                                                             *)

\* As long as the accesses of the file do not meet, no event of ICON is given
\* up: rx_seq counts only events that Algorand's BMC was called with, and
\* they were first called in order, whatever Send did and whenever the
\* process was restarted between Send and Receipt.
NoEventSkipped ==
    races = 0 =>
        /\ file # NoStatus => 1 .. file.rx_seq \subseteq Range(executed)
        /\ \A i \in DOMAIN executed : executed[i] > 1 =>
              \E j \in 1 .. i - 1 : executed[j] = executed[i] - 1

\* As long as the accesses of the file do not meet, ICON's BMC never handles a
\* message of Algorand twice, nor after a later one, with old subscriptions
\* that share the verifier, restarts, and transactions that the relay gave up
\* and that are executed after others took their place.
DeliveredInOrder ==
    races = 0 => \A i, j \in DOMAIN delivered : i < j => delivered[i] < delivered[j]

\* Until a subscription fails or the relay is restarted, ICON's BMC handles
\* every message of Algorand, under the sequence number that Algorand gave it,
\* whichever transactions are lost, repeated or late.
DeliveredComplete ==
    ~failed => \A i \in DOMAIN delivered : delivered[i] = i

\* The contents of the file: what it holds, or held before it was truncated.
Contents ==
    ({file} \cup {access[p].data : p \in {q \in Procs : access[q].st = "truncated"}})
        \ {NoStatus}

\* As long as the accesses do not meet, at most one process has the file
\* truncated, and its rx_seq is the number before the transaction's first
\* event until the receipt counts that one.
FileSound ==
    races = 0 =>
        /\ \A p \in Procs : access[p].st = "truncated" => file = NoStatus
        /\ \A p, q \in Procs :
              access[p].st = "truncated" /\ access[q].st = "truncated" => p = q
        /\ Contents # {}
        /\ \A d \in Contents :
              /\ 1 .. d.rx_seq \subseteq Range(executed)
              /\ algo.pc \in {"send", "seq"} => algo.tx.first = d.rx_seq + 1
        /\ algo.pc = "send" => algo.tx.first <= algo.tx.last
        /\ algo.pc = "seq" => algo.tx.first \in Range(executed)
        /\ NoEventSkipped

\* Message m comes before those of the rounds from r on.
Before(m, r) ==
    \A q \in DOMAIN AlgoBlocks : q >= r =>
        \A i \in DOMAIN AlgoBlocks[q] : AlgoBlocks[q][i] # 0 => m < AlgoBlocks[q][i]

\* The round that a subscription is at.
RoundOf(sb) == IF sb.pc = "loop" THEN vr.round ELSE sb.round

\* The first round from which it may still take messages.
FirstOpen(sb) == IF RoundOf(sb) > sb.height THEN RoundOf(sb) ELSE sb.height + 1

\* What a subscription made of its round so far.
BlockInHand(sb) ==
    LET block == AlgoBlocks[sb.round]
    IN  /\ sb.round \in DOMAIN AlgoBlocks
        /\ sb.round > sb.height /\ sb.round < vr.round
        /\ Len(sb.receipts) + Len(sb.todo) = Len(block)
        /\ \A i \in 1 .. Len(sb.receipts) :
              sb.receipts[i].msg = block[i] /\ sb.receipts[i].height = sb.round
        /\ \A i \in 1 .. Len(sb.todo) : sb.todo[i] = block[Len(sb.receipts) + i]
        /\ sb.pc = "send" <=> sb.todo = <<>>

\* Each subscription moves the verifier once for a block that it fetched, and
\* the verifier is past the rounds in hand.
VerifierMoves ==
    /\ vr.round + Cardinality({s \in Subs : sub[s].pc \in {"check", "update"}})
          <= Len(AlgoBlocks) + MaxSubs - 1
    /\ \A s \in Subs :
          /\ sub[s].pc \in {"check", "update"} => sub[s].round <= vr.round
          /\ sub[s].pc \in {"seq", "height", "label", "send"} => BlockInHand(sub[s])

\* The labelled messages that the relay has and that are on their way to
\* ICON's BMC, and those that its subscription has not sent it yet.
OnTheWay == UNION {Range(msg) : msg \in icon.pool \cup {icon.srcMsg, icon.newMsg}}
InHand   == IF icon.pc = "start" THEN {} ELSE Range(sub[icon.live].receipts)

\* The sequence number that the file has for the next label of subscription
\* sb, if no other subscription takes it.
NextLabel(sb, d) == IF sb.pc \in {"height", "label"} THEN d.tx_seq ELSE d.tx_seq + 1

\* As long as the accesses do not meet, tx_seq is not below any label and no
\* number is taken twice: a subscription that is behind tx_seq labels nothing
\* any more.  Of what may still be handled a higher label is on a later
\* message, and all of it is before the rounds of a subscription that still
\* labels.
LabelsGrow ==
    races = 0 =>
        /\ DeliveredInOrder
        /\ \A i \in 1 .. Len(delivered) : Before(delivered[i], icon.rxHeight + 1)
        /\ \A x \in OnTheWay : Before(x.msg, x.height + 1)
        /\ \A d \in Contents : /\ icon.rxSeq <= d.tx_seq
                               /\ \A x \in OnTheWay \cup InHand : x.seq <= d.tx_seq
        /\ \A x \in OnTheWay \cup InHand : x.seq > icon.rxSeq =>
              /\ \A i \in 1 .. Len(delivered) : delivered[i] < x.msg
              /\ \A y \in OnTheWay \cup InHand : x.seq < y.seq => x.msg < y.msg
        /\ icon.pc # "start" =>
              LET sb == sub[icon.live]
              IN  /\ icon.live \in Subs
                  /\ sb.pc # "error" => \A d \in Contents :
                        /\ sb.seq <= NextLabel(sb, d)
                        /\ sb.seq = NextLabel(sb, d) =>
                              /\ \A i \in 1 .. Len(delivered) :
                                    Before(delivered[i], FirstOpen(sb))
                              /\ \A x \in OnTheWay : x.seq > icon.rxSeq =>
                                    Before(x.msg, FirstOpen(sb))

\* Until something fails there is one subscription, messages are labelled with
\* their own numbers, and the next ones are those it has not looked at.
NoneLeftOut ==
    ~failed =>
        /\ DeliveredComplete
        /\ Len(delivered) = icon.rxSeq
        /\ \A x \in OnTheWay \cup InHand : x.msg = x.seq
        /\ \A s \in Subs : s # icon.live => sub[s] = NoSub
        /\ icon.pc = "start" =>
              /\ icon.live = 0 /\ icon.rxHeight = 0 /\ icon.rxSeq = 0
              /\ icon.pool = {} /\ vr = NewReceiver
        /\ icon.pc # "start" =>
              LET sb == sub[icon.live]
              IN  /\ icon.live \in Subs
                  /\ sb.pc \notin {"error", "done"} /\ sb.height = 0 /\ sb.seq > 0
                  /\ sb.pc \in {"loop", "check", "update"} => sb.receipts = <<>>
                  /\ sb.pc \in {"check", "update"} => sb.round = vr.round
                  /\ sb.pc \in {"seq", "height", "label", "send"} => vr.round = sb.round + 1
                  /\ \A q \in DOMAIN AlgoBlocks : \A i \in DOMAIN AlgoBlocks[q] :
                        AlgoBlocks[q][i] # 0 =>
                           (AlgoBlocks[q][i] >= sb.seq <=>
                              \/ q > RoundOf(sb)
                              \/ q = RoundOf(sb) /\ i > Len(sb.receipts))

\* The inductive invariant of the link to Algorand.
AlgoInv == TypeOK /\ FileSound /\ VerifierMoves /\ LabelsGrow /\ NoneLeftOut

\* While the accesses of the file do not overlap, every event of ICON is
\* relayed in the end, although each transaction counts as one event only.
\* The relay also waits for tx_height, which belongs to the other direction:
\* there an old subscription must not set it back.
EventuallyExecuted ==
    [](/\ races = 0
       /\ \A p, q \in Procs : access[p].st # "none" /\ access[q].st # "none" => p = q
       /\ file # NoStatus => file.tx_height >= algo.txBlockHeight)
        => <>(file.rx_seq = MaxEvents)
=============================================================================
