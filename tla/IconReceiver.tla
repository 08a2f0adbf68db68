---------------------------- MODULE IconReceiver ----------------------------
(***************************************************************************)
(* The relay's receiver of ICON (src/cmd/iconbridge/chain/icon): the main  *)
(* loop of receiveLoop, the goroutines that monitor blocks over a          *)
(* websocket, and the verifier.  They share two buffered channels, and     *)
(* reconnect() empties both from whichever goroutine calls it.             *)
(*                                                                         *)
(* A step is what runs between two operations on a shared channel.  The    *)
(* calls to a node are external: they fail, answer with too few votes, or  *)
(* answer with the block of the chain.                                     *)
(***************************************************************************)
EXTENDS Integers, Sequences, FiniteSets, FiniteSetsExt

CONSTANTS
    MaxMonitors,      \* bound: monitor goroutines that exist at a time
    SyncConcurrency,  \* capacity of the channels, blocks requested at a time
    StartHeight,      \* rxHeight of the link, where the loop starts
    StartSeq,         \* rxSeq of the link, the last event that was relayed
    WithVerifier,     \* whether a verifier may be, and may not be, configured
    VerifierHeight,   \* height of the configured verifier
    ValidatorsAt,     \* validators that vote for the block of a height
    EventHeights,     \* heights of the blocks with an event for the link
    FirstHead,        \* height of the last block when the loop starts
    MaxHeight,        \* bound: last block of the chain
    MaxFaults         \* bound: connections that fail, batches with a request
                      \* that fails, and answers without the votes of the block

Heights  == 1 .. MaxHeight
Monitors == 1 .. MaxMonitors

\* Sequence number of the event in the block of height h.
SeqOf(h) == Cardinality({k \in EventHeights : k <= h})

ASSUME IconAssumption ==
    /\ MaxMonitors \in Nat \ {0} /\ SyncConcurrency \in Nat \ {0}
    /\ MaxHeight \in Nat /\ FirstHead \in Heights
    /\ StartHeight \in Heights /\ EventHeights \subseteq Heights
    /\ StartSeq \in {SeqOf(StartHeight - 1), SeqOf(StartHeight)}
    /\ WithVerifier \subseteq BOOLEAN /\ VerifierHeight \in 1 .. StartHeight
    /\ DOMAIN ValidatorsAt = 1 .. MaxHeight + 1
    /\ \A h \in 1 .. MaxHeight + 1 :
          IsFiniteSet(ValidatorsAt[h]) /\ ValidatorsAt[h] # {}
    /\ MaxFaults \in Nat

VARIABLES
    head,       \* height of the last block of ICON
    pc,         \* where the main loop is
    ret,        \* where the main loop goes on after reconnect()
    next,       \* next
    seq,        \* opts.Seq of Subscribe
    vr,         \* the verifier: next height, and the validators that vote for it
    reconnectCh, btpBlockNotifCh, btpBlockRespCh,   \* the channels
    blockReq,   \* blockReq.Height, shared by the monitors
    monitor,    \* the monitor goroutines
    bn,         \* notification taken and not yet looked at
    requests,   \* number of requests collected, for next, next + 1, ...
    responses,  \* heights of a batch that were answered and are to be used
    cur,        \* the block response that is handled
    taken,      \* heights of the responses that failed monitors took
    faults

mainVars == <<pc, ret, next, seq, vr, bn, requests, responses, cur>>
channels == <<reconnectCh, btpBlockNotifCh, btpBlockRespCh>>
vars == <<mainVars, channels, head, blockReq, monitor, taken, faults>>

Idle       == [st |-> "done", pos |-> 0, canceled |-> TRUE]
NoResponse == [h |-> 0, votes |-> {}]
NoVerifier == [next |-> 0, vals |-> {}]

UseVerifier == vr # NoVerifier

AllValidators == UNION {ValidatorsAt[h] : h \in 1 .. MaxHeight + 1}
Response      == [h : Heights, votes : SUBSET AllValidators]

TypeOK ==
    /\ head \in Heights
    /\ pc \in {"select", "sync", "syncApply", "notif", "collect",
               "moreNotif", "takeNotif", "fetch", "forward", "handle", "moreResp",
               "takeResp", "clear", "drain", "takeDrain", "error"}
    /\ ret \in {"select", "clear"}
    /\ next \in 1 .. MaxHeight + 1
    /\ seq \in 1 .. MaxHeight + 1
    /\ vr \in [next : 0 .. MaxHeight + 1, vals : SUBSET AllValidators]
    /\ reconnectCh \in BOOLEAN
    /\ btpBlockNotifCh \in Seq(Heights)
    /\ Len(btpBlockNotifCh) <= SyncConcurrency
    /\ btpBlockRespCh \in Seq(Response)
    /\ Len(btpBlockRespCh) <= SyncConcurrency
    /\ blockReq \in 1 .. MaxHeight + 1
    /\ monitor \in [Monitors -> [st : {"start", "connect", "open", "send",
                                       "sleep", "drain", "takeDrain", "done"},
                                 pos : 0 .. MaxHeight + 1,
                                 canceled : BOOLEAN]]
    /\ bn \in 0 .. MaxHeight
    /\ requests \in 0 .. SyncConcurrency
    /\ responses \subseteq Heights
    /\ cur \in Response \cup {NoResponse}
    /\ taken \subseteq Heights
    /\ faults \in 0 .. MaxFaults

\* Subscribe and the start of receiveLoop: newVerifier trusts the configured
\* validators, and the first reconnect() finds the channels empty.
Init ==
    /\ head = FirstHead
    /\ pc = "select" /\ ret = "select"
    /\ next = StartHeight
    /\ seq = StartSeq + 1
    /\ \E with \in WithVerifier :
          vr = IF with THEN [next |-> VerifierHeight,
                             vals |-> ValidatorsAt[VerifierHeight]]
               ELSE NoVerifier
    /\ reconnectCh = TRUE
    /\ btpBlockNotifCh = <<>> /\ btpBlockRespCh = <<>>
    /\ blockReq = StartHeight
    /\ monitor = [m \in Monitors |-> Idle]
    /\ bn = 0 /\ requests = 0 /\ responses = {}
    /\ cur = NoResponse
    /\ taken = {}
    /\ faults = 0

MaybeFault(wrong) ==
    /\ wrong => faults < MaxFaults
    /\ faults' = IF wrong THEN faults + 1 ELSE faults

-----------------------------------------------------------------------------
(* The verifier.                                                           *)

\* At least a third of two times the validators, rounded down, and one.
RequiredVotes(n) == Max({1, (2 * n) \div 3})

\* The votes that are of validators, each counted once.
Verify(votes) ==
    Cardinality(votes \cap vr.vals) >= RequiredVotes(Cardinality(vr.vals))

\* Mutant of Update: the validators of the block itself are kept.
UpdateLate(h) == [next |-> h + 1, vals |-> ValidatorsAt[h]]

\* The verifier after the block of height h: whoever may vote for the next.
Update(h) == [next |-> h + 1, vals |-> ValidatorsAt[h + 1]]

-----------------------------------------------------------------------------
(* The monitor goroutines.                                                 *)

\* A goroutine sets the height of the request that they share ...
MonitorStart(m) ==
    /\ monitor[m].st = "start"
    /\ blockReq' = next
    /\ monitor' = [monitor EXCEPT ![m].st = "connect"]
    /\ UNCHANGED <<mainVars, channels, head, taken, faults>>

\* ... and connects with the height it then finds there.
MonitorConnect(m) ==
    /\ monitor[m].st = "connect"
    /\ monitor' = [monitor EXCEPT ![m].st = "open", ![m].pos = blockReq]
    /\ UNCHANGED <<mainVars, channels, head, blockReq, taken, faults>>

\* The read loop ends when its context is canceled.
MonitorCanceled(m) ==
    /\ monitor[m].st = "open" /\ monitor[m].canceled
    /\ monitor' = [monitor EXCEPT ![m] = Idle]
    /\ UNCHANGED <<mainVars, channels, head, blockReq, taken, faults>>

\* A block notification is read while the context is not canceled.
MonitorRead(m) ==
    /\ monitor[m].st = "open" /\ ~monitor[m].canceled
    /\ monitor[m].pos <= head
    /\ monitor' = [monitor EXCEPT ![m].st = "send"]
    /\ UNCHANGED <<mainVars, channels, head, blockReq, taken, faults>>

\* Mutant of MonitorSend: the channel is not bounded.
MonitorSendUnbounded(m) ==
    /\ monitor[m].st = "send"
    /\ btpBlockNotifCh' = Append(btpBlockNotifCh, monitor[m].pos)
    /\ monitor' = [monitor EXCEPT ![m].st = "open", ![m].pos = @ + 1]
    /\ UNCHANGED <<mainVars, reconnectCh, btpBlockRespCh, head, blockReq, taken,
                   faults>>

\* The send blocks while the channel is full, and is not given up when the
\* context is canceled meanwhile.
MonitorSend(m) ==
    /\ monitor[m].st = "send"
    /\ Len(btpBlockNotifCh) < SyncConcurrency
    /\ btpBlockNotifCh' = Append(btpBlockNotifCh, monitor[m].pos)
    /\ monitor' = [monitor EXCEPT ![m].st = "open", ![m].pos = @ + 1]
    /\ UNCHANGED <<mainVars, reconnectCh, btpBlockRespCh, head, blockReq, taken,
                   faults>>

\* Connecting or reading fails, for a canceled goroutine as well.
MonitorFail(m) ==
    /\ monitor[m].st \in {"connect", "open"}
    /\ MaybeFault(TRUE)
    /\ monitor' = [monitor EXCEPT ![m].st = "sleep"]
    /\ UNCHANGED <<mainVars, channels, head, blockReq, taken>>

\* After five seconds the goroutine calls reconnect(): it signals ...
MonitorReconnect(m) ==
    /\ monitor[m].st = "sleep"
    /\ reconnectCh' = TRUE
    /\ monitor' = [monitor EXCEPT ![m].st = "drain"]
    /\ UNCHANGED <<mainVars, btpBlockNotifCh, btpBlockRespCh, head, blockReq, taken,
                   faults>>

\* ... looks whether a channel holds anything ...
MonitorDrain(m) ==
    /\ monitor[m].st = "drain"
    /\ IF btpBlockNotifCh = <<>> /\ btpBlockRespCh = <<>>
       THEN monitor' = [monitor EXCEPT ![m] = Idle]
       ELSE monitor' = [monitor EXCEPT ![m].st = "takeDrain"]
    /\ UNCHANGED <<mainVars, channels, head, blockReq, taken, faults>>

\* Takes one element of either channel, and waits while both are empty.
TakeEither ==
    \/ /\ btpBlockRespCh # <<>>
       /\ btpBlockRespCh' = Tail(btpBlockRespCh)
       /\ UNCHANGED btpBlockNotifCh
    \/ /\ btpBlockNotifCh # <<>>
       /\ btpBlockNotifCh' = Tail(btpBlockNotifCh)
       /\ UNCHANGED btpBlockRespCh

\* ... and takes from it, at the same time as the main loop does.
MonitorTake(m) ==
    /\ monitor[m].st = "takeDrain"
    /\ TakeEither
    /\ taken' = IF btpBlockRespCh' = btpBlockRespCh THEN taken
                ELSE taken \cup {Head(btpBlockRespCh).h}
    /\ monitor' = [monitor EXCEPT ![m].st = "drain"]
    /\ UNCHANGED <<mainVars, reconnectCh, head, blockReq, faults>>

MonitorStep(m) ==
    \/ MonitorStart(m) \/ MonitorConnect(m) \/ MonitorCanceled(m)
    \/ MonitorRead(m) \/ MonitorSend(m) \/ MonitorReconnect(m)
    \/ MonitorDrain(m) \/ MonitorTake(m)

-----------------------------------------------------------------------------
(* The main loop.                                                          *)

\* reconnect() called by the main loop, which goes on at `to` afterwards.
CallReconnect(to) ==
    /\ reconnectCh' = TRUE
    /\ pc' = "drain" /\ ret' = to

MainDrain ==
    /\ pc = "drain"
    /\ pc' = IF btpBlockNotifCh = <<>> /\ btpBlockRespCh = <<>>
             THEN ret ELSE "takeDrain"
    /\ ret' = IF pc' = ret THEN "select" ELSE ret
    /\ UNCHANGED <<next, seq, vr, bn, requests, responses, cur,
                   channels, head, blockReq, taken, monitor, faults>>

MainTake ==
    /\ pc = "takeDrain"
    /\ TakeEither
    /\ pc' = "drain"
    /\ UNCHANGED <<ret, next, seq, vr, bn, requests, responses, cur,
                   reconnectCh, head, blockReq, taken, monitor, faults>>

\* The signal is taken: the current monitor is canceled, a new one started,
\* and the verifier synchronised.
Reconnect ==
    /\ pc = "select" /\ reconnectCh
    /\ reconnectCh' = FALSE
    /\ LET free == {m \in Monitors : monitor[m].st = "done"}
       IN  /\ free # {}
           /\ monitor' = [k \in Monitors |->
                IF k = Min(free) THEN [st |-> "start", pos |-> 0, canceled |-> FALSE]
                ELSE [monitor[k] EXCEPT !.canceled = TRUE]]
    /\ pc' = IF UseVerifier THEN "sync" ELSE "select"
    /\ UNCHANGED <<ret, next, seq, vr, bn, requests, responses, cur,
                   btpBlockNotifCh, btpBlockRespCh, head, blockReq, taken, faults>>

\* syncVerifier is done, or refuses a verifier that is ahead.
SyncDone ==
    /\ pc = "sync" /\ vr.next >= next
    /\ pc' = IF vr.next = next THEN "select" ELSE "error"
    /\ UNCHANGED <<ret, next, seq, vr, bn, requests, responses, cur,
                   channels, head, blockReq, taken, monitor, faults>>

\* handleVerifierBlockRequests: as many blocks as the channel holds are asked
\* for, whatever the target; those that fail three times are left out.
SyncRequest ==
    /\ pc = "sync" /\ vr.next < next
    /\ LET asked == vr.next .. vr.next + SyncConcurrency - 1
           there == {h \in asked : h <= head}
       IN  \E ok \in SUBSET there :
              /\ MaybeFault(ok # there)
              /\ responses' = ok
    /\ pc' = "syncApply"
    /\ UNCHANGED <<ret, next, seq, vr, bn, requests, cur,
                   channels, head, blockReq, taken, monitor>>

\* One response, in the order of the heights: the next one is verified, and
\* the others are passed over.  The target is looked at after the batch only.
SyncApply ==
    /\ pc = "syncApply"
    /\ IF responses = {}
       THEN /\ pc' = IF vr.next < next THEN "sync" ELSE "select"
            /\ UNCHANGED <<vr, responses, faults>>
       ELSE LET h == Min(responses) IN
            /\ responses' = responses \ {h}
            /\ IF h # vr.next
               THEN UNCHANGED <<pc, vr, faults>>
               ELSE \/ /\ Verify(ValidatorsAt[h])
                       /\ vr' = Update(h)
                       /\ UNCHANGED <<pc, faults>>
                    \/ /\ MaybeFault(TRUE)
                       /\ pc' = "error"
                       /\ UNCHANGED vr
    /\ UNCHANGED <<ret, next, seq, bn, requests, cur, channels,
                   head, blockReq, taken, monitor>>

\* Neither a signal nor a response is there ...
Default ==
    /\ pc = "select" /\ ~reconnectCh /\ btpBlockRespCh = <<>>
    /\ pc' = "notif"
    /\ UNCHANGED <<ret, next, seq, vr, bn, requests, responses, cur,
                   channels, head, blockReq, taken, monitor, faults>>

\* ... so a notification is taken, if there is one.
TakeFirstNotif ==
    /\ pc = "notif"
    /\ IF btpBlockNotifCh = <<>>
       THEN pc' = "select" /\ UNCHANGED <<bn, btpBlockNotifCh>>
       ELSE /\ bn' = Head(btpBlockNotifCh)
            /\ btpBlockNotifCh' = Tail(btpBlockNotifCh)
            /\ pc' = "collect"
    /\ UNCHANGED <<ret, next, seq, vr, requests, responses, cur,
                   reconnectCh, btpBlockRespCh, head, blockReq, taken, monitor, faults>>

\* Mutant of Collect: what is not for the next height is only dropped.
CollectDrops ==
    /\ pc = "collect"
    /\ IF bn # next + requests
       THEN pc' = "select" /\ requests' = 0
       ELSE pc' = "moreNotif" /\ requests' = requests + 1
    /\ bn' = 0
    /\ UNCHANGED <<ret, next, seq, vr, responses, cur, channels,
                   head, blockReq, taken, monitor, faults>>

\* It must be for the next height, or the receiver reconnects.
Collect ==
    /\ pc = "collect"
    /\ IF bn # next + requests
       THEN /\ CallReconnect("select")
            /\ requests' = 0
       ELSE /\ requests' = requests + 1
            /\ pc' = "moreNotif"
            /\ UNCHANGED <<reconnectCh, ret>>
    /\ bn' = 0
    /\ UNCHANGED <<next, seq, vr, responses, cur,
                   btpBlockNotifCh, btpBlockRespCh, head, blockReq, taken, monitor,
                   faults>>

\* Whether there is another notification, and room for its request ...
MoreNotif ==
    /\ pc = "moreNotif"
    /\ pc' = IF btpBlockNotifCh # <<>> /\ requests < SyncConcurrency
             THEN "takeNotif" ELSE "fetch"
    /\ UNCHANGED <<ret, next, seq, vr, bn, requests, responses, cur,
                   channels, head, blockReq, taken, monitor, faults>>

\* ... which is then taken, if no one else took it in between.
TakeNotif ==
    /\ pc = "takeNotif"
    /\ btpBlockNotifCh # <<>>
    /\ bn' = Head(btpBlockNotifCh)
    /\ btpBlockNotifCh' = Tail(btpBlockNotifCh)
    /\ pc' = "collect"
    /\ UNCHANGED <<ret, next, seq, vr, requests, responses, cur,
                   reconnectCh, btpBlockRespCh, head, blockReq, taken, monitor, faults>>

\* Of the blocks answered, in the order of the heights, those whose height is
\* next plus their place.
InPlace(ok) == {h \in ok : h = next + Cardinality({k \in ok : k < h})}

\* All requests are served by goroutines of handleBTPBlockRequest, with
\* retries; those that fail to the end leave a gap.  The last block of the
\* bounded chain does not, since no later one follows that shows the gap.
Fetch ==
    /\ pc = "fetch"
    /\ LET asked == next .. next + requests - 1
       IN  \E ok \in SUBSET asked :
              /\ ok # asked => MaxHeight \notin asked
              /\ MaybeFault(ok # asked)
              /\ responses' = InPlace(ok)
    /\ pc' = "forward" /\ requests' = 0
    /\ UNCHANGED <<ret, next, seq, vr, bn, cur,
                   channels, head, blockReq, taken, monitor>>

\* They are put into the channel one by one.
Forward ==
    /\ pc = "forward"
    /\ IF responses = {}
       THEN /\ pc' = "select"
            /\ UNCHANGED <<responses, btpBlockRespCh, faults>>
       ELSE LET h == Min(responses) IN
            /\ Len(btpBlockRespCh) < SyncConcurrency
            /\ responses' = responses \ {h}
            /\ \E votes \in {ValidatorsAt[h], {}} :
                  /\ MaybeFault(votes = {})
                  /\ btpBlockRespCh' = Append(btpBlockRespCh,
                                              [h |-> h, votes |-> votes])
            /\ UNCHANGED pc
    /\ UNCHANGED <<ret, next, seq, vr, bn, requests, cur,
                   reconnectCh, btpBlockNotifCh, head, blockReq, taken, monitor>>

\* A response is taken, even when a signal is there, too.
TakeFirstResp ==
    /\ pc = "select" /\ btpBlockRespCh # <<>>
    /\ cur' = Head(btpBlockRespCh)
    /\ btpBlockRespCh' = Tail(btpBlockRespCh)
    /\ pc' = "handle"
    /\ UNCHANGED <<ret, next, seq, vr, bn, requests, responses,
                   reconnectCh, btpBlockNotifCh, head, blockReq, taken, monitor,
                   faults>>

\* Mutant of Callback: a later event is left out like an earlier one.
CallbackSkips(h) ==
    /\ pc' = "moreResp"
    /\ seq' = IF h \in EventHeights /\ SeqOf(h) = seq THEN seq + 1 ELSE seq

\* The callback of Subscribe: an event that was relayed is left out, the next
\* one given to the relay, and a later one is an error.
Callback(h) ==
    IF h \notin EventHeights \/ SeqOf(h) < seq
    THEN pc' = "moreResp" /\ UNCHANGED seq
    ELSE IF SeqOf(h) = seq
         THEN pc' = "moreResp" /\ seq' = seq + 1
         ELSE pc' = "error" /\ UNCHANGED seq

\* handleBTPBlockResponse, one turn: the block is verified and given to the
\* callback, or the receiver reconnects.
Handle ==
    /\ pc = "handle"
    /\ IF UseVerifier /\ ~Verify(cur.votes)
       THEN /\ CallReconnect("clear")
            /\ UNCHANGED <<vr, seq>>
       ELSE /\ vr' = IF UseVerifier THEN Update(cur.h) ELSE vr
            /\ Callback(cur.h)
            /\ UNCHANGED <<reconnectCh, ret>>
    /\ cur' = NoResponse
    /\ UNCHANGED <<next, bn, requests, responses, btpBlockNotifCh,
                   btpBlockRespCh, head, blockReq, taken, monitor, faults>>

\* Mutant of MoreResp: next counts the response here as well.
MoreRespCounts ==
    /\ pc = "moreResp"
    /\ pc' = IF btpBlockRespCh # <<>> THEN "takeResp" ELSE "clear"
    /\ next' = next + 1
    /\ UNCHANGED <<ret, seq, vr, bn, requests, responses, cur,
                   channels, head, blockReq, taken, monitor, faults>>

\* Whether there is another response ...
MoreResp ==
    /\ pc = "moreResp"
    /\ IF btpBlockRespCh # <<>>
       THEN pc' = "takeResp" /\ UNCHANGED next
       ELSE pc' = "clear" /\ next' = next + 1
    /\ UNCHANGED <<ret, seq, vr, bn, requests, responses, cur,
                   channels, head, blockReq, taken, monitor, faults>>

\* ... which is then taken, if no one else took it in between; either way
\* next counts the turn.
TakeResp ==
    /\ pc = "takeResp"
    /\ btpBlockRespCh # <<>>
    /\ cur' = Head(btpBlockRespCh)
    /\ btpBlockRespCh' = Tail(btpBlockRespCh)
    /\ next' = next + 1
    /\ pc' = "handle"
    /\ UNCHANGED <<ret, seq, vr, bn, requests, responses,
                   reconnectCh, btpBlockNotifCh, head, blockReq, taken, monitor,
                   faults>>

\* The loop that removes what is left of the responses finds none: only the
\* main loop adds them, and it ran out of them, or reconnect() took them.
Clear ==
    /\ pc = "clear" /\ btpBlockRespCh = <<>>
    /\ pc' = "select"
    /\ UNCHANGED <<ret, next, seq, vr, bn, requests, responses, cur,
                   channels, head, blockReq, taken, monitor, faults>>

MainStep ==
    \/ MainDrain \/ MainTake \/ Reconnect \/ SyncDone \/ SyncRequest
    \/ SyncApply \/ Default \/ TakeFirstNotif \/ Collect \/ MoreNotif \/ TakeNotif
    \/ Fetch \/ Forward \/ TakeFirstResp \/ Handle \/ MoreResp \/ TakeResp
    \/ Clear

\* ICON makes a block.
NewBlock ==
    /\ head < MaxHeight
    /\ head' = head + 1
    /\ UNCHANGED <<mainVars, channels, blockReq, taken, monitor, faults>>

Next ==
    \/ NewBlock
    \/ MainStep
    \/ \E m \in Monitors : MonitorStep(m) \/ MonitorFail(m)

Spec == Init /\ [][Next]_vars

\* The goroutines are scheduled, the chain grows, and a select that finds
\* both a signal and a response ready takes neither for ever.
FairSpec ==
    /\ Spec
    /\ WF_vars(NewBlock)
    /\ WF_vars(MainStep)
    /\ SF_vars(Reconnect)
    /\ \A m \in Monitors : WF_vars(MonitorStep(m))

-----------------------------------------------------------------------------
(* Properties.                                                             *)

\* The event of a height is not for the relay any more: it was given to it (or
\* relayed before the start), or a failed monitor took the block's response.
Settled(h) == SeqOf(h) < seq \/ h \in taken

\* The loop passes over the block of an event only when the reconnect() of a
\* failed monitor took its response from the channel, whatever requests fail,
\* whatever is not verified and whatever the main loop itself throws away.
\* (Such a response is passed over silently: handleBTPBlockResponse does not
\* compare the height it handles with next.)
OnlyTakenPassedOver ==
    \A h \in EventHeights : StartHeight <= h /\ h < next => Settled(h)

\* Responses wait in the order of the blocks, and none is of a block below
\* next: what the loop counts never runs ahead of what it handles.
ResponsesAhead ==
    LET waiting == (IF pc = "handle" THEN <<cur>> ELSE <<>>) \o btpBlockRespCh
    IN  /\ \A i, j \in 1 .. Len(waiting) : i < j => waiting[i].h < waiting[j].h
        /\ \A i \in 1 .. Len(waiting) : waiting[i].h >= next

\* The verifier is never behind the loop once it was synchronised, and always
\* holds the validators of the height it waits for: syncVerifier after the
\* first time has nothing to do, or is refused.
VerifierAhead ==
    UseVerifier =>
        /\ vr.vals = ValidatorsAt[vr.next]
        /\ pc \notin {"sync", "syncApply", "error", "moreResp", "takeResp"}
              /\ monitor # [m \in Monitors |-> Idle]
              /\ ~reconnectCh
           => vr.next >= next

\* What the loop and the monitors count stays within the chain: the block of
\* each request, of each response and of each notification exists.
WithinChain ==
    /\ next + requests <= MaxHeight + 1
    /\ requests # 0 => pc \in {"collect", "moreNotif", "takeNotif", "fetch"}
    /\ pc \in {"takeNotif", "collect"} => requests < SyncConcurrency
    /\ pc = "collect" => bn \in Heights
    /\ pc = "handle" => cur \in Response
    /\ pc \in {"moreResp", "takeResp"} => next <= MaxHeight
    /\ \A m \in Monitors :
          /\ monitor[m].st \in {"open", "send"} => monitor[m].pos >= 1
          /\ monitor[m].st = "send" => monitor[m].pos <= MaxHeight

\* Responses are in order and not below next, wherever they are: on their way
\* into the channel, in it, or taken from it.  Once one is handled, those left
\* are above next, which is about to count it; and none is left while the loop
\* collects notifications, or when it removes what is left.
ResponsesInOrder ==
    /\ \A i, j \in 1 .. Len(btpBlockRespCh) :
          i < j => btpBlockRespCh[i].h < btpBlockRespCh[j].h
    /\ \A i \in 1 .. Len(btpBlockRespCh) :
          /\ btpBlockRespCh[i].h >= next
          /\ pc = "handle" => cur.h < btpBlockRespCh[i].h
          /\ pc \in {"moreResp", "takeResp"} => next < btpBlockRespCh[i].h
          /\ pc = "forward" => \A h \in responses : btpBlockRespCh[i].h < h
    /\ pc = "handle" => cur.h >= next
    /\ pc = "forward" => \A h \in responses : h >= next
    /\ pc \in {"notif", "collect", "moreNotif", "takeNotif", "fetch", "clear"}
          => btpBlockRespCh = <<>>

\* Nothing has happened but the first signal.
NotConnected ==
    /\ pc = "select" /\ reconnectCh
    /\ btpBlockNotifCh = <<>> /\ btpBlockRespCh = <<>>
    /\ monitor = [m \in Monitors |-> Idle]

\* The verifier is synchronised before anything is fetched, and each response
\* that is handled moves it ahead of next.
VerifierSynced ==
    /\ pc \in {"sync", "syncApply"} => UseVerifier
    /\ UseVerifier =>
          /\ vr.next >= 1
          /\ vr.vals = ValidatorsAt[vr.next]
          /\ NotConnected \/ pc \in {"sync", "syncApply", "error"} \/ vr.next >= next
          /\ pc \in {"moreResp", "takeResp"} => vr.next > next

\* Heights of the blocks that are answered and not yet handled.
Waiting ==
    {btpBlockRespCh[i].h : i \in 1 .. Len(btpBlockRespCh)}
        \cup {h \in {cur.h} : pc = "handle"}
        \cup {h \in responses : pc = "forward"}

\* From next up to a block that waits every block with an event waits, too, or
\* is settled, unless the main loop is about to throw all of them away; so is
\* the block that next is about to count, and those below next.
GapsSettled ==
    /\ OnlyTakenPassedOver
    /\ pc \notin {"drain", "takeDrain", "error"} =>
          \A w \in Waiting, h \in EventHeights :
              next <= h /\ h < w => h \in Waiting \/ Settled(h)
    /\ pc \in {"moreResp", "takeResp"} /\ next \in EventHeights => Settled(next)

\* The inductive invariant of the receiver of ICON: from it follow that next
\* does not run ahead, what it may pass over, and what the verifier holds.
IconInv ==
    /\ TypeOK /\ WithinChain /\ ResponsesInOrder
    /\ VerifierSynced /\ GapsSettled

\* The main loop waits for what it saw in a channel and a failed monitor took:
\* for a response, which only the main loop itself would add, or for a
\* notification when no monitor is left that would send one, and only the main
\* loop would start another.
Stuck ==
    \/ pc = "takeResp" /\ btpBlockRespCh = <<>>
    \/ /\ pc = "takeNotif" /\ btpBlockNotifCh = <<>>
       /\ \A m \in Monitors : monitor[m].st \in {"done", "takeDrain"}

\* A failed monitor is about to take the notification of the last block of the
\* bounded chain: no later one would follow that shows the gap.
LastAtRisk ==
    /\ btpBlockNotifCh # <<>> /\ Head(btpBlockNotifCh) = MaxHeight
    /\ \E m \in Monitors : monitor[m].st = "takeDrain"

\* Whatever connection or request failed and whatever was not verified is
\* asked for again, until every event has reached the relay, but those of the
\* responses that failed monitors took, or the receiver returns an error, if
\* reconnecting comes to an end and the main loop does not get stuck.
\* (Reconnecting may go on for ever: a canceled monitor that sends a block
\* after reconnect() emptied the channels causes the next one.  And the signal
\* stays when MaxMonitors goroutines are there, all of them waiting to empty
\* channels that are empty.)
EventuallyDelivered ==
    [](~Stuck /\ ~LastAtRisk) /\ <>[](~reconnectCh) =>
        <>(\/ pc = "error"
           \/ \A h \in EventHeights : h >= StartHeight => Settled(h))
=============================================================================
