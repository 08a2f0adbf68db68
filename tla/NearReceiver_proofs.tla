------------------------ MODULE NearReceiver_proofs ------------------------
(***************************************************************************)
(* Proofs about NearReceiver: the inductive invariant NearInv, for any     *)
(* chain, stakes, number of subscriptions and failures, and from it that   *)
(* only approved blocks are relayed, that the relay misses no event, and   *)
(* that an honest chain raises no error.                                   *)
(***************************************************************************)
EXTENDS NearReceiver, Sums_proofs, SequenceTheorems, TLAPS

-----------------------------------------------------------------------------
(* The chain.                                                              *)

\* The chain is a sequence with a block at the heights it is asked for.
LEMMA ChainType ==
    ASSUME blocks \in Chains
    PROVE  /\ blocks \in Seq(Block \cup {NoBlock}) /\ Len(blocks) \in Nat
           /\ DOMAIN blocks = 1 .. Len(blocks)
           /\ StartHeight \in 1 .. Len(blocks) /\ StartHeight > VerifierHeight
           /\ VerifierHeight \in 1 .. Len(blocks)
           /\ RxHeights \subseteq 1 .. Len(blocks)
           /\ FirstHead \in 0 .. Len(blocks) + 3
<1>1. /\ blocks \in Seq(Block \cup {NoBlock})
      /\ StartHeight \in DOMAIN blocks /\ RxHeights \subseteq DOMAIN blocks
      /\ FirstHead \in 0 .. Len(blocks) + 3
      /\ StartHeight > VerifierHeight /\ VerifierHeight \in Nat \ {0}
  BY NearAssumption
<1>2. Len(blocks) \in Nat /\ DOMAIN blocks = 1 .. Len(blocks)  BY <1>1
<1> QED  BY <1>1, <1>2

\* What is known of a block of the chain.
LEMMA KnownBlock ==
    ASSUME blocks \in Chains, NEW h, Known(h)
    PROVE  /\ h \in 1 .. Len(blocks) /\ blocks[h] \in Block
           /\ blocks[h].prev \in 0 .. h - 1
           /\ blocks[h].prev = 0 \/ Known(blocks[h].prev)
           /\ \A k \in blocks[h].prev + 1 .. h - 1 : ~Known(k)
           /\ blocks[h].epoch \in DOMAIN Stakes
           /\ blocks[h].approvals \in Seq(BOOLEAN)
           /\ DOMAIN blocks[h].approvals = DOMAIN Stakes[blocks[h].epoch]
           /\ Stakes[blocks[h].epoch] \in Seq(Nat)
           /\ Approved(blocks[h].approvals, Stakes[blocks[h].epoch])
<1>1. h \in DOMAIN blocks /\ blocks[h] # NoBlock  BY DEF Known
<1>2. h \in 1 .. Len(blocks) /\ blocks[h] \in Block  BY <1>1, ChainType
<1>3. /\ blocks[h].prev \in 0 .. h - 1
      /\ blocks[h].prev = 0 \/ blocks[blocks[h].prev] # NoBlock
      /\ \A k \in blocks[h].prev + 1 .. h - 1 : blocks[k] = NoBlock
      /\ Len(blocks[h].approvals) = Len(Stakes[blocks[h].epoch])
      /\ Approved(blocks[h].approvals, Stakes[blocks[h].epoch])
  BY <1>1, ChainAssumption
<1>4. blocks[h].prev = 0 \/ blocks[h].prev \in DOMAIN blocks
  BY <1>2, <1>3, ChainType
<1>5. blocks[h].epoch \in DOMAIN Stakes /\ blocks[h].approvals \in Seq(BOOLEAN)
  BY <1>2 DEF Block
<1>6. Stakes[blocks[h].epoch] \in Seq(Nat)  BY <1>5, NearAssumption
<1>7. DOMAIN blocks[h].approvals = DOMAIN Stakes[blocks[h].epoch]
  BY <1>3, <1>5, <1>6
<1>8. blocks[h].prev = 0 \/ Known(blocks[h].prev)  BY <1>3, <1>4 DEF Known
<1>9. \A k \in blocks[h].prev + 1 .. h - 1 : ~Known(k)  BY <1>3 DEF Known
<1> QED  BY <1>2, <1>3, <1>5, <1>6, <1>7, <1>8, <1>9

\* The events of a block are numbers up to the last one of the chain.
LEMMA EventsType ==
    ASSUME blocks \in Chains
    PROVE  /\ MaxSeq \in Nat
           /\ \A h : Known(h) =>
                 /\ EventsAt(h) \in Seq(1 .. MaxSeq)
                 /\ \A i \in DOMAIN EventsAt(h) : EventsAt(h)[i] \in 1 .. MaxSeq
<1>1. /\ IsFiniteSet(EventsIn(blocks))
      /\ EventsIn(blocks) = 1 .. Cardinality(EventsIn(blocks))
  BY EventAssumption
<1>2. MaxSeq \in Nat /\ EventsIn(blocks) = 1 .. MaxSeq
  BY <1>1, FS_CardinalityType DEF MaxSeq
<1>3. ASSUME NEW h, Known(h)
      PROVE  /\ EventsAt(h) \in Seq(1 .. MaxSeq)
             /\ \A i \in DOMAIN EventsAt(h) : EventsAt(h)[i] \in 1 .. MaxSeq
  <2>1. blocks[h].events \in Seq(Nat)  BY <1>3, KnownBlock DEF Block
  <2>2. EventsAt(h) \in Seq(Nat)
    BY <2>1, KeepType DEF EventsAt, EventsOf
  <2>3. h \in {k \in DOMAIN blocks : blocks[k] # NoBlock}  BY <1>3 DEF Known
  <2>4. Range(EventsOf(blocks[h])) \subseteq EventsIn(blocks)
    BY <2>3 DEF EventsIn
  <2>5. \A i \in DOMAIN EventsAt(h) : EventsAt(h)[i] \in 1 .. MaxSeq
    BY <1>2, <2>4 DEF Range, EventsAt
  <2> DEFINE e == EventsAt(h)
  <2>6. Len(e) \in Nat /\ DOMAIN e = 1 .. Len(e) /\ e = [i \in 1 .. Len(e) |-> e[i]]
    BY <2>2
  <2> HIDE DEF e
  <2>7. e \in [1 .. Len(e) -> 1 .. MaxSeq]  BY <2>5, <2>6 DEF e
  <2>8. e \in Seq(1 .. MaxSeq)  BY <2>6, <2>7, SeqDef
  <2> QED  BY <2>5, <2>8 DEF e
<1> QED  BY <1>2, <1>3

\* The stake of some producers is a number.
LEMMA StakeType ==
    ASSUME NEW stakes \in Seq(Nat), NEW S \in SUBSET DOMAIN stakes
    PROVE  StakeOf(stakes, S) \in Nat
<1>1. IsFiniteSet(S)
  <2>1. DOMAIN stakes = 1 .. Len(stakes) /\ Len(stakes) \in Nat  OBVIOUS
  <2>2. IsFiniteSet(1 .. Len(stakes))  BY <2>1, FS_Interval
  <2> QED  BY <2>1, <2>2, FS_Subset
<1>2. \A x \in S : stakes[x] \in Nat  OBVIOUS
<1> QED  BY <1>1, <1>2, SumNat DEF StakeOf

\* More than the threshold of ValidateHeader is more than two thirds.
LEMMA ApprovedIsGood ==
    ASSUME blocks \in Chains, NEW h, Known(h), NEW approvals \in Answers(h),
           Approved(approvals, Stakes[blocks[h].epoch])
    PROVE  Good([height |-> h, approvals |-> approvals])
<1> DEFINE stakes == Stakes[blocks[h].epoch]
           listed == DOMAIN approvals \cap DOMAIN stakes
           A == StakeOf(stakes, {i \in listed : approvals[i]})
           T == StakeOf(stakes, listed)
<1>1. stakes \in Seq(Nat)  BY KnownBlock
<1>2. /\ listed \in SUBSET DOMAIN stakes
      /\ {i \in listed : approvals[i]} \in SUBSET DOMAIN stakes
  OBVIOUS
<1>3. A \in Nat /\ T \in Nat  BY <1>1, <1>2, StakeType
<1>4. A > (2 * T) \div 3  BY DEF Approved
<1> HIDE DEF A, T
<1>5. 3 * A > 2 * T  BY <1>3, <1>4
<1> QED  BY <1>5 DEF Good, A, T

\* What is answered is a list of approvals.
LEMMA AnswersType ==
    ASSUME blocks \in Chains, NEW h, Known(h), NEW approvals \in Answers(h)
    PROVE  approvals \in Seq(BOOLEAN)
BY KnownBlock, NearAssumption DEF Answers

\* ValidateHeader returns a verifier of the same subscription, with the
\* producers of its epoch also when it fails, and succeeds only for a block
\* that the producers of the block's epoch approved.
LEMMA ValidateSound ==
    ASSUME blocks \in Chains, NEW h, Known(h), NEW v \in Verifier, EpochSound(v),
           NEW approvals \in Answers(h), NEW own \in BOOLEAN, NEW fetched \in BOOLEAN
    PROVE  LET r == ValidateHeader(v, h, approvals, own, fetched) IN
           /\ r.v \in Verifier /\ EpochSound(r.v) /\ r.v.owner = v.owner
           /\ r.ok \in BOOLEAN
           /\ r.ok => Approved(approvals, Stakes[blocks[h].epoch])
<1> DEFINE b       == blocks[h]
           onChain == v.previousBlockHash = b.prev /\ approvals = b.approvals
           hash    == IF onChain THEN h ELSE OffChain
           moved   == [v EXCEPT !.blockHeight = h, !.previousBlockHash = hash]
           entered == [moved EXCEPT !.currentEpochId = b.epoch,
                                    !.nextEpochId = b.epoch + 1,
                                    !.blockProducers = b.epoch]
           new     == IF b.epoch = v.nextEpochId THEN entered ELSE moved
           signed  == IF b.prev + 1 = h THEN v.previousBlockHash = b.prev
                      ELSE v.blockHeight = b.prev
           r       == ValidateHeader(v, h, approvals, own, fetched)
<1>1. h \in 0 .. Len(blocks) /\ b.epoch \in DOMAIN Stakes /\ b.epoch \in Nat
  <2>1. DOMAIN Stakes = 1 .. Len(Stakes)  BY NearAssumption
  <2> QED  BY <2>1, KnownBlock, ChainType
<1>2. moved \in Verifier /\ EpochSound(moved) /\ moved.owner = v.owner
  <2>1. hash \in {OffChain} \cup 0 .. Len(blocks)  BY <1>1
  <2> HIDE DEF hash
  <2> QED  BY <1>1, <2>1 DEF Verifier, EpochSound
<1>3. entered \in Verifier /\ EpochSound(entered) /\ entered.owner = v.owner
      /\ entered.blockProducers = b.epoch
  <2> HIDE DEF moved
  <2>1. b.epoch + 1 \in Nat /\ b.epoch \in {0} \cup DOMAIN Stakes  BY <1>1
  <2>2. moved \in Verifier /\ moved.owner = v.owner /\ moved.owner # 0
    BY <1>2 DEF EpochSound
  <2>3. entered \in Verifier  BY <1>1, <2>1, <2>2 DEF Verifier
  <2>4. /\ entered.owner = moved.owner /\ entered.blockProducers = b.epoch
        /\ entered.currentEpochId = b.epoch /\ entered.nextEpochId = b.epoch + 1
    BY <2>2 DEF Verifier
  <2> QED  BY <2>2, <2>3, <2>4 DEF EpochSound
<1>4. moved.blockProducers = v.currentEpochId
  <2> HIDE DEF hash
  <2> QED  BY DEF Verifier, EpochSound
<1> HIDE DEF moved, entered
<1>5. CASE ~onChain /\ ~own
  <2>1. r = [v |-> v, ok |-> FALSE]  BY <1>5 DEF ValidateHeader, moved, entered
  <2> QED  BY <2>1
<1>6. CASE /\ onChain \/ own
           /\ \/ b.epoch \notin {v.currentEpochId, v.nextEpochId}
              \/ b.epoch = v.nextEpochId /\ ~fetched
  <2>1. r = [v |-> moved, ok |-> FALSE]  BY <1>6 DEF ValidateHeader, moved, entered
  <2> QED  BY <1>2, <2>1
<1>7. CASE /\ onChain \/ own
           /\ ~(\/ b.epoch \notin {v.currentEpochId, v.nextEpochId}
                \/ b.epoch = v.nextEpochId /\ ~fetched)
  <2>1. r = [v |-> new,
             ok |-> signed /\ Approved(approvals, Stakes[new.blockProducers])]
    BY <1>7 DEF ValidateHeader, moved, entered
  <2>2. new \in Verifier /\ EpochSound(new) /\ new.owner = v.owner
    BY <1>2, <1>3
  <2>3. new.blockProducers = b.epoch  BY <1>3, <1>4, <1>7
  <2> HIDE DEF new
  <2>4. r.v = new /\ r.ok = (signed /\ Approved(approvals, Stakes[b.epoch]))
    BY <2>1, <2>3
  <2>5. (signed /\ Approved(approvals, Stakes[b.epoch])) \in BOOLEAN
    BY DEF Approved
  <2> QED  BY <2>2, <2>4, <2>5
<1> QED  BY <1>5, <1>6, <1>7

\* The events taken from a block follow seq one by one.
LEMMA NextEventsType ==
    ASSUME NEW n \in Nat, NEW events \in Seq(1 .. n), NEW seq \in Nat
    PROVE  LET next == NextEvents(events, seq) IN
           /\ next \in Seq(1 .. n) /\ Len(next) \in Nat
           /\ \A i \in 1 .. Len(next) : next[i] = seq + i - 1
<1> DEFINE I == {i \in DOMAIN events : events[i] >= seq}
           new == Keep(events, I)
           K == {k \in 0 .. Len(new) : \A i \in 1 .. k : new[i] = seq + i - 1}
           m == Max(K)
<1>1. new \in Seq(1 .. n) /\ Len(new) \in Nat
  <2>1. I \in SUBSET DOMAIN events  OBVIOUS
  <2> HIDE DEF I
  <2> QED  BY <2>1, KeepType
<1> HIDE DEF new
<1>2. K # {}
  <2>1. 0 \in K  BY <1>1
  <2> QED  BY <2>1
<1>3. m \in K
  <2>1. K \in SUBSET (0 .. Len(new))  OBVIOUS
  <2> HIDE DEF K
  <2> QED  BY <1>1, <1>2, <2>1, MaxIsGreatest
<1> HIDE DEF m
<1>4. m \in 0 .. Len(new) /\ \A i \in 1 .. m : new[i] = seq + i - 1  BY <1>3
<1> DEFINE next == SubSeq(new, 1, m)
<1>5. /\ next \in Seq(1 .. n) /\ Len(next) = m
      /\ \A i \in 1 .. m : next[i] = new[i]
  BY <1>1, <1>4
<1>6. NextEvents(events, seq) = next  BY DEF NextEvents, new, m
<1> HIDE DEF next
<1>7. \A i \in 1 .. Len(next) : next[i] = seq + i - 1  BY <1>4, <1>5
<1>8. Len(next) \in Nat  BY <1>4, <1>5
<1> QED  BY <1>5, <1>6, <1>7, <1>8

\* A block whose events all follow seq one by one is taken as it is.
LEMMA NextEventsAll ==
    ASSUME NEW n \in Nat, NEW events \in Seq(1 .. n), NEW seq \in Nat,
           \A i \in 1 .. Len(events) : events[i] = seq + i - 1
    PROVE  Len(NextEvents(events, seq)) = Len(events)
<1> DEFINE I == {i \in DOMAIN events : events[i] >= seq}
           new == Keep(events, I)
           K == {k \in 0 .. Len(new) : \A i \in 1 .. k : new[i] = seq + i - 1}
           m == Max(K)
<1>1. Len(events) \in Nat /\ DOMAIN events = 1 .. Len(events)  OBVIOUS
<1>2. I = 0 + 1 .. Len(events)  BY <1>1
<1>3. /\ new \in Seq(1 .. n) /\ Len(new) = Len(events)
      /\ \A k \in 1 .. Len(events) : new[k] = events[k]
  <2>1. 0 \in 0 .. Len(events) /\ Len(events) - 0 = Len(events)  BY <1>1
  <2>2. /\ new \in Seq(1 .. n) /\ Len(new) = Len(events) - 0
        /\ \A k \in 1 .. Len(events) - 0 : new[k] = events[0 + k]
    <3> HIDE DEF I
    <3> QED  BY <1>2, <2>1, KeepRest
  <2> HIDE DEF new
  <2> QED  BY <1>1, <2>1, <2>2
<1> HIDE DEF new
<1>4. Len(new) \in K  BY <1>1, <1>3
<1>5. m \in K /\ \A y \in K : y <= m
  <2>1. K \in SUBSET (0 .. Len(new))  OBVIOUS
  <2>2. K # {}  BY <1>4
  <2> HIDE DEF K
  <2> QED  BY <1>1, <1>3, <2>1, <2>2, MaxIsGreatest
<1> HIDE DEF m
<1>6. m = Len(events)
  <2>1. m \in 0 .. Len(new)  BY <1>5
  <2>2. Len(new) <= m  BY <1>4, <1>5
  <2>3. Len(new) = Len(events) /\ Len(events) \in Nat  BY <1>1, <1>3
  <2>4. \A x, y, z : x \in 0 .. y /\ y <= x /\ y = z /\ z \in Nat => x = z  OBVIOUS
  <2> QED  BY <2>1, <2>2, <2>3, <2>4
<1>7. NextEvents(events, seq) = SubSeq(new, 1, m)  BY DEF NextEvents, new, m
<1> QED  BY <1>1, <1>3, <1>6, <1>7

-----------------------------------------------------------------------------
(* What steps have in common.                                              *)

\* The types depend on the chain only, which does not change.
LEMMA SameTypes ==
    ASSUME UNCHANGED blocks
    PROVE  /\ MaxSeq' = MaxSeq /\ Item' = Item /\ Receipt' = Receipt
           /\ Verifier' = Verifier /\ Sub' = Sub /\ Link' = Link
           /\ RelayState' = RelayState
BY DEF MaxSeq, Item, Known, Receipt, Verifier, Sub, Link, RelayState

\* The types, part by part, after a step.
LEMMA TypeIntro ==
    ASSUME TypeOK, UNCHANGED <<blocks, verified>>,
           head' \in FirstHead .. Len(blocks) + 3,
           link' \in Link, relay' \in RelayState, verifier' \in Verifier,
           sub' \in [Subs -> Sub], \A s \in Subs : Len(sub'[s].queue) <= Ahead,
           sent' \in SUBSET Item, faults' \in 0 .. MaxFaults
    PROVE  TypeOK'
BY SameTypes DEF TypeOK

\* After a failure nothing is said about undisturbed runs.
LEMMA FaultDisturbs ==
    ASSUME TypeOK, Fault PROVE Undisturbed' /\ faults' \in 0 .. MaxFaults
<1>1. faults \in 0 .. MaxFaults /\ MaxFaults \in Nat  BY NearAssumption DEF TypeOK
<1>2. faults' # 0 /\ faults' \in 0 .. MaxFaults  BY <1>1 DEF Fault
<1> QED  BY <1>2 DEF Undisturbed

\* A step that leaves the link, the relay and its subscription alone.
LEMMA LiveFrame ==
    ASSUME NearInv, UNCHANGED <<blocks, verified, link, relay, sent>>,
           relay.pc = "run" => sub'[relay.live] = sub[relay.live]
    PROVE  EventsContinue' /\ HeightsContinue' /\ WaitingApproved'
<1>1. EventsContinue'  BY DEF NearInv, EventsContinue
<1>2. HeightsContinue'
  <2>1. CASE relay.pc # "run"  BY <2>1 DEF HeightsContinue
  <2>2. CASE relay.pc = "run"
    <3>1. \A h : NotBelow(h)' <=> NotBelow(h)  BY DEF NotBelow
    <3>2. link' = link /\ relay' = relay /\ sub'[relay.live] = sub[relay.live]
      BY <2>2
    <3> QED  BY <3>1, <3>2 DEF NearInv, HeightsContinue
  <2> QED  BY <2>1, <2>2
<1>3. WaitingApproved'  BY DEF NearInv, WaitingApproved, SentApproved, Good
<1> QED  BY <1>1, <1>2, <1>3

\* A relay that starts anew holds nothing.
LEMMA StartFrame ==
    ASSUME NearInv, UNCHANGED <<blocks, verified, sent>>, relay'.pc = "start"
    PROVE  EventsContinue' /\ HeightsContinue' /\ WaitingApproved'
<1>1. EventsContinue'  BY DEF EventsContinue
<1>2. HeightsContinue'  BY DEF HeightsContinue
<1>3. WaitingApproved'  BY DEF NearInv, WaitingApproved, SentApproved, Good
<1> QED  BY <1>1, <1>2, <1>3

\* Without a failure only the subscription of the relay takes steps.
LEMMA OnlyLive ==
    ASSUME NearInv, NEW s \in Subs, sub[s].pc # "done",
           ~(relay.pc = "run" /\ relay.live = s), UNCHANGED <<blocks, faults>>
    PROVE  Undisturbed'
<1>1. SUFFICES ASSUME faults = 0, Known(StartHeight - 1) PROVE FALSE
  BY DEF Undisturbed, Known
<1>2. relay.pc = "start" \/ relay.pc = "run"  BY DEF NearInv, TypeOK, RelayState
<1>3. relay.live # s
  <2>1. CASE relay.pc = "start"
    <3>1. relay.live = 0  BY <1>1, <2>1 DEF NearInv, Undisturbed
    <3>2. s # 0  BY DEF Subs
    <3> QED  BY <3>1, <3>2
  <2>2. CASE relay.pc = "run"  BY <2>2
  <2> QED  BY <1>2, <2>1, <2>2
<1>4. sub[s] = NoSub  BY <1>1, <1>3 DEF NearInv, Undisturbed
<1> QED  BY <1>4 DEF NoSub

\* The values that stand for nothing have their types.
LEMMA NothingType ==
    ASSUME blocks \in Chains
    PROVE  /\ Error \in Item /\ NoSub \in Sub /\ NoVerifier \in Verifier
           /\ NoSub.queue = <<>> /\ Len(<<>>) <= Ahead
           /\ [pc |-> "start", live |-> 0, srcMsg |-> <<>>] \in RelayState
<1>1. Len(blocks) \in Nat /\ MaxSeq \in Nat /\ MaxSubs \in Nat
  BY ChainType, EventsType, NearAssumption
<1>2. Error \in Item  BY DEF Item
<1>3. NoSub \in Sub
  <2>1. /\ 0 \in 0 .. MaxSeq + 1 /\ 0 \in 0 .. Len(blocks) /\ 0 \in 0 .. Len(blocks) + 1
        /\ "done" \in Statuses /\ FALSE \in BOOLEAN
        /\ <<>> \in Seq(Item) /\ <<>> \in Seq(Receipt)
    BY <1>1 DEF Statuses
  <2> QED  BY <1>2, <2>1 DEF NoSub, Sub
<1>4. NoVerifier \in Verifier  BY <1>1 DEF NoVerifier, Verifier
<1>5. [pc |-> "start", live |-> 0, srcMsg |-> <<>>] \in RelayState
  <2>1. <<>> \in Seq(Receipt) /\ 0 \in 0 .. MaxSubs  BY <1>1
  <2> QED  BY <2>1 DEF RelayState
<1>6. NoSub.queue = <<>> /\ Len(<<>>) <= Ahead  BY DEF NoSub, Ahead
<1> QED  BY <1>2, <1>3, <1>4, <1>5, <1>6

\* Before the first subscription everything is as the invariant says.
LEMMA NearInvInit == Init => NearInv
<1> SUFFICES ASSUME Init PROVE NearInv  OBVIOUS
<1>0. blocks \in Chains /\ verified \in BOOLEAN  BY NearAssumption DEF Init
<1>1. TypeOK
  <2>1. /\ Len(blocks) \in Nat /\ MaxSeq \in Nat
        /\ StartHeight \in DOMAIN blocks /\ FirstHead \in 0 .. Len(blocks) + 3
    BY <1>0, ChainType, EventsType
  <2>2. link \in Link  BY <2>1 DEF Init, Link
  <2>3. head \in FirstHead .. Len(blocks) + 3  BY <2>1 DEF Init
  <2>4. sub \in [Subs -> Sub] /\ \A s \in Subs : Len(sub[s].queue) <= Ahead
    BY <1>0, NothingType DEF Init
  <2>5. relay \in RelayState /\ verifier \in Verifier  BY <1>0, NothingType DEF Init
  <2>6. faults \in 0 .. MaxFaults /\ sent \subseteq Item  BY NearAssumption DEF Init
  <2> QED  BY <1>0, <2>2, <2>3, <2>4, <2>5, <2>6 DEF TypeOK
<1>2. VerifierSound  BY DEF Init, VerifierSound
<1>3. WaitingApproved  BY DEF Init, WaitingApproved, SentApproved
<1>4. EventsContinue /\ HeightsContinue  BY DEF Init, EventsContinue, HeightsContinue
<1>5. Undisturbed  BY DEF Init, Undisturbed
<1> QED  BY <1>1, <1>2, <1>3, <1>4, <1>5 DEF NearInv

-----------------------------------------------------------------------------
(* The steps.                                                              *)

\* A block is made.
LEMMA NewBlockKeeps == NearInv /\ NewBlock => NearInv'
<1> SUFFICES ASSUME NearInv, NewBlock PROVE NearInv'  OBVIOUS
<1>1. TypeOK'
  <2>1. Len(blocks) \in Nat /\ FirstHead \in Nat  BY ChainType DEF NearInv, TypeOK
  <2>2. head' \in FirstHead .. Len(blocks) + 3  BY <2>1 DEF NewBlock, NearInv, TypeOK
  <2> QED  BY <2>2, TypeIntro DEF NewBlock, NearInv, TypeOK
<1>2. VerifierSound'  BY DEF NearInv, NewBlock, VerifierSound, EpochSound
<1>3. EventsContinue' /\ HeightsContinue' /\ WaitingApproved'
  BY LiveFrame DEF NewBlock
<1>4. Undisturbed'
  BY DEF NearInv, NewBlock, Undisturbed, Known, Follows, EventsAt
<1> QED  BY <1>1, <1>2, <1>3, <1>4 DEF NearInv

\* A subscription fails for want of the block producers.
LEMMA SubscribeFailKeeps == NearInv /\ SubscribeFail => NearInv'
<1> SUFFICES ASSUME NearInv, SubscribeFail PROVE NearInv'  OBVIOUS
<1>0. TypeOK /\ blocks \in Chains /\ Fault  BY DEF NearInv, TypeOK, SubscribeFail
<1>1. TypeOK'
  <2>1. verifier' \in Verifier  BY <1>0, NothingType DEF SubscribeFail
  <2> QED  BY <1>0, <2>1, FaultDisturbs, TypeIntro DEF SubscribeFail, TypeOK
<1>2. VerifierSound'  BY DEF SubscribeFail, VerifierSound
<1>3. EventsContinue' /\ HeightsContinue' /\ WaitingApproved'
  BY StartFrame DEF SubscribeFail
<1>4. Undisturbed'  BY <1>0, FaultDisturbs
<1> QED  BY <1>1, <1>2, <1>3, <1>4 DEF NearInv

\* The process is restarted.
LEMMA CrashKeeps == NearInv /\ Crash => NearInv'
<1> SUFFICES ASSUME NearInv, Crash PROVE NearInv'  OBVIOUS
<1>0. TypeOK /\ blocks \in Chains /\ Fault  BY DEF NearInv, TypeOK, Crash
<1>1. TypeOK'
  <2>1. /\ verifier' \in Verifier /\ relay' \in RelayState
        /\ sub' \in [Subs -> Sub] /\ \A s \in Subs : Len(sub'[s].queue) <= Ahead
    BY <1>0, NothingType DEF Crash
  <2> QED  BY <1>0, <2>1, FaultDisturbs, TypeIntro DEF Crash, TypeOK
<1>2. relay'.pc = "start"  BY DEF Crash
<1>3. VerifierSound'  BY <1>2 DEF Crash, VerifierSound
<1>4. EventsContinue' /\ HeightsContinue' /\ WaitingApproved'
  BY <1>2, StartFrame DEF Crash
<1>5. Undisturbed'  BY <1>0, FaultDisturbs
<1> QED  BY <1>1, <1>3, <1>4, <1>5 DEF NearInv

\* The owner sets the height of the link.
LEMMA SetLinkRxHeightKeeps == NearInv /\ SetLinkRxHeight => NearInv'
<1> SUFFICES ASSUME NearInv, SetLinkRxHeight PROVE NearInv'  OBVIOUS
<1>0. TypeOK /\ blocks \in Chains /\ Fault  BY DEF NearInv, TypeOK, SetLinkRxHeight
<1>1. link' \in Link /\ link'.set
  <2>1. RxHeights \subseteq DOMAIN blocks  BY <1>0, ChainType
  <2> QED  BY <1>0, <2>1 DEF SetLinkRxHeight, TypeOK, Link
<1>2. TypeOK'  BY <1>0, <1>1, FaultDisturbs, TypeIntro DEF SetLinkRxHeight, TypeOK
<1>3. VerifierSound'  BY DEF NearInv, SetLinkRxHeight, VerifierSound, EpochSound
<1>4. EventsContinue' /\ HeightsContinue'  BY <1>1 DEF EventsContinue, HeightsContinue
<1>5. WaitingApproved'
  BY DEF NearInv, SetLinkRxHeight, WaitingApproved, SentApproved, Good
<1>6. Undisturbed'  BY <1>0, FaultDisturbs
<1> QED  BY <1>2, <1>3, <1>4, <1>5, <1>6 DEF NearInv

\* The parts of a subscription have their types.
LEMMA SubFields ==
    ASSUME TypeOK, NEW s \in Subs
    PROVE  /\ sub[s] \in Sub
           /\ sub[s].pc \in Statuses /\ sub[s].seq \in 0 .. MaxSeq + 1
           /\ sub[s].height \in 0 .. Len(blocks) /\ sub[s].pos \in 0 .. Len(blocks) + 1
           /\ sub[s].queue \in Seq(Item) /\ sub[s].ended \in BOOLEAN
           /\ sub[s].block \in Item /\ sub[s].msg \in Seq(Receipt)
           /\ Len(sub[s].queue) <= Ahead
<1>1. sub[s] \in Sub /\ Len(sub[s].queue) <= Ahead  BY DEF TypeOK
<1> QED  BY <1>1 DEF Sub

\* A step of one subscription leaves the others alone.
LEMMA OneSub ==
    ASSUME TypeOK, NEW s \in Subs, NEW n \in Sub, Len(n.queue) <= Ahead,
           sub' = [sub EXCEPT ![s] = n]
    PROVE  /\ sub' \in [Subs -> Sub] /\ \A t \in Subs : Len(sub'[t].queue) <= Ahead
           /\ sub'[s] = n
           /\ \A t \in Subs \ {s} : sub'[t] = sub[t]
BY DEF TypeOK

\* A subscription that is not the one of the relay disturbs nothing.
LEMMA OtherSub ==
    ASSUME NearInv, NEW s \in Subs, ~(relay.pc = "run" /\ relay.live = s),
           \A t \in Subs \ {s} : sub'[t] = sub[t],
           UNCHANGED <<blocks, verified, link, relay, sent>>
    PROVE  EventsContinue' /\ HeightsContinue' /\ WaitingApproved'
<1>1. relay.pc = "run" => sub'[relay.live] = sub[relay.live]
  BY DEF NearInv, VerifierSound
<1> QED  BY <1>1, LiveFrame

\* What waits stays approved.
LEMMA WaitingFrame ==
    ASSUME NearInv, UNCHANGED <<blocks, verified, sent>>,
           NEW s \in Subs, relay'.live = s,
           verified => \A i \in 1 .. Len(sub'[s].queue) :
                          sub'[s].queue[i] = Error \/ Good(sub'[s].queue[i]),
           verified /\ sub'[s].pc = "message" => Good(sub'[s].block)
    PROVE  WaitingApproved'
<1>1. SentApproved'  BY DEF NearInv, WaitingApproved, SentApproved, Good
<1>2. verified => (\A i \in 1 .. Len(sub[s].queue) :
                     sub[s].queue[i] = Error \/ Good(sub[s].queue[i]))'
  BY DEF Good
<1>3. verified => (sub[s].pc = "message" => Good(sub[s].block))'  BY DEF Good
<1> QED  BY <1>1, <1>2, <1>3 DEF WaitingApproved

\* A block cannot be synchronised.
LEMMA SyncFailKeeps ==
    ASSUME NearInv, NEW s \in Subs, SyncFail(s) PROVE NearInv'
<1> DEFINE n == [sub[s] EXCEPT !.pc = "syncError"]
<1>0. TypeOK /\ blocks \in Chains /\ Fault  BY DEF NearInv, TypeOK, SyncFail
<1>1. /\ n \in Sub /\ n.pc = "syncError" /\ n.seq = sub[s].seq /\ n.height = sub[s].height
      /\ n.pos = sub[s].pos /\ n.queue = sub[s].queue /\ n.msg = sub[s].msg
  BY <1>0, SubFields DEF Sub, Statuses
<1>2. Len(n.queue) <= Ahead  BY <1>0, <1>1, SubFields
<1>3. sub' = [sub EXCEPT ![s] = n]  BY DEF SyncFail
<1> HIDE DEF n
<1>4. /\ sub' \in [Subs -> Sub] /\ \A t \in Subs : Len(sub'[t].queue) <= Ahead
      /\ sub'[s] = n /\ \A t \in Subs \ {s} : sub'[t] = sub[t]
  BY <1>0, <1>1, <1>2, <1>3, OneSub
<1>5. TypeOK'  BY <1>0, <1>4, FaultDisturbs, TypeIntro DEF SyncFail, TypeOK
<1>6. VerifierSound'  BY DEF NearInv, SyncFail, VerifierSound, EpochSound
<1>7. Undisturbed'  BY <1>0, FaultDisturbs
<1>8. EventsContinue' /\ HeightsContinue' /\ WaitingApproved'
  <2>1. CASE ~(relay.pc = "run" /\ relay.live = s)
    BY <1>4, <2>1, OtherSub DEF SyncFail
  <2>2. CASE relay.pc = "run" /\ relay.live = s
    <3>1. /\ relay' = relay /\ link' = link /\ sub[s].pc = "sync" /\ sub'[s] = n
          /\ UNCHANGED <<blocks, verified, sent>>
      BY <1>4 DEF SyncFail
    <3>2. \A h : NotBelow(h)' <=> NotBelow(h)  BY <3>1 DEF NotBelow
    <3>3. EventsContinue'  BY <1>1, <2>2, <3>1 DEF NearInv, EventsContinue
    <3>4. HeightsContinue'  BY <1>1, <2>2, <3>1, <3>2 DEF NearInv, HeightsContinue
    <3>5. WaitingApproved'
      BY <1>1, <2>2, <3>1, WaitingFrame DEF NearInv, WaitingApproved
    <3> QED  BY <3>3, <3>4, <3>5
  <2> QED  BY <2>1, <2>2
<1> QED  BY <1>5, <1>6, <1>7, <1>8 DEF NearInv

\* The relay takes an error.
LEMMA SendErrorKeeps ==
    ASSUME NearInv, NEW s \in Subs, SendError(s) PROVE NearInv'
<1> DEFINE n == CASE sub[s].pc = "syncError" ->
                        [sub[s] EXCEPT !.pc = "receive", !.pos = sub[s].height]
                  [] sub[s].pc = "seqError"  -> [sub[s] EXCEPT !.pc = "receive"]
                  [] sub[s].pc = "error"     -> NoSub
<1>0. TypeOK /\ blocks \in Chains  BY DEF NearInv, TypeOK, SendError
<1>1. n \in Sub /\ Len(n.queue) <= Ahead
  <2>1. CASE sub[s].pc = "syncError"
    <3> DEFINE m == [sub[s] EXCEPT !.pc = "receive", !.pos = sub[s].height]
    <3>1. n = m  BY <2>1
    <3>2. sub[s].height \in 0 .. Len(blocks) + 1  BY <1>0, SubFields, ChainType
    <3>3. m \in Sub /\ m.queue = sub[s].queue
      BY <1>0, <3>2, SubFields DEF Sub, Statuses
    <3> QED  BY <1>0, <3>1, <3>3, SubFields
  <2>2. CASE sub[s].pc = "seqError"
    <3> DEFINE m == [sub[s] EXCEPT !.pc = "receive"]
    <3>1. n = m  BY <2>2
    <3>3. m \in Sub /\ m.queue = sub[s].queue  BY <1>0, SubFields DEF Sub, Statuses
    <3> QED  BY <1>0, <3>1, <3>3, SubFields
  <2>3. CASE sub[s].pc = "error"
    <3>1. n = NoSub  BY <2>3
    <3> QED  BY <1>0, <3>1, NothingType
  <2> QED  BY <2>1, <2>2, <2>3 DEF SendError
<1>2. sub' = [sub EXCEPT ![s] = n]  BY DEF SendError
<1> HIDE DEF n
<1>3. sub' \in [Subs -> Sub] /\ \A t \in Subs : Len(sub'[t].queue) <= Ahead
  BY <1>0, <1>1, <1>2, OneSub
<1>4. relay' \in RelayState /\ relay'.pc = "start"
  BY <1>0, NothingType DEF SendError
<1>5. TypeOK'  BY <1>0, <1>3, <1>4, TypeIntro DEF SendError, TypeOK
<1>6. VerifierSound'  BY <1>4 DEF NearInv, SendError, VerifierSound, EpochSound
<1>7. EventsContinue' /\ HeightsContinue' /\ WaitingApproved'
  BY <1>4, StartFrame DEF SendError
<1>8. Undisturbed'
  <2>1. ~(faults = 0 /\ Known(StartHeight - 1))
    BY DEF NearInv, Undisturbed, SendError
  <2> QED  BY <2>1 DEF Undisturbed, Known, SendError
<1> QED  BY <1>5, <1>6, <1>7, <1>8 DEF NearInv

\* The parts of HeightsContinue, one by one.
LEMMA HeightsIntro ==
    ASSUME NEW s \in Subs, relay'.live = s,
           (\A i, j \in 1 .. Len(relay.srcMsg) :
               i < j => relay.srcMsg[i].height <= relay.srcMsg[j].height)',
           (\A i \in 1 .. Len(relay.srcMsg) :
               relay.srcMsg[i].seq > link.rxSeq => relay.srcMsg[i].height >= link.rxHeight)',
           (\A i, j \in 1 .. Len(sub[s].msg) : sub[s].msg[i].height = sub[s].msg[j].height)',
           (\A i \in 1 .. Len(sub[s].msg) :
               NotBelow(sub[s].msg[i].height) /\ sub[s].msg[i].height <= sub[s].pos)',
           (\A i \in 1 .. Len(sub[s].queue) : sub[s].queue[i] # Error =>
               /\ NotBelow(sub[s].queue[i].height)
               /\ sub[s].queue[i].height < sub[s].pos
               /\ \A j \in 1 .. Len(sub[s].msg) :
                     sub[s].msg[j].height <= sub[s].queue[i].height
               /\ \A j \in 1 .. i - 1 : sub[s].queue[j].height < sub[s].queue[i].height)',
           (sub[s].pc \in {"receive", "message", "seqError", "error"} => NotBelow(sub[s].pos))',
           (sub[s].pc \in {"sync", "syncError"} =>
               NotBelow(sub[s].height) /\ sub[s].queue = <<>> /\ sub[s].msg = <<>>)',
           (sub[s].pc = "receive" => sub[s].msg = <<>>)'
    PROVE  HeightsContinue'
BY DEF HeightsContinue

\* The parts of HeightsContinue, before a step.
LEMMA HeightsElim ==
    ASSUME NearInv, NEW s \in Subs, relay.pc = "run", relay.live = s, ~link.set
    PROVE  /\ \A i, j \in 1 .. Len(relay.srcMsg) :
                 i < j => relay.srcMsg[i].height <= relay.srcMsg[j].height
           /\ \A i \in 1 .. Len(relay.srcMsg) :
                 relay.srcMsg[i].seq > link.rxSeq => relay.srcMsg[i].height >= link.rxHeight
           /\ \A i, j \in 1 .. Len(sub[s].msg) : sub[s].msg[i].height = sub[s].msg[j].height
           /\ \A i \in 1 .. Len(sub[s].msg) :
                 NotBelow(sub[s].msg[i].height) /\ sub[s].msg[i].height <= sub[s].pos
           /\ \A i \in 1 .. Len(sub[s].queue) : sub[s].queue[i] # Error =>
                 /\ NotBelow(sub[s].queue[i].height)
                 /\ sub[s].queue[i].height < sub[s].pos
                 /\ \A j \in 1 .. Len(sub[s].msg) :
                       sub[s].msg[j].height <= sub[s].queue[i].height
                 /\ \A j \in 1 .. i - 1 : sub[s].queue[j].height < sub[s].queue[i].height
           /\ sub[s].pc \in {"receive", "message", "seqError", "error"} => NotBelow(sub[s].pos)
           /\ sub[s].pc \in {"sync", "syncError"} =>
                 NotBelow(sub[s].height) /\ sub[s].queue = <<>> /\ sub[s].msg = <<>>
           /\ sub[s].pc = "receive" => sub[s].msg = <<>>
BY DEF NearInv, HeightsContinue

\* A subscription that adds nothing but errors to its queue, and whose
\* position does not go back, keeps its heights.
LEMMA HeightsFrame ==
    ASSUME NearInv, NEW s \in Subs, relay.pc = "run", relay.live = s,
           UNCHANGED <<blocks, link, relay>>,
           sub'[s].msg = sub[s].msg, sub'[s].height = sub[s].height,
           sub'[s].pos = sub[s].pos,
           \A i \in 1 .. Len(sub'[s].queue) :
              \/ sub'[s].queue[i] = Error
              \/ i \in 1 .. Len(sub[s].queue) /\ \A j \in 1 .. i : sub'[s].queue[j] = sub[s].queue[j],
           sub'[s].pc = sub[s].pc,
           sub[s].pc \in {"sync", "syncError"} => sub'[s].queue = <<>>
    PROVE  HeightsContinue'
<1>1. SUFFICES ASSUME ~link.set PROVE HeightsContinue'  BY DEF HeightsContinue
<1>2. \A h : NotBelow(h)' <=> NotBelow(h)  BY DEF NotBelow
<1>3. ASSUME NEW i \in 1 .. Len(sub'[s].queue), sub'[s].queue[i] # Error
      PROVE  (/\ NotBelow(sub[s].queue[i].height)
              /\ sub[s].queue[i].height < sub[s].pos
              /\ \A j \in 1 .. Len(sub[s].msg) :
                    sub[s].msg[j].height <= sub[s].queue[i].height
              /\ \A j \in 1 .. i - 1 : sub[s].queue[j].height < sub[s].queue[i].height)'
  <2>1. /\ i \in 1 .. Len(sub[s].queue)
        /\ \A j \in 1 .. i : sub'[s].queue[j] = sub[s].queue[j]
    BY <1>3
  <2>2. sub'[s].queue[i] = sub[s].queue[i] /\ \A j \in 1 .. i - 1 : sub'[s].queue[j] = sub[s].queue[j]
    BY <2>1
  <2>3. /\ NotBelow(sub[s].queue[i].height)
        /\ sub[s].queue[i].height < sub[s].pos
        /\ \A j \in 1 .. Len(sub[s].msg) :
              sub[s].msg[j].height <= sub[s].queue[i].height
        /\ \A j \in 1 .. i - 1 : sub[s].queue[j].height < sub[s].queue[i].height
    BY <1>1, <1>3, <2>1, <2>2, HeightsElim
  <2> QED  BY <1>2, <2>2, <2>3
<1>4. relay'.live = s  OBVIOUS
<1>5. (\A i \in 1 .. Len(sub[s].queue) : sub[s].queue[i] # Error =>
          /\ NotBelow(sub[s].queue[i].height)
          /\ sub[s].queue[i].height < sub[s].pos
          /\ \A j \in 1 .. Len(sub[s].msg) :
                sub[s].msg[j].height <= sub[s].queue[i].height
          /\ \A j \in 1 .. i - 1 : sub[s].queue[j].height < sub[s].queue[i].height)'
  BY <1>3
<1>6. /\ relay' = relay /\ link' = link /\ sub'[s].msg = sub[s].msg
      /\ sub'[s].height = sub[s].height /\ sub'[s].pos = sub[s].pos /\ sub'[s].pc = sub[s].pc
  OBVIOUS
<1>7. (\A i \in 1 .. Len(sub[s].msg) :
          NotBelow(sub[s].msg[i].height) /\ sub[s].msg[i].height <= sub[s].pos)'
  BY <1>1, <1>2, <1>6, HeightsElim
<1>8. (sub[s].pc \in {"receive", "message", "seqError", "error"} => NotBelow(sub[s].pos))'
  BY <1>1, <1>2, <1>6, HeightsElim
<1>9. (sub[s].pc \in {"sync", "syncError"} =>
          NotBelow(sub[s].height) /\ sub[s].queue = <<>> /\ sub[s].msg = <<>>)'
  BY <1>1, <1>2, <1>6, HeightsElim
<1>10. /\ (\A i, j \in 1 .. Len(relay.srcMsg) :
              i < j => relay.srcMsg[i].height <= relay.srcMsg[j].height)'
       /\ (\A i \in 1 .. Len(relay.srcMsg) :
              relay.srcMsg[i].seq > link.rxSeq => relay.srcMsg[i].height >= link.rxHeight)'
  BY <1>1, <1>6, HeightsElim
<1>11. /\ (\A i, j \in 1 .. Len(sub[s].msg) : sub[s].msg[i].height = sub[s].msg[j].height)'
       /\ (sub[s].pc = "receive" => sub[s].msg = <<>>)'
  BY <1>1, <1>6, HeightsElim
<1> QED  BY <1>4, <1>5, <1>7, <1>8, <1>9, <1>10, <1>11, HeightsIntro

\* Receipts one after the other in the order of their numbers.
LEMMA JoinSeqs ==
    ASSUME NEW R, NEW a \in Seq(R), NEW b \in Seq(R)
    PROVE  /\ Len(a) \in Nat /\ Len(b) \in Nat
           /\ a \o b \in Seq(R) /\ Len(a \o b) = Len(a) + Len(b)
           /\ \A i \in 1 .. Len(a) : (a \o b)[i] = a[i]
           /\ \A i \in 1 .. Len(b) : (a \o b)[Len(a) + i] = b[i]
           /\ \A i \in 1 .. Len(a \o b) :
                 i \in 1 .. Len(a) \/ \E j \in 1 .. Len(b) : i = Len(a) + j
           /\ a = <<>> => a \o b = b
           /\ a = <<>> <=> Len(a) = 0
<1>1. Len(a) \in Nat /\ Len(b) \in Nat  OBVIOUS
<1>2. /\ a \o b \in Seq(R) /\ Len(a \o b) = Len(a) + Len(b)
      /\ \A i \in 1 .. Len(a) + Len(b) :
            (a \o b)[i] = IF i <= Len(a) THEN a[i] ELSE b[i - Len(a)]
  BY ConcatProperties
<1>3. \A i \in 1 .. Len(a) : (a \o b)[i] = a[i]  BY <1>1, <1>2
<1>4. ASSUME NEW i \in 1 .. Len(b) PROVE (a \o b)[Len(a) + i] = b[i]
  <2>1. Len(a) + i \in 1 .. Len(a) + Len(b) /\ ~(Len(a) + i <= Len(a)) /\ Len(a) + i - Len(a) = i
    BY <1>1
  <2> QED  BY <1>2, <2>1
<1>5. ASSUME NEW i \in 1 .. Len(a \o b)
      PROVE  i \in 1 .. Len(a) \/ \E j \in 1 .. Len(b) : i = Len(a) + j
  <2>1. CASE i <= Len(a)  BY <1>1, <1>2, <2>1
  <2>2. CASE i > Len(a)
    <3>1. i - Len(a) \in 1 .. Len(b) /\ i = Len(a) + (i - Len(a))  BY <1>1, <1>2, <2>2
    <3> QED  BY <3>1
  <2> QED  BY <1>1, <1>2, <2>1, <2>2
<1>6. a = <<>> => a \o b = b  OBVIOUS
<1>7. a = <<>> <=> Len(a) = 0  BY EmptySeq
<1> QED  BY <1>1, <1>2, <1>3, <1>4, <1>5, <1>6, <1>7

\* Receipts that are numbered one by one, from no later than next, and the
\* ones that follow them.
LEMMA JoinNumbers ==
    ASSUME NEW R, NEW a \in Seq(R), NEW b \in Seq(R), NEW seq \in Int, NEW next \in Int,
           \A r \in R : r.seq \in Int,
           \A i \in 1 .. Len(a) : a[i].seq = a[1].seq + i - 1,
           a # <<>> => a[1].seq <= next,
           \A i \in 1 .. Len(b) : b[i].seq = (seq - Len(b)) + i - 1,
           IF a = <<>> THEN seq - Len(b) <= next ELSE seq - Len(b) = a[Len(a)].seq + 1
    PROVE  /\ \A i \in 1 .. Len(a \o b) : (a \o b)[i].seq = (a \o b)[1].seq + i - 1
           /\ a \o b # <<>> => (a \o b)[1].seq <= next
           /\ IF a \o b = <<>> THEN seq <= next ELSE seq = (a \o b)[Len(a \o b)].seq + 1
<1> DEFINE c == a \o b
<1>1. /\ Len(a) \in Nat /\ Len(b) \in Nat
      /\ c \in Seq(R) /\ Len(c) = Len(a) + Len(b)
      /\ \A i \in 1 .. Len(a) : c[i] = a[i]
      /\ \A i \in 1 .. Len(b) : c[Len(a) + i] = b[i]
      /\ \A i \in 1 .. Len(c) :
            i \in 1 .. Len(a) \/ \E j \in 1 .. Len(b) : i = Len(a) + j
      /\ a = <<>> <=> Len(a) = 0
      /\ c = <<>> <=> Len(c) = 0
  <2>1. c \in Seq(R) => (c = <<>> <=> Len(c) = 0)  BY EmptySeq
  <2> HIDE DEF c
  <2> QED  BY <2>1, JoinSeqs DEF c
<1> HIDE DEF c
<1>2. \E f \in Int : /\ \A i \in 1 .. Len(c) : c[i].seq = f + i - 1
                     /\ seq = f + Len(c)
                     /\ f <= next
  <2>1. CASE a = <<>>
    <3>1. Len(a) = 0 /\ Len(c) = Len(b)  BY <1>1, <2>1
    <3>2. \A i \in 1 .. Len(c) : c[i].seq = (seq - Len(b)) + i - 1
      <4>1. \A i \in 1 .. Len(b) : c[i] = b[i]  BY <1>1, <3>1
      <4> QED  BY <3>1, <4>1
    <3>3. seq - Len(b) \in Int /\ seq = (seq - Len(b)) + Len(c) /\ seq - Len(b) <= next
      BY <1>1, <2>1, <3>1
    <3> QED  BY <3>2, <3>3
  <2>2. CASE a # <<>>
    <3>1. 1 \in 1 .. Len(a) /\ Len(a) \in 1 .. Len(a)  BY <1>1, <2>2
    <3>2. a[1].seq \in Int  BY <3>1
    <3>3. seq - Len(b) = a[1].seq + Len(a)
      <4>1. a[Len(a)].seq = a[1].seq + Len(a) - 1  BY <3>1
      <4> QED  BY <1>1, <2>2, <3>2, <4>1
    <3>4. ASSUME NEW i \in 1 .. Len(c) PROVE c[i].seq = a[1].seq + i - 1
      <4>1. CASE i \in 1 .. Len(a)  BY <1>1, <4>1
      <4>2. CASE \E j \in 1 .. Len(b) : i = Len(a) + j
        <5>1. PICK j \in 1 .. Len(b) : i = Len(a) + j  BY <4>2
        <5>2. c[i] = b[j] /\ b[j].seq = (seq - Len(b)) + j - 1  BY <1>1, <5>1
        <5>3. Len(a) \in Nat /\ Len(b) \in Nat /\ j \in Int  BY <1>1
        <5>4. c[i].seq = (a[1].seq + Len(a)) + j - 1  BY <3>3, <5>2
        <5> QED  BY <3>2, <5>1, <5>3, <5>4
      <4> QED  BY <1>1, <4>1, <4>2
    <3>5. seq = a[1].seq + Len(c)
      <4>1. Len(a) \in Nat /\ Len(b) \in Nat /\ Len(c) = Len(a) + Len(b)  BY <1>1
      <4>2. seq \in Int  OBVIOUS
      <4> QED  BY ONLY <3>2, <3>3, <4>1, <4>2
    <3>6. a[1].seq <= next  BY <2>2
    <3> QED  BY <3>2, <3>4, <3>5, <3>6
  <2> QED  BY <2>1, <2>2
<1>3. PICK f \in Int : /\ \A i \in 1 .. Len(c) : c[i].seq = f + i - 1
                       /\ seq = f + Len(c)
                       /\ f <= next
  BY <1>2
<1>4. CASE c = <<>>
  <2>1. Len(c) = 0  BY <1>1, <1>4
  <2> QED  BY <1>3, <1>4, <2>1 DEF c
<1>5. CASE c # <<>>
  <2>1. 1 \in 1 .. Len(c) /\ Len(c) \in 1 .. Len(c)  BY <1>1, <1>5
  <2>2. c[1].seq = f /\ c[Len(c)].seq = f + Len(c) - 1  BY <1>3, <2>1
  <2>3. \A i \in 1 .. Len(c) : c[i].seq = c[1].seq + i - 1  BY <1>3, <2>2
  <2>4. seq = c[Len(c)].seq + 1  BY <1>1, <1>3, <2>2
  <2> QED  BY <1>3, <1>5, <2>2, <2>3, <2>4 DEF c
<1> QED  BY <1>4, <1>5

\* A block cannot be fetched.
LEMMA ScanFailKeeps ==
    ASSUME NearInv, NEW s \in Subs, ScanFail(s) PROVE NearInv'
<1> DEFINE q == sub[s].queue
           n == [sub[s] EXCEPT !.ended = TRUE, !.queue = Append(@, Error)]
<1>0. TypeOK /\ blocks \in Chains /\ Fault /\ Len(q) < Ahead
  BY DEF NearInv, TypeOK, ScanFail, Scans
<1>1. /\ Append(q, Error) \in Seq(Item) /\ Len(Append(q, Error)) = Len(q) + 1
      /\ Len(q) \in Nat
      /\ \A i \in 1 .. Len(q) : Append(q, Error)[i] = q[i]
      /\ Append(q, Error)[Len(q) + 1] = Error
  BY <1>0, SubFields, NothingType
<1>2. /\ n \in Sub /\ n.pc = sub[s].pc /\ n.seq = sub[s].seq /\ n.height = sub[s].height
      /\ n.pos = sub[s].pos /\ n.queue = Append(q, Error) /\ n.msg = sub[s].msg
      /\ n.block = sub[s].block
  BY <1>0, <1>1, SubFields DEF Sub
<1>3. Len(n.queue) <= Ahead  BY <1>0, <1>1, <1>2 DEF Ahead
<1>4. sub' = [sub EXCEPT ![s] = n]  BY DEF ScanFail
<1> HIDE DEF n
<1>5. /\ sub' \in [Subs -> Sub] /\ \A t \in Subs : Len(sub'[t].queue) <= Ahead
      /\ sub'[s] = n /\ \A t \in Subs \ {s} : sub'[t] = sub[t]
  BY <1>0, <1>2, <1>3, <1>4, OneSub
<1>6. TypeOK'  BY <1>0, <1>5, FaultDisturbs, TypeIntro DEF ScanFail, TypeOK
<1>7. VerifierSound'  BY DEF NearInv, ScanFail, VerifierSound, EpochSound
<1>8. Undisturbed'  BY <1>0, FaultDisturbs
<1>9. EventsContinue' /\ HeightsContinue' /\ WaitingApproved'
  <2>1. CASE ~(relay.pc = "run" /\ relay.live = s)
    BY <1>5, <2>1, OtherSub DEF ScanFail
  <2>2. CASE relay.pc = "run" /\ relay.live = s
    <3>1. /\ relay' = relay /\ link' = link /\ sub'[s] = n
          /\ UNCHANGED <<blocks, verified, sent>>
          /\ sub[s].pc \in {"receive", "message", "seqError"}
      BY <1>5 DEF ScanFail, Scans
    <3>3. EventsContinue'  BY <1>2, <2>2, <3>1 DEF NearInv, EventsContinue
    <3>4. HeightsContinue'
      <4>1. \A i \in 1 .. Len(n.queue) :
               \/ n.queue[i] = Error
               \/ i \in 1 .. Len(q) /\ \A j \in 1 .. i : n.queue[j] = q[j]
        BY <1>1, <1>2
      <4> QED  BY <1>2, <2>2, <3>1, <4>1, HeightsFrame
    <3>5. WaitingApproved'
      <4>1. verified => \A i \in 1 .. Len(q) : q[i] = Error \/ Good(q[i])
        BY <2>2 DEF NearInv, WaitingApproved
      <4>2. verified => \A i \in 1 .. Len(n.queue) : n.queue[i] = Error \/ Good(n.queue[i])
        BY <1>1, <1>2, <4>1
      <4>3. verified /\ n.pc = "message" => Good(n.block)
        BY <1>2, <2>2 DEF NearInv, WaitingApproved
      <4> QED  BY <2>2, <3>1, <4>2, <4>3, WaitingFrame
    <3> QED  BY <3>3, <3>4, <3>5
  <2> QED  BY <2>1, <2>2
<1> QED  BY <1>6, <1>7, <1>8, <1>9 DEF NearInv

\* The receipts of a block go to the relay.
LEMMA SendMessageKeeps ==
    ASSUME NearInv, NEW s \in Subs, SendMessage(s) PROVE NearInv'
<1> DEFINE n   == [sub[s] EXCEPT !.pc = "receive", !.msg = <<>>, !.block = Error]
           src == relay.srcMsg
           msg == sub[s].msg
<1>0. /\ TypeOK /\ blocks \in Chains /\ relay \in RelayState
      /\ sub[s].pc = "message" /\ relay.pc = "run" /\ relay.live = s
      /\ relay' = [relay EXCEPT !.srcMsg = @ \o sub[s].msg]
      /\ sent' = sent \cup {sub[s].block}
      /\ UNCHANGED <<blocks, verified, head, link, verifier, faults>>
  BY DEF NearInv, TypeOK, SendMessage
<1>1. /\ n \in Sub /\ n.pc = "receive" /\ n.seq = sub[s].seq /\ n.height = sub[s].height
      /\ n.pos = sub[s].pos /\ n.queue = sub[s].queue /\ n.msg = <<>>
      /\ n.ended = sub[s].ended
  <2>1. <<>> \in Seq(Receipt)  OBVIOUS
  <2> QED  BY <1>0, <2>1, SubFields, NothingType DEF Sub, Statuses
<1>2. Len(n.queue) <= Ahead  BY <1>0, <1>1, SubFields
<1>3. sub' = [sub EXCEPT ![s] = n]  BY DEF SendMessage
<1> HIDE DEF n
<1>4. /\ sub' \in [Subs -> Sub] /\ \A t \in Subs : Len(sub'[t].queue) <= Ahead
      /\ sub'[s] = n /\ \A t \in Subs \ {s} : sub'[t] = sub[t]
  BY <1>0, <1>1, <1>2, <1>3, OneSub
<1>5. src \in Seq(Receipt) /\ msg \in Seq(Receipt) /\ src \o msg \in Seq(Receipt)
  <2>1. src \in Seq(Receipt) /\ msg \in Seq(Receipt)
    BY <1>0, SubFields DEF RelayState
  <2> QED  BY <2>1, JoinSeqs
<1>6. relay' \in RelayState /\ relay'.pc = "run" /\ relay'.live = s /\ relay'.srcMsg = src \o msg
  BY <1>0, <1>5 DEF RelayState
<1>7. TypeOK'
  <2>1. sent' \in SUBSET Item  BY <1>0, SubFields DEF TypeOK
  <2> QED  BY <1>0, <1>4, <1>6, <2>1, TypeIntro DEF TypeOK
<1>8. VerifierSound'  BY <1>0, <1>6 DEF NearInv, VerifierSound, EpochSound
<1>9. WaitingApproved'
  <2>1. verified => Good(sub[s].block)  BY <1>0 DEF NearInv, WaitingApproved
  <2>2. SentApproved'
    BY <1>0, <2>1 DEF NearInv, WaitingApproved, SentApproved, Good
  <2>3. verified => \A i \in 1 .. Len(n.queue) : n.queue[i] = Error \/ Good(n.queue[i])
    BY <1>0, <1>1 DEF NearInv, WaitingApproved
  <2>4. verified => (\A i \in 1 .. Len(sub[s].queue) :
                        sub[s].queue[i] = Error \/ Good(sub[s].queue[i]))'
    <3>2. sub'[s].queue = n.queue /\ Error' = Error  BY <1>4 DEF Error
    <3>3. \A b : Good(b) => (LET stakes == Stakes[blocks'[b.height].epoch]
                                 listed == DOMAIN b.approvals \cap DOMAIN stakes
                             IN  3 * StakeOf(stakes, {i \in listed : b.approvals[i]})
                                   > 2 * StakeOf(stakes, listed))
      BY <1>0 DEF Good
    <3> HIDE DEF n
    <3> QED  BY <2>3, <3>2, <3>3 DEF Good
  <2>5. (sub[s].pc = "message" => Good(sub[s].block))'  BY <1>1, <1>4
  <2> QED  BY <1>0, <1>6, <2>2, <2>4, <2>5 DEF WaitingApproved
<1>10. Undisturbed'
  <2>1. SUFFICES ASSUME faults = 0, Known(StartHeight - 1) PROVE Undisturbed'
    BY <1>0 DEF Undisturbed, Known
  <2>2. \A h : Known(h)' <=> Known(h)  BY <1>0 DEF Known
  <2>3. \A p : Follows(p)' <=> Follows(p)  BY <1>0, <2>2 DEF Follows
  <2>4. \A h : EventsAt(h)' = EventsAt(h)  BY <1>0 DEF EventsAt
  <2> QED  BY <1>0, <1>1, <1>4, <1>6, <2>1, <2>2, <2>3, <2>4 DEF NearInv, Undisturbed
<1>11. EventsContinue'
  <2>1. SUFFICES ASSUME ~link.set PROVE EventsContinue'  BY <1>0 DEF EventsContinue
  <2>2. /\ \A i \in 1 .. Len(src) : src[i].seq = src[1].seq + i - 1
        /\ src # <<>> => src[1].seq <= link.rxSeq + 1
        /\ \A i \in 1 .. Len(msg) : msg[i].seq = (sub[s].seq - Len(msg)) + i - 1
        /\ IF src = <<>> THEN sub[s].seq - Len(msg) <= link.rxSeq + 1
           ELSE sub[s].seq - Len(msg) = src[Len(src)].seq + 1
    BY <1>0, <2>1 DEF NearInv, EventsContinue
  <2>3. sub[s].seq \in Int /\ link.rxSeq + 1 \in Int /\ \A r \in Receipt : r.seq \in Int
    BY <1>0, SubFields, EventsType DEF Receipt, TypeOK, Link
  <2> DEFINE new == src \o msg
  <2>4. /\ \A i \in 1 .. Len(new) : new[i].seq = new[1].seq + i - 1
        /\ new # <<>> => new[1].seq <= link.rxSeq + 1
        /\ IF new = <<>> THEN sub[s].seq <= link.rxSeq + 1
           ELSE sub[s].seq = new[Len(new)].seq + 1
    <3> HIDE DEF src, msg
    <3> QED  BY ZenonT(20), <1>5, <2>2, <2>3, JoinNumbers
  <2> HIDE DEF new
  <2>5. n.seq - Len(n.msg) = sub[s].seq /\ n.msg = <<>> /\ Len(n.msg) = 0  BY <1>1, <2>3
  <2>6. relay'.srcMsg = new /\ link' = link  BY <1>0, <1>6 DEF new
  <2> QED  BY <1>4, <1>6, <2>4, <2>5, <2>6 DEF EventsContinue
<1>12. HeightsContinue'
  <2>1. SUFFICES ASSUME ~link.set PROVE HeightsContinue'  BY <1>0 DEF HeightsContinue
  <2> DEFINE new == src \o msg
  <2>2. \A i \in 1 .. Len(new) :
          \/ i \in 1 .. Len(src) /\ new[i] = src[i]
          \/ \E j \in 1 .. Len(msg) : i = Len(src) + j /\ new[i] = msg[j]
    <3> HIDE DEF src, msg
    <3>1. /\ \A i \in 1 .. Len(src) : new[i] = src[i]
          /\ \A i \in 1 .. Len(msg) : new[Len(src) + i] = msg[i]
          /\ \A i \in 1 .. Len(new) :
                i \in 1 .. Len(src) \/ \E j \in 1 .. Len(msg) : i = Len(src) + j
      BY <1>5, JoinSeqs
    <3> HIDE DEF new
    <3> QED  BY ONLY <3>1
  <2>3. relay'.srcMsg = new /\ link' = link /\ sub'[s] = n /\ Len(src) \in Nat
    <3>1. Len(src) \in Nat
      <4> HIDE DEF src, msg
      <4> QED  BY <1>5, JoinSeqs
    <3> QED  BY <1>0, <1>4, <1>6, <3>1
  <2> HIDE DEF new
  <2>4. /\ \A i \in 1 .. Len(src) : src[i].height \in Nat
        /\ \A i \in 1 .. Len(msg) : msg[i].height \in Nat
    <3>1. \A r \in Receipt : r.height \in Nat  BY <1>0, ChainType DEF Receipt
    <3> HIDE DEF src, msg
    <3> QED  BY <1>5, <3>1
  <2>5. ASSUME NEW h, NotBelow(h), \A j \in 1 .. Len(msg) : msg[j].height <= h
        PROVE  NotBelow(h)'
    BY <2>2, <2>3, <2>5 DEF NotBelow
  <2>6. (\A i, j \in 1 .. Len(relay.srcMsg) :
            i < j => relay.srcMsg[i].height <= relay.srcMsg[j].height)'
    <3>1. ASSUME NEW i \in 1 .. Len(new), NEW j \in 1 .. Len(new), i < j
          PROVE  new[i].height <= new[j].height
      <4>1. CASE i \in 1 .. Len(src) /\ new[i] = src[i]
        <5>1. CASE j \in 1 .. Len(src) /\ new[j] = src[j]
          BY <1>0, <2>1, <3>1, <4>1, <5>1, HeightsElim
        <5>2. CASE \E k \in 1 .. Len(msg) : j = Len(src) + k /\ new[j] = msg[k]
          <6>1. PICK k \in 1 .. Len(msg) : new[j] = msg[k]  BY <5>2
          <6>2. NotBelow(msg[k].height)  BY <1>0, <2>1, HeightsElim
          <6> QED  BY <4>1, <6>1, <6>2 DEF NotBelow
        <5> QED  BY <2>2, <5>1, <5>2
      <4>2. CASE \E k \in 1 .. Len(msg) : i = Len(src) + k /\ new[i] = msg[k]
        <5>1. PICK k \in 1 .. Len(msg) : i = Len(src) + k /\ new[i] = msg[k]  BY <4>2
        <5>2. ~(j \in 1 .. Len(src))  BY ONLY <2>3, <3>1, <5>1
        <5>3. PICK m \in 1 .. Len(msg) : new[j] = msg[m]  BY <2>2, <5>2
        <5>4. msg[k].height = msg[m].height  BY <1>0, <2>1, HeightsElim
        <5> QED  BY <2>4, <5>1, <5>3, <5>4
      <4> QED  BY <2>2, <4>1, <4>2
    <3> QED  BY <2>3, <3>1
  <2>7. (\A i \in 1 .. Len(relay.srcMsg) :
            relay.srcMsg[i].seq > link.rxSeq => relay.srcMsg[i].height >= link.rxHeight)'
    <3>1. ASSUME NEW i \in 1 .. Len(new), new[i].seq > link.rxSeq
          PROVE  new[i].height >= link.rxHeight
      <4>1. CASE i \in 1 .. Len(src) /\ new[i] = src[i]
        BY <1>0, <2>1, <3>1, <4>1, HeightsElim
      <4>2. CASE \E k \in 1 .. Len(msg) : new[i] = msg[k]
        <5>1. PICK k \in 1 .. Len(msg) : new[i] = msg[k]  BY <4>2
        <5>2. link.rxHeight <= msg[k].height  BY <1>0, <2>1, HeightsElim DEF NotBelow
        <5>3. link.rxHeight \in Nat /\ msg[k].height \in Nat
          BY <1>0, <2>4, ChainType DEF TypeOK, Link
        <5> QED  BY <5>1, <5>2, <5>3
      <4> QED  BY <2>2, <4>1, <4>2
    <3> QED  BY <2>3, <3>1
  <2>8. n.msg = <<>> /\ Len(n.msg) = 0 /\ n.pc = "receive"  BY <1>1
  <2>9. (\A i \in 1 .. Len(sub[s].queue) : sub[s].queue[i] # Error =>
            /\ NotBelow(sub[s].queue[i].height)
            /\ sub[s].queue[i].height < sub[s].pos
            /\ \A j \in 1 .. Len(sub[s].msg) :
                  sub[s].msg[j].height <= sub[s].queue[i].height
            /\ \A j \in 1 .. i - 1 : sub[s].queue[j].height < sub[s].queue[i].height)'
    <3>1. ASSUME NEW i \in 1 .. Len(sub[s].queue), sub[s].queue[i] # Error
          PROVE  /\ \A j \in 1 .. Len(msg) : msg[j].height <= sub[s].queue[i].height
                 /\ NotBelow(sub[s].queue[i].height)
                 /\ sub[s].queue[i].height < sub[s].pos
                 /\ \A j \in 1 .. i - 1 : sub[s].queue[j].height < sub[s].queue[i].height
      BY <1>0, <2>1, <3>1, HeightsElim
    <3>2. n.queue = sub[s].queue /\ n.pos = sub[s].pos  BY <1>1
    <3> QED  BY <2>3, <2>5, <2>8, <3>1, <3>2
  <2>10. NotBelow(sub[s].pos)'
    <3>1. NotBelow(sub[s].pos) /\ \A j \in 1 .. Len(msg) : msg[j].height <= sub[s].pos
      BY <1>0, <2>1, HeightsElim
    <3> QED  BY <1>1, <2>3, <2>5, <3>1
  <2> QED  BY <1>6, <2>3, <2>6, <2>7, <2>8, <2>9, <2>10, HeightsIntro
<1> QED  BY <1>7, <1>8, <1>9, <1>10, <1>11, <1>12 DEF NearInv

\* Receipts numbered one by one, the positions I of the ones from next on, and
\* what they are: the last ones.
Numbered(a)           == \A i \in 1 .. Len(a) : a[i].seq = a[1].seq + i - 1
AreFrom(a, I, next)   == \A i \in 1 .. Len(a) : i \in I <=> a[i].seq >= next
LastFrom(a, I, next)  == \E m \in 0 .. Len(a) :
                            /\ I = m + 1 .. Len(a)
                            /\ \A k \in 1 .. Len(a) - m : a[m + k].seq = next + k - 1

\* Receipts numbered one by one from no later than next: the ones from next on
\* are the last ones.
LEMMA NewAreLast ==
    ASSUME NEW R, NEW a \in Seq(R), NEW next \in Nat, NEW I \in SUBSET DOMAIN a,
           \A r \in R : r.seq \in Nat, Numbered(a), a # <<>> => a[1].seq <= next,
           AreFrom(a, I, next)
    PROVE  LastFrom(a, I, next)
<1>0. Len(a) \in Nat  OBVIOUS
<1>1. Len(a) \in Nat /\ DOMAIN a = 1 .. Len(a)  OBVIOUS
<1>2. CASE a = <<>>
  <2>1. Len(a) = 0  BY <1>2
  <2>2. I = 0 + 1 .. Len(a) /\ 0 \in 0 .. Len(a)  BY <1>1, <2>1
  <2>3. \A k \in 1 .. Len(a) - 0 : FALSE  BY <1>1, <2>1
  <2> QED  BY <2>2, <2>3 DEF LastFrom
<1>3. CASE a # <<>>
  <2> DEFINE f == a[1].seq
             d == next - f
             m == IF d <= Len(a) THEN d ELSE Len(a)
  <2>1. f \in Nat /\ f <= next /\ d \in Nat
    <3>1. 1 \in 1 .. Len(a)  BY <1>1, <1>3, EmptySeq
    <3>2. f \in Nat /\ f <= next  BY <1>3, <3>1
    <3> HIDE DEF f
    <3> QED  BY <3>2
  <2>2. \A i \in 1 .. Len(a) : a[i].seq = f + i - 1  BY DEF Numbered
  <2>3. \A i \in 1 .. Len(a) : i \in I <=> f + i - 1 >= next  BY <2>2 DEF AreFrom
  <2>4. m \in 0 .. Len(a) /\ (m = d \/ (m = Len(a) /\ d > Len(a)))
    <3> HIDE DEF f
    <3>1. d \in Nat /\ Len(a) \in Nat  BY <1>1, <2>1
    <3> HIDE DEF d
    <3> QED  BY ONLY <3>1
  <2> HIDE DEF f, m
  <2>9. d = next - f  OBVIOUS
  <2> HIDE DEF d
  <2>5. next \in Nat  OBVIOUS
  <2>6. \A i \in 1 .. Len(a) : f + i - 1 >= next <=> i > m
    BY ONLY <1>0, <2>1, <2>4, <2>5, <2>9
  <2>7. I = m + 1 .. Len(a)
    <3>1. \A i : i \in I => i \in m + 1 .. Len(a)
      <4>1. \A i : i \in I => i \in 1 .. Len(a) /\ i > m  BY <1>1, <2>3, <2>6
      <4> QED  BY ONLY <1>0, <2>4, <4>1
    <3>2. \A i : i \in m + 1 .. Len(a) => i \in I
      <4>1. \A i : i \in m + 1 .. Len(a) => i \in 1 .. Len(a) /\ i > m
        BY ONLY <1>0, <2>4
      <4> QED  BY <2>3, <2>6, <4>1
    <3> QED  BY <3>1, <3>2
  <2>8. \A k \in 1 .. Len(a) - m : a[m + k].seq = next + k - 1
    <3>1. ASSUME NEW k \in 1 .. Len(a) - m PROVE a[m + k].seq = next + k - 1
      <4>0. k \in 1 .. Len(a) - m  OBVIOUS
      <4>1. m + k \in 1 .. Len(a) /\ m = d  BY ONLY <1>0, <2>4, <4>0
      <4>2. a[m + k].seq = f + (m + k) - 1  BY <2>2, <4>1
      <4>3. k \in Int /\ m \in Int  BY ONLY <1>0, <2>4, <4>0
      <4> QED  BY ONLY <2>1, <2>5, <2>9, <4>1, <4>2, <4>3
    <3> QED  BY <3>1
  <2> QED  BY <2>4, <2>7, <2>8 DEF LastFrom
<1> QED  BY <1>2, <1>3

\* Unless the owner set the height of the link, what passes the filter is the
\* rest of the receipts from the one that the link expects.
LEMMA FilteredRest ==
    ASSUME NearInv, relay.pc = "run", ~link.set
    PROVE  \E m \in 0 .. Len(relay.srcMsg) :
              /\ Len(Filtered(relay.srcMsg)) = Len(relay.srcMsg) - m
              /\ \A k \in 1 .. Len(relay.srcMsg) - m :
                    /\ Filtered(relay.srcMsg)[k] = relay.srcMsg[m + k]
                    /\ relay.srcMsg[m + k].seq = link.rxSeq + k
<1> DEFINE src == relay.srcMsg
           I   == {i \in DOMAIN src : src[i].height >= link.rxHeight /\ src[i].seq > link.rxSeq}
<1>1. /\ blocks \in Chains /\ relay.live \in Subs /\ src \in Seq(Receipt)
      /\ link.rxSeq \in Nat
  <2>1. TypeOK /\ blocks \in Chains /\ relay.live \in Subs
    BY DEF NearInv, TypeOK, VerifierSound
  <2>2. MaxSeq \in Nat  BY <2>1, EventsType
  <2> QED  BY <2>1, <2>2 DEF TypeOK, RelayState, Link
<1>2. \A r \in Receipt : r.seq \in Nat  BY <1>1, EventsType DEF Receipt
<1>3. /\ \A i \in 1 .. Len(src) : src[i].seq = src[1].seq + i - 1
      /\ src # <<>> => src[1].seq <= link.rxSeq + 1
  BY DEF NearInv, EventsContinue
<1>4. \A i \in 1 .. Len(src) : src[i].seq > link.rxSeq => src[i].height >= link.rxHeight
  BY <1>1, HeightsElim
<1>5. DOMAIN src = 1 .. Len(src) /\ \A i \in 1 .. Len(src) : src[i].seq \in Nat
  BY <1>1, <1>2
<1>6. \A i \in 1 .. Len(src) : i \in I <=> src[i].seq >= link.rxSeq + 1
  BY <1>1, <1>4, <1>5
<1>7. I \in SUBSET DOMAIN src /\ link.rxSeq + 1 \in Nat  BY <1>1
<1>8. Filtered(src) = Keep(src, I)  BY DEF Filtered
<1> HIDE DEF src, I
<1> DEFINE next == link.rxSeq + 1
<1>9. PICK m \in 0 .. Len(src) :
         /\ I = m + 1 .. Len(src)
         /\ \A k \in 1 .. Len(src) - m : src[m + k].seq = next + k - 1
  <2>1. next \in Nat /\ (src # <<>> => src[1].seq <= next)  BY <1>3, <1>7
  <2>2. Numbered(src) /\ AreFrom(src, I, next)  BY <1>3, <1>6 DEF Numbered, AreFrom
  <2>3. src \in Seq(Receipt) /\ I \in SUBSET DOMAIN src  BY <1>1, <1>7
  <2> HIDE DEF next
  <2>4. LastFrom(src, I, next)  BY <1>2, <2>1, <2>2, <2>3, NewAreLast
  <2> QED  BY <2>4 DEF LastFrom
<1>10. \A k \in 1 .. Len(src) - m : src[m + k].seq = link.rxSeq + k
  <2>1. \A k \in 1 .. Len(src) - m : (link.rxSeq + 1) + k - 1 = link.rxSeq + k
    BY ONLY <1>1
  <2> QED  BY <1>9, <2>1
<1>11. /\ Len(Filtered(src)) = Len(src) - m
       /\ \A k \in 1 .. Len(src) - m : Filtered(src)[k] = src[m + k]
  <2>1. Filtered(src) = Keep(src, m + 1 .. Len(src))  BY <1>8, <1>9
  <2> QED  BY <1>1, <2>1, KeepRest
<1> QED  BY <1>10, <1>11 DEF src

\* The relay misses no event.
LEMMA NoneMissingNow ==
    ASSUME NearInv, relay.pc = "run", ~link.set PROVE ~Missing(Filtered(relay.srcMsg))
<1> DEFINE msg == Filtered(relay.srcMsg)
<1>1. PICK m \in 0 .. Len(relay.srcMsg) :
              /\ Len(msg) = Len(relay.srcMsg) - m
              /\ \A k \in 1 .. Len(relay.srcMsg) - m :
                    /\ msg[k] = relay.srcMsg[m + k]
                    /\ relay.srcMsg[m + k].seq = link.rxSeq + k
  BY FilteredRest
<1>2. DOMAIN msg = 1 .. Len(msg)
  <2>1. relay.srcMsg \in Seq(Receipt)  BY DEF NearInv, TypeOK, RelayState
  <2>2. msg \in Seq(Receipt)  BY <2>1, KeepType DEF Filtered
  <2> HIDE DEF msg
  <2> QED  BY <2>2
<1> HIDE DEF msg
<1>3. \A k \in DOMAIN msg : msg[k].seq = link.rxSeq + k  BY <1>1, <1>2
<1> QED  BY <1>3 DEF Missing, msg

\* One turn of the relay.
LEMMA RelayKeeps == NearInv /\ Relay => NearInv'
<1> SUFFICES ASSUME NearInv, Relay PROVE NearInv'  OBVIOUS
<1> DEFINE src == relay.srcMsg
           msg == Filtered(relay.srcMsg)
<1> PICK s \in Subs : relay.live = s  BY DEF NearInv, VerifierSound, Relay
<1>0. /\ TypeOK /\ blocks \in Chains /\ relay.pc = "run" /\ s \in Subs /\ relay.live = s
      /\ relay \in RelayState /\ link \in Link
      /\ UNCHANGED <<blocks, verified, head, verifier, sub, sent, faults>>
  BY DEF NearInv, TypeOK, Relay
<1>1. src \in Seq(Receipt) /\ msg \in Seq(Receipt)
  <2>1. src \in Seq(Receipt)  BY <1>0 DEF RelayState
  <2> QED  BY <2>1, KeepType DEF Filtered
<1>2. CASE Missing(msg)
  <2>1. relay' = [pc |-> "start", live |-> 0, srcMsg |-> <<>>] /\ link' = link
    BY <1>2 DEF Relay
  <2>2. relay' \in RelayState /\ relay'.pc = "start"  BY <1>0, <2>1, NothingType
  <2>3. TypeOK'  BY <1>0, <2>1, <2>2, TypeIntro DEF TypeOK
  <2>4. VerifierSound'  BY <1>0, <2>2 DEF NearInv, VerifierSound, EpochSound
  <2>5. EventsContinue' /\ HeightsContinue' /\ WaitingApproved'  BY <1>0, <2>2, StartFrame
  <2>6. Undisturbed'
    <3>1. link.set  BY <1>0, <1>2, NoneMissingNow
    <3>2. ~(faults = 0 /\ Known(StartHeight - 1))  BY <3>1 DEF NearInv, Undisturbed
    <3> QED  BY <1>0, <3>2 DEF Undisturbed, Known
  <2> QED  BY <2>3, <2>4, <2>5, <2>6 DEF NearInv
<1>3. CASE ~Missing(msg)
  <2>1. /\ msg # <<>>
        /\ relay' = [relay EXCEPT !.srcMsg = msg]
        /\ link' = [link EXCEPT !.rxSeq = @ + 1, !.rxHeight = msg[1].height]
    BY <1>3 DEF Relay
  <2>2. /\ relay' \in RelayState /\ relay'.pc = "run" /\ relay'.live = s /\ relay'.srcMsg = msg
    BY <1>0, <1>1, <2>1 DEF RelayState
  <2>3. \A i \in 1 .. Len(msg) : msg[i].seq = link.rxSeq + i
    BY <1>1, <1>3 DEF Missing
  <2>4. 1 \in 1 .. Len(msg) /\ msg[1] \in Receipt /\ Len(msg) \in Nat
    <3> HIDE DEF msg
    <3>1. Len(msg) \in Nat /\ Len(msg) # 0  BY <1>1, <2>1, EmptySeq
    <3>2. 1 \in 1 .. Len(msg)  BY <3>1
    <3> QED  BY <1>1, <3>1, <3>2
  <2>5. /\ link' \in Link /\ link'.rxSeq = link.rxSeq + 1 /\ link'.rxHeight = msg[1].height
        /\ link'.set = link.set /\ link.rxSeq \in Nat
    <3>1. msg[1].seq = link.rxSeq + 1  BY <2>3, <2>4
    <3>2. msg[1].seq \in 1 .. MaxSeq /\ msg[1].height \in DOMAIN blocks /\ MaxSeq \in Nat
      BY <1>0, <2>4, EventsType DEF Receipt
    <3>3. link.rxSeq + 1 \in 0 .. MaxSeq  BY <3>1, <3>2
    <3>4. link.rxSeq \in Nat  BY <1>0, <3>2 DEF Link
    <3> HIDE DEF msg
    <3> QED  BY <1>0, <2>1, <3>2, <3>3, <3>4 DEF Link
  <2>6. TypeOK'  BY <1>0, <2>2, <2>5, TypeIntro DEF TypeOK
  <2>7. VerifierSound'  BY <1>0, <2>2 DEF NearInv, VerifierSound, EpochSound
  <2>8. WaitingApproved'
    <3>1. verified => /\ \A i \in 1 .. Len(sub[s].queue) :
                            sub[s].queue[i] = Error \/ Good(sub[s].queue[i])
                      /\ sub[s].pc = "message" => Good(sub[s].block)
      BY <1>0 DEF NearInv, WaitingApproved
    <3>2. sub'[s] = sub[s] /\ UNCHANGED <<blocks, verified, sent>>  BY <1>0
    <3> QED  BY <1>0, <2>2, <3>1, <3>2, WaitingFrame
  <2>9. Undisturbed'
    <3>1. SUFFICES ASSUME faults = 0, Known(StartHeight - 1) PROVE Undisturbed'
      BY <1>0 DEF Undisturbed, Known
    <3>2. \A h : Known(h)' <=> Known(h)  BY <1>0 DEF Known
    <3>3. \A p : Follows(p)' <=> Follows(p)  BY <1>0, <3>2 DEF Follows
    <3>4. \A h : EventsAt(h)' = EventsAt(h)  BY <1>0 DEF EventsAt
    <3> QED  BY <1>0, <2>2, <2>5, <3>1, <3>2, <3>3, <3>4 DEF NearInv, Undisturbed
  <2>10. EventsContinue' /\ HeightsContinue'
    <3>1. CASE link.set  BY <2>5, <3>1 DEF EventsContinue, HeightsContinue
    <3>2. CASE ~link.set
      <4>1. PICK m \in 0 .. Len(src) :
               /\ Len(msg) = Len(src) - m
               /\ \A k \in 1 .. Len(src) - m : msg[k] = src[m + k]
        BY <1>0, <3>2, FilteredRest
      <4>2. Len(src) \in Nat  BY <1>1
      <4> HIDE DEF msg
      <4>3. \A k \in 1 .. Len(msg) : msg[k] = src[m + k] /\ m + k \in 1 .. Len(src)
        BY <2>4, <4>1, <4>2
      <4>4. Len(msg) \in 1 .. Len(msg) /\ m + Len(msg) = Len(src) /\ src # <<>>
        <5>1. Len(msg) \in 1 .. Len(msg)  BY <2>4
        <5>2. m + Len(msg) = Len(src)  BY <2>4, <4>1, <4>2
        <5>3. Len(src) # 0  BY ONLY <2>4, <4>1, <4>2, <5>1, <5>2
        <5> QED  BY <5>1, <5>2, <5>3
      <4>5. EventsContinue'
        <5>1. \A i \in 1 .. Len(msg) : msg[i].seq = msg[1].seq + i - 1
          <6>1. msg[1].seq = link.rxSeq + 1  BY <2>3, <2>4
          <6> QED  BY <2>3, <2>5, <6>1
        <5>2. msg[1].seq <= (link.rxSeq + 1) + 1  BY <2>3, <2>4, <2>5
        <5>3. msg[Len(msg)] = src[Len(src)]  BY <4>3, <4>4
        <5>4. /\ \A i \in 1 .. Len(sub[s].msg) :
                    sub[s].msg[i].seq = (sub[s].seq - Len(sub[s].msg)) + i - 1
              /\ sub[s].pc # "seqError" =>
                    sub[s].seq - Len(sub[s].msg) = src[Len(src)].seq + 1
          BY <1>0, <3>2, <4>4 DEF NearInv, EventsContinue
        <5>5. sub' = sub /\ relay'.srcMsg = msg /\ relay'.live = s
          BY <1>0, <2>2
        <5> QED  BY <2>1, <2>5, <5>1, <5>2, <5>3, <5>4, <5>5 DEF EventsContinue
      <4>6. HeightsContinue'
        <5>1. ASSUME NEW h, NotBelow(h) PROVE NotBelow(h)'
          BY <2>2, <2>4, <2>5, <4>3, <5>1 DEF NotBelow
        <5>2. (\A i, j \in 1 .. Len(relay.srcMsg) :
                 i < j => relay.srcMsg[i].height <= relay.srcMsg[j].height)'
          <6>1. ASSUME NEW i \in 1 .. Len(msg), NEW j \in 1 .. Len(msg), i < j
                PROVE  msg[i].height <= msg[j].height
            <7>1. m + i < m + j  BY <6>1
            <7> QED  BY <1>0, <3>2, <4>3, <7>1, HeightsElim
          <6> QED  BY <2>2, <6>1
        <5>3. (\A i \in 1 .. Len(relay.srcMsg) :
                 relay.srcMsg[i].seq > link.rxSeq => relay.srcMsg[i].height >= link.rxHeight)'
          <6>1. ASSUME NEW i \in 1 .. Len(msg) PROVE msg[i].height >= msg[1].height
            <7>1. \A k \in 1 .. Len(msg) : msg[k].height \in Nat
              <8>1. \A r \in Receipt : r.height \in Nat  BY <1>0, ChainType DEF Receipt
              <8> QED  BY <1>1, <8>1
            <7>2. CASE i = 1  BY <2>4, <7>1, <7>2
            <7>3. CASE i # 1
              <8>1. 1 < i  BY <7>3
              <8>2. msg[1].height <= msg[i].height  BY <2>2, <2>4, <5>2, <8>1
              <8> QED  BY <2>4, <7>1, <8>2
            <7> QED  BY <7>2, <7>3
          <6> QED  BY <2>2, <2>5, <6>1
        <5>4. relay'.live = s /\ sub'[s] = sub[s]  BY <1>0, <2>2
        <5>5. /\ s \in Subs /\ relay.live = s /\ relay.pc = "run"  BY <1>0
        <5>6. (\A i \in 1 .. Len(sub[s].msg) :
                 NotBelow(sub[s].msg[i].height) /\ sub[s].msg[i].height <= sub[s].pos)'
          BY <3>2, <5>1, <5>4, <5>5, HeightsElim
        <5>7. (\A i \in 1 .. Len(sub[s].queue) : sub[s].queue[i] # Error =>
                  /\ NotBelow(sub[s].queue[i].height)
                  /\ sub[s].queue[i].height < sub[s].pos
                  /\ \A j \in 1 .. Len(sub[s].msg) :
                        sub[s].msg[j].height <= sub[s].queue[i].height
                  /\ \A j \in 1 .. i - 1 : sub[s].queue[j].height < sub[s].queue[i].height)'
          BY <3>2, <5>1, <5>4, <5>5, HeightsElim
        <5>8. /\ (sub[s].pc \in {"receive", "message", "seqError", "error"} =>
                     NotBelow(sub[s].pos))'
              /\ (sub[s].pc \in {"sync", "syncError"} =>
                     NotBelow(sub[s].height) /\ sub[s].queue = <<>> /\ sub[s].msg = <<>>)'
              /\ (sub[s].pc = "receive" => sub[s].msg = <<>>)'
              /\ (\A i, j \in 1 .. Len(sub[s].msg) :
                     sub[s].msg[i].height = sub[s].msg[j].height)'
          BY <3>2, <5>1, <5>4, <5>5, HeightsElim
        <5> QED  BY <5>2, <5>3, <5>4, <5>5, <5>6, <5>7, <5>8, HeightsIntro
      <4> QED  BY <4>5, <4>6
    <3> QED  BY <3>1, <3>2
  <2> QED  BY <2>6, <2>7, <2>8, <2>9, <2>10 DEF NearInv
<1> QED  BY <1>2, <1>3

\* There is a first block from the configured height on, and its parent is
\* below that height.
LEMMA FirstKnown ==
    ASSUME blocks \in Chains
    PROVE  \E h \in DOMAIN blocks :
              /\ h >= VerifierHeight /\ Known(h)
              /\ \A k \in VerifierHeight .. h - 1 : ~Known(k)
<1> DEFINE T == {h \in DOMAIN blocks : h >= VerifierHeight /\ Known(h)}
<1>1. DOMAIN blocks = 1 .. Len(blocks) /\ Len(blocks) \in Nat /\ VerifierHeight \in Nat
  BY ChainType
<1>2. T # {}
  <2>1. \E h \in DOMAIN blocks : h >= VerifierHeight /\ blocks[h] # NoBlock
    BY NearAssumption
  <2> QED  BY <2>1 DEF Known
<1>3. T \subseteq Nat  BY <1>1
<1>4. \A h \in T : h \in DOMAIN blocks /\ h >= VerifierHeight /\ Known(h)  OBVIOUS
<1>5. \A h \in DOMAIN blocks : h >= VerifierHeight /\ Known(h) => h \in T  OBVIOUS
<1> HIDE DEF T
<1>6. PICK x \in T : \A y \in T : <<y, x>> \notin OpToRel(<, Nat)
  BY <1>2, <1>3, NatLessThanWellFounded, WFMin
<1>7. x \in Nat /\ \A y \in T : ~(y < x)  BY <1>3, <1>6 DEF OpToRel
<1>8. ASSUME NEW k \in VerifierHeight .. x - 1 PROVE ~Known(k)
  <2>1. k < x /\ k >= VerifierHeight  BY <1>1, <1>7, <1>8
  <2>2. k \notin T  BY <1>7, <2>1
  <2>3. Known(k) => k \in DOMAIN blocks  BY DEF Known
  <2> QED  BY <1>5, <2>1, <2>2, <2>3
<1> QED  BY <1>4, <1>6, <1>8

\* A new verifier is at the first block from its height on.
LEMMA NewVerifierSound ==
    ASSUME blocks \in Chains, NEW s \in Subs
    PROVE  /\ NewVerifier(s) \in Verifier /\ EpochSound(NewVerifier(s))
           /\ NewVerifier(s).owner = s /\ NewVerifier(s).currentEpochId = 1
           /\ NewVerifier(s).nextEpochId = 2
           /\ \E h \in DOMAIN blocks :
                 /\ h >= VerifierHeight /\ Known(h)
                 /\ \A k \in VerifierHeight .. h - 1 : ~Known(k)
                 /\ NewVerifier(s).previousBlockHash = blocks[h].prev
<1> DEFINE F(h) == /\ h >= VerifierHeight /\ Known(h)
                   /\ \A k \in VerifierHeight .. h - 1 : ~Known(k)
           first == CHOOSE h \in DOMAIN blocks : F(h)
           v     == [owner |-> s, blockHeight |-> VerifierHeight,
                     previousBlockHash |-> blocks[first].prev,
                     currentEpochId |-> 1, nextEpochId |-> 2, blockProducers |-> 1]
<1>1. first \in DOMAIN blocks /\ F(first)
  <2>1. \E h \in DOMAIN blocks : F(h)  BY FirstKnown
  <2> HIDE DEF F
  <2> QED  BY <2>1
<1>2. NewVerifier(s) = v  BY DEF NewVerifier
<1> HIDE DEF first
<1>3. blocks[first].prev \in 0 .. first - 1 /\ first \in 1 .. Len(blocks)
  BY <1>1, KnownBlock
<1>4. /\ s \in 0 .. MaxSubs /\ s # 0 /\ VerifierHeight \in 0 .. Len(blocks)
      /\ blocks[first].prev \in 0 .. Len(blocks)
      /\ 1 \in {0} \cup DOMAIN Stakes /\ 1 \in Nat /\ 2 \in Nat
  BY <1>3, ChainType, NearAssumption DEF Subs
<1>5. v \in Verifier  BY <1>4 DEF Verifier
<1>6. EpochSound(v)  BY <1>4 DEF EpochSound
<1> QED  BY <1>1, <1>2, <1>5, <1>6

\* A new verifier can go on at its height.
LEMMA FollowsFirst ==
    ASSUME blocks \in Chains, NEW s \in Subs, verifier' = NewVerifier(s), UNCHANGED blocks
    PROVE  Follows(VerifierHeight)'
<1>1. PICK f \in DOMAIN blocks :
              /\ f >= VerifierHeight /\ Known(f)
              /\ \A k \in VerifierHeight .. f - 1 : ~Known(k)
              /\ NewVerifier(s).previousBlockHash = blocks[f].prev
  BY NewVerifierSound
<1>2. DOMAIN blocks = 1 .. Len(blocks) /\ Len(blocks) \in Nat /\ VerifierHeight \in Nat \ {0}
  BY ChainType, NearAssumption
<1>3. blocks[f].epoch \in {1, 2}
  <2>1. /\ blocks[f].prev \in 0 .. f - 1 /\ (blocks[f].prev = 0 \/ Known(blocks[f].prev))
    BY <1>1, KnownBlock
  <2>2. ~(blocks[f].prev >= VerifierHeight)
    <3> SUFFICES ASSUME blocks[f].prev >= VerifierHeight PROVE FALSE  OBVIOUS
    <3>1. blocks[f].prev # 0 /\ blocks[f].prev \in VerifierHeight .. f - 1
      BY <1>2, <2>1
    <3> QED  BY <1>1, <2>1, <3>1
  <2>3. blocks[f] # NoBlock  BY <1>1 DEF Known
  <2> QED  BY <1>1, <2>2, <2>3, ChainAssumption
<1>4. ASSUME NEW h \in DOMAIN blocks, h >= VerifierHeight, Known(h),
             \A k \in VerifierHeight .. h - 1 : ~Known(k)
      PROVE  h = f
  <2>1. ~(h < f)
    <3> SUFFICES ASSUME h < f PROVE FALSE  OBVIOUS
    <3>1. h \in VerifierHeight .. f - 1  BY <1>2, <1>4
    <3> QED  BY <1>1, <1>4, <3>1
  <2>2. ~(f < h)
    <3> SUFFICES ASSUME f < h PROVE FALSE  OBVIOUS
    <3>1. f \in VerifierHeight .. h - 1  BY <1>1, <1>2
    <3> QED  BY <1>1, <1>4, <3>1
  <2> QED  BY <1>2, <2>1, <2>2
<1>5. /\ verifier'.previousBlockHash = blocks[f].prev
      /\ verifier'.currentEpochId = 1 /\ verifier'.nextEpochId = 2
  BY <1>1, NewVerifierSound
<1>6. \A h \in DOMAIN blocks :
         h >= VerifierHeight /\ Known(h) /\ (\A k \in VerifierHeight .. h - 1 : ~Known(k)) =>
            /\ blocks[h].prev = verifier'.previousBlockHash
            /\ blocks[h].epoch \in {verifier'.currentEpochId, verifier'.nextEpochId}
  BY <1>3, <1>4, <1>5
<1>7. \A h : Known(h)' <=> Known(h)  BY DEF Known
<1> QED  BY <1>6, <1>7 DEF Follows

\* A new subscription.
LEMMA SubscribeInv == NearInv /\ Subscribe => NearInv'
<1> SUFFICES ASSUME NearInv, Subscribe PROVE NearInv'  OBVIOUS
<1>1. PICK s \in Subs :
          /\ relay' = [pc |-> "run", live |-> s, srcMsg |-> <<>>]
          /\ verifier' = IF verified THEN NewVerifier(s) ELSE NoVerifier
          /\ sub' = [sub EXCEPT ![s] =
                [NoSub EXCEPT !.pc = IF verified THEN "sync" ELSE "receive",
                              !.seq = link.rxSeq + 1, !.height = link.rxHeight,
                              !.pos = IF verified THEN VerifierHeight ELSE link.rxHeight]]
  BY DEF Subscribe
<1> DEFINE n == [NoSub EXCEPT !.pc = IF verified THEN "sync" ELSE "receive",
                              !.seq = link.rxSeq + 1, !.height = link.rxHeight,
                              !.pos = IF verified THEN VerifierHeight ELSE link.rxHeight]
<1>2. /\ TypeOK /\ blocks \in Chains /\ relay.pc = "start" /\ link \in Link
      /\ verified \in BOOLEAN
      /\ UNCHANGED <<blocks, verified, head, link, sent, faults>>
  BY DEF NearInv, TypeOK, Subscribe
<1>3. /\ link.rxSeq \in 0 .. MaxSeq /\ link.rxHeight \in 1 .. Len(blocks)
      /\ MaxSeq \in Nat /\ Len(blocks) \in Nat /\ VerifierHeight \in 1 .. Len(blocks)
      /\ DOMAIN blocks = 1 .. Len(blocks) /\ StartHeight > VerifierHeight /\ StartHeight \in Nat
  BY <1>2, ChainType, EventsType DEF Link
<1>4. /\ n \in Sub /\ n.pc = (IF verified THEN "sync" ELSE "receive")
      /\ n.seq = link.rxSeq + 1 /\ n.height = link.rxHeight
      /\ n.pos = (IF verified THEN VerifierHeight ELSE link.rxHeight)
      /\ n.queue = <<>> /\ n.ended = FALSE /\ n.msg = <<>>
  <2>1. /\ (IF verified THEN "sync" ELSE "receive") \in Statuses
        /\ link.rxSeq + 1 \in 0 .. MaxSeq + 1 /\ link.rxHeight \in 0 .. Len(blocks)
        /\ (IF verified THEN VerifierHeight ELSE link.rxHeight) \in 0 .. Len(blocks) + 1
    BY <1>3 DEF Statuses
  <2>2. NoSub \in Sub  BY <1>2, NothingType
  <2>3. n \in Sub  BY <2>1, <2>2 DEF Sub
  <2> QED  BY <2>3 DEF NoSub
<1>5. Len(n.queue) <= Ahead  BY <1>2, <1>4, NothingType
<1>6. /\ sub' \in [Subs -> Sub] /\ \A t \in Subs : Len(sub'[t].queue) <= Ahead
      /\ sub'[s] = n /\ \A t \in Subs \ {s} : sub'[t] = sub[t]
  <2> HIDE DEF n
  <2>1. sub' = [sub EXCEPT ![s] = n]  BY <1>1 DEF n
  <2> QED  BY <1>2, <1>4, <1>5, <2>1, OneSub
<1> HIDE DEF n
<1>7. relay' \in RelayState /\ relay'.pc = "run" /\ relay'.live = s /\ relay'.srcMsg = <<>>
      /\ Len(relay'.srcMsg) = 0
  <2>1. s \in 0 .. MaxSubs  BY NearAssumption DEF Subs
  <2> QED  BY <1>1, <2>1 DEF RelayState
<1>8. verifier' \in Verifier /\ (verifier' # NoVerifier => verified /\ EpochSound(verifier'))
      /\ (verified => verifier' # NoVerifier /\ verifier'.owner = s)
  <2>1. CASE verified
    <3>1. /\ verifier' = NewVerifier(s) /\ NewVerifier(s) \in Verifier
          /\ EpochSound(NewVerifier(s)) /\ NewVerifier(s).owner = s
      BY <1>1, <1>2, <2>1, NewVerifierSound
    <3>2. NoVerifier.owner = 0 /\ s # 0  BY DEF NoVerifier, Subs
    <3> QED  BY <2>1, <3>1, <3>2
  <2>2. CASE ~verified  BY <1>1, <1>2, <2>2, NothingType
  <2> QED  BY <2>1, <2>2
<1>9. TypeOK'  BY <1>2, <1>6, <1>7, <1>8, TypeIntro DEF TypeOK
<1>10. VerifierSound'
  <2>1. EpochSound(verifier)' <=> EpochSound(verifier')  BY DEF EpochSound
  <2>2. NoVerifier' = NoVerifier  BY DEF NoVerifier
  <2> QED  BY <1>2, <1>7, <1>8, <2>1, <2>2 DEF VerifierSound
<1>11. WaitingApproved'
  <2>1. Len(n.queue) = 0 /\ n.pc # "message"  BY <1>4
  <2> QED  BY <1>2, <1>6, <1>7, <2>1, WaitingFrame
<1>12. EventsContinue'
  <2>1. Len(n.msg) = 0 /\ n.seq - Len(n.msg) = link.rxSeq + 1  BY <1>3, <1>4
  <2> QED  BY <1>2, <1>3, <1>6, <1>7, <2>1 DEF EventsContinue
<1>13. HeightsContinue'
  <2>1. NotBelow(link.rxHeight)'  BY <1>2, <1>3, <1>7 DEF NotBelow
  <2>2. Len(n.msg) = 0 /\ Len(n.queue) = 0  BY <1>4
  <2>3. /\ sub'[s] = n /\ link' = link  BY <1>2, <1>6
  <2> QED  BY <1>4, <1>7, <2>1, <2>2, <2>3, HeightsIntro
<1>14. Undisturbed'
  <2>1. SUFFICES ASSUME faults = 0, Known(StartHeight - 1) PROVE Undisturbed'
    BY <1>2 DEF Undisturbed, Known
  <2>2. /\ ~link.set /\ \A t \in Subs : t # relay.live => sub[t] = NoSub
        /\ relay.live = 0 /\ link.rxSeq = 0 /\ link.rxHeight = StartHeight
    BY <1>2, <2>1 DEF NearInv, Undisturbed
  <2>3. \A t \in Subs : t # s => sub'[t] = NoSub
    BY <1>6, <2>2 DEF Subs
  <2>4. n.seq = 1 /\ n.height = StartHeight  BY <1>4, <2>2
  <2>5. IF n.pc = "sync"
        THEN verified /\ n.queue = <<>> /\ n.pos \in VerifierHeight .. StartHeight - 1
        ELSE n.pos >= StartHeight
    BY <1>3, <1>4, <2>2
  <2>6. n.pos \in Nat /\ n.pos <= StartHeight  BY <1>3, <1>4, <2>2
  <2>7. ASSUME NEW h \in DOMAIN blocks, Known(h), NEW i \in DOMAIN EventsAt(h)
        PROVE  EventsAt(h)[i] >= n.seq /\ h >= n.pos
    <3>2. EventsAt(h)[i] \in 1 .. MaxSeq  BY <1>2, <2>7, EventsType
    <3>3. ~(h < StartHeight)
      <4> SUFFICES ASSUME h < StartHeight PROVE FALSE  OBVIOUS
      <4>1. h \in {k \in DOMAIN blocks : blocks[k] # NoBlock}  BY <2>7 DEF Known
      <4>2. EventsAt(h) = <<>>  BY <1>2, <4>1, EventAssumption DEF EventsAt
      <4>3. DOMAIN <<>> = {}  OBVIOUS
      <4> QED  BY <4>2, <4>3
    <3> QED  BY <1>3, <2>4, <2>6, <3>2, <3>3
  <2>8. verified => /\ verifier'.owner = s /\ n.pc = "sync" /\ Follows(VerifierHeight)'
                    /\ n.pos = VerifierHeight
    BY <1>1, <1>2, <1>4, <1>8, FollowsFirst
  <2>9. \A h : Known(h)' <=> Known(h)  BY <1>2 DEF Known
  <2>10. \A h : EventsAt(h)' = EventsAt(h)  BY <1>2 DEF EventsAt
  <2>11. Len(n.queue) = 0 /\ n.pc \in {"sync", "receive"} /\ n.ended = FALSE  BY <1>4
  <2>12. link' = link /\ blocks' = blocks /\ verified' = verified /\ sub'[s] = n  BY <1>2, <1>6
  <2> QED  BY <1>7, <2>2, <2>3, <2>4, <2>5, <2>7, <2>8, <2>9, <2>10, <2>11, <2>12
           DEF Undisturbed
<1> QED  BY <1>9, <1>10, <1>11, <1>12, <1>13, <1>14 DEF NearInv

\* The block after a block has it as its parent, and is of its epoch or of the
\* next one.
LEMMA NextBlock ==
    ASSUME blocks \in Chains, NEW p, Known(p), p >= VerifierHeight,
           NEW h, Known(h), h >= p + 1, \A k \in p + 1 .. h - 1 : ~Known(k)
    PROVE  /\ blocks[h].prev = p
           /\ blocks[h].epoch = blocks[p].epoch \/ blocks[h].epoch = blocks[p].epoch + 1
<1>1. p \in 1 .. Len(blocks) /\ h \in 1 .. Len(blocks) /\ Len(blocks) \in Nat
  BY KnownBlock, ChainType
<1>2. /\ blocks[h].prev \in 0 .. h - 1 /\ (blocks[h].prev = 0 \/ Known(blocks[h].prev))
      /\ \A k \in blocks[h].prev + 1 .. h - 1 : ~Known(k)
  BY KnownBlock
<1>3. ~(blocks[h].prev < p)
  <2> SUFFICES ASSUME blocks[h].prev < p PROVE FALSE  OBVIOUS
  <2>1. p \in blocks[h].prev + 1 .. h - 1  BY <1>1, <1>2
  <2> QED  BY <1>2, <2>1
<1>4. ~(blocks[h].prev > p)
  <2> SUFFICES ASSUME blocks[h].prev > p PROVE FALSE  OBVIOUS
  <2>1. blocks[h].prev \in p + 1 .. h - 1 /\ blocks[h].prev # 0  BY <1>1, <1>2
  <2> QED  BY <1>2, <2>1
<1>5. blocks[h].prev = p  BY <1>1, <1>2, <1>3, <1>4
<1>6. blocks[h].epoch - blocks[p].epoch \in {0, 1}
  <2>1. h \in DOMAIN blocks /\ blocks[h] # NoBlock  BY DEF Known
  <2>2. blocks[h].prev >= VerifierHeight  BY <1>5
  <2>3. blocks[h].epoch - blocks[blocks[h].prev].epoch \in {0, 1}
    BY <2>1, <2>2, ChainAssumption
  <2> QED  BY <1>5, <2>3
<1>7. blocks[h].epoch \in Nat /\ blocks[p].epoch \in Nat
  <2>1. DOMAIN Stakes = 1 .. Len(Stakes)  BY NearAssumption
  <2> QED  BY <2>1, KnownBlock
<1>8. blocks[h].epoch = blocks[p].epoch \/ blocks[h].epoch = blocks[p].epoch + 1
  BY ONLY <1>6, <1>7
<1> QED  BY <1>5, <1>8

\* A block that follows the verifier's moves it, and one that was answered as
\* it is on the chain is accepted.
LEMMA ValidateHonest ==
    ASSUME blocks \in Chains, NEW p, Known(p), NEW v \in Verifier, EpochSound(v),
           blocks[p].prev = v.previousBlockHash,
           blocks[p].epoch \in {v.currentEpochId, v.nextEpochId}
    PROVE  LET r == ValidateHeader(v, p, blocks[p].approvals, FALSE, TRUE) IN
           /\ r.v.blockHeight = p /\ r.v.previousBlockHash = p
           /\ r.v.currentEpochId = blocks[p].epoch
           /\ r.v.nextEpochId = blocks[p].epoch + 1
           /\ v.blockHeight = v.previousBlockHash => r.ok
<1> DEFINE b       == blocks[p]
           moved   == [v EXCEPT !.blockHeight = p, !.previousBlockHash = p]
           entered == [moved EXCEPT !.currentEpochId = b.epoch,
                                    !.nextEpochId = b.epoch + 1,
                                    !.blockProducers = b.epoch]
           new     == IF b.epoch = v.nextEpochId THEN entered ELSE moved
           signed  == IF b.prev + 1 = p THEN v.previousBlockHash = b.prev
                      ELSE v.blockHeight = b.prev
           r       == ValidateHeader(v, p, b.approvals, FALSE, TRUE)
<1>1. r = [v |-> new, ok |-> signed /\ Approved(b.approvals, Stakes[new.blockProducers])]
  BY DEF ValidateHeader
<1>2. p \in 0 .. Len(blocks) /\ b.epoch \in Nat /\ b.epoch \in {0} \cup DOMAIN Stakes
  <2>1. DOMAIN Stakes = 1 .. Len(Stakes)  BY NearAssumption
  <2> QED  BY <2>1, KnownBlock, ChainType
<1>3. /\ moved \in Verifier /\ moved.blockHeight = p /\ moved.previousBlockHash = p
      /\ moved.currentEpochId = v.currentEpochId /\ moved.nextEpochId = v.nextEpochId
      /\ moved.blockProducers = v.blockProducers
  BY <1>2 DEF Verifier
<1>4. /\ entered.blockHeight = p /\ entered.previousBlockHash = p
      /\ entered.currentEpochId = b.epoch /\ entered.nextEpochId = b.epoch + 1
      /\ entered.blockProducers = b.epoch
  <2> HIDE DEF moved
  <2> QED  BY <1>2, <1>3 DEF Verifier
<1> HIDE DEF moved, entered
<1>5. /\ new.blockHeight = p /\ new.previousBlockHash = p
      /\ new.currentEpochId = b.epoch /\ new.nextEpochId = b.epoch + 1
      /\ new.blockProducers = b.epoch
  BY <1>3, <1>4 DEF EpochSound
<1>6. Approved(b.approvals, Stakes[b.epoch])  BY KnownBlock
<1>7. v.blockHeight = v.previousBlockHash => signed  OBVIOUS
<1> HIDE DEF new
<1> DEFINE ok == signed /\ Approved(b.approvals, Stakes[new.blockProducers])
<1>8. r.v = new /\ r.ok = ok
  <2> HIDE DEF r, ok
  <2>1. r = [v |-> new, ok |-> ok]  BY <1>1 DEF r, ok
  <2> QED  BY <2>1
<1>9. v.blockHeight = v.previousBlockHash => ok  BY <1>5, <1>6, <1>7
<1> HIDE DEF r, ok
<1>10. /\ r.v.blockHeight = p /\ r.v.previousBlockHash = p
       /\ r.v.currentEpochId = b.epoch /\ r.v.nextEpochId = b.epoch + 1
  BY <1>5, <1>8
<1> QED  BY <1>8, <1>9, <1>10 DEF r

\* The verifier can go on at the next height: there was no block, or it is at
\* the block that there was.
LEMMA FollowsOn ==
    ASSUME blocks \in Chains, UNCHANGED blocks, NEW p \in Nat, p >= VerifierHeight, Follows(p),
           \/ ~Known(p) /\ verifier' = verifier
           \/ /\ Known(p) /\ verifier'.previousBlockHash = p
              /\ verifier'.currentEpochId = blocks[p].epoch
              /\ verifier'.nextEpochId = blocks[p].epoch + 1
    PROVE  Follows(p + 1)'
<1>1. \A h : Known(h)' <=> Known(h)  BY DEF Known
<1>2. ASSUME NEW h \in DOMAIN blocks, h >= p + 1, Known(h), \A k \in p + 1 .. h - 1 : ~Known(k)
      PROVE  /\ blocks[h].prev = verifier'.previousBlockHash
             /\ blocks[h].epoch \in {verifier'.currentEpochId, verifier'.nextEpochId}
  <2>1. CASE Known(p)  BY <1>2, <2>1, NextBlock
  <2>2. CASE ~Known(p)
    <3>1. h \in Nat  BY <1>2, ChainType
    <3>2. h >= p /\ \A k \in p .. h - 1 : k = p \/ k \in p + 1 .. h - 1  BY <1>2, <3>1
    <3>3. \A k \in p .. h - 1 : ~Known(k)  BY <1>2, <2>2, <3>2
    <3>4. verifier' = verifier  BY <2>2
    <3> QED  BY <1>2, <3>2, <3>3, <3>4 DEF Follows
  <2> QED  BY <2>1, <2>2
<1> QED  BY <1>1, <1>2 DEF Follows

\* The live subscription of an undisturbed run, part by part.
LEMMA UndisturbedElim ==
    ASSUME NearInv, faults = 0, Known(StartHeight - 1), NEW s \in Subs,
           relay.pc = "run", relay.live = s
    PROVE  /\ ~link.set /\ \A t \in Subs : t # s => sub[t] = NoSub
           /\ sub[s].pc \in {"sync", "receive", "message"} /\ ~sub[s].ended
           /\ sub[s].height = StartHeight
           /\ IF sub[s].pc = "sync"
              THEN /\ verified /\ sub[s].queue = <<>>
                   /\ sub[s].pos \in VerifierHeight .. StartHeight - 1
              ELSE sub[s].pos >= StartHeight
           /\ verified =>
                 /\ verifier.owner = s /\ Follows(sub[s].pos)
                 /\ sub[s].pc # "sync" => verifier.blockHeight = verifier.previousBlockHash
           /\ \A i \in 1 .. Len(sub[s].queue) : sub[s].queue[i] # Error
           /\ sub[s].seq > 0
           /\ \A h \in DOMAIN blocks : Known(h) =>
                 \A i \in DOMAIN EventsAt(h) :
                    EventsAt(h)[i] >= sub[s].seq <=>
                       h >= sub[s].pos \/ \E j \in 1 .. Len(sub[s].queue) : sub[s].queue[j].height = h
BY DEF NearInv, Undisturbed

\* The live subscription of an undisturbed run, after a step.
LEMMA UndisturbedIntro ==
    ASSUME UNCHANGED blocks, NEW s \in Subs, relay'.pc = "run", relay'.live = s,
           /\ ~link'.set /\ \A t \in Subs : t # s => sub'[t] = NoSub
           /\ sub'[s].pc \in {"sync", "receive", "message"} /\ ~sub'[s].ended
           /\ sub'[s].height = StartHeight
           /\ IF sub'[s].pc = "sync"
              THEN /\ verified' /\ sub'[s].queue = <<>>
                   /\ sub'[s].pos \in VerifierHeight .. StartHeight - 1
              ELSE sub'[s].pos >= StartHeight
           /\ verified' =>
                 /\ verifier'.owner = s /\ Follows(sub[s].pos)'
                 /\ sub'[s].pc # "sync" => verifier'.blockHeight = verifier'.previousBlockHash
           /\ \A i \in 1 .. Len(sub'[s].queue) : sub'[s].queue[i] # Error
           /\ sub'[s].seq > 0
           /\ \A h \in DOMAIN blocks : Known(h) =>
                 \A i \in DOMAIN EventsAt(h) :
                    EventsAt(h)[i] >= sub'[s].seq <=>
                       h >= sub'[s].pos \/ \E j \in 1 .. Len(sub'[s].queue) : sub'[s].queue[j].height = h
    PROVE  Undisturbed'
<1>1. \A h : Known(h)' <=> Known(h)  BY DEF Known
<1>2. \A h : EventsAt(h)' = EventsAt(h)  BY DEF EventsAt
<1> QED  BY <1>1, <1>2 DEF Undisturbed

\* A block is synchronised.
LEMMA SyncHeaderKeeps ==
    ASSUME NearInv, NEW s \in Subs, SyncHeader(s) PROVE NearInv'
<1> DEFINE n    == Synced(s)
           p    == sub[s].pos
           over == p >= Target(s) /\ Known(p)
<1>0. /\ TypeOK /\ blocks \in Chains /\ sub[s].pc = "sync" /\ Available(p)
      /\ UNCHANGED <<blocks, verified, head, link, relay, sent>>
  BY DEF NearInv, TypeOK, SyncHeader
<1>1. /\ p \in 0 .. Len(blocks) /\ Len(blocks) \in Nat /\ p \in Nat
  <2>1. p \in 0 .. Len(blocks) + 1 /\ Len(blocks) \in Nat  BY <1>0, SubFields, ChainType
  <2>2. head <= Len(blocks) + 3 /\ head \in Int
    BY <1>0, ChainType DEF TypeOK
  <2>3. p + 3 <= head  BY <1>0 DEF Available
  <2> HIDE DEF p
  <2> QED  BY ONLY <2>1, <2>2, <2>3
<1>2. /\ n \in Sub /\ n.pc = (IF over THEN "receive" ELSE "sync")
      /\ n.pos = (IF over THEN sub[s].height ELSE p + 1)
      /\ n.seq = sub[s].seq /\ n.height = sub[s].height /\ n.queue = sub[s].queue
      /\ n.msg = sub[s].msg /\ n.block = sub[s].block /\ n.ended = sub[s].ended
  <2>1. /\ sub[s].height \in 0 .. Len(blocks) + 1 /\ p + 1 \in 0 .. Len(blocks) + 1
    BY <1>0, <1>1, SubFields
  <2>2. /\ (IF over THEN "receive" ELSE "sync") \in Statuses
        /\ (IF over THEN sub[s].height ELSE p + 1) \in 0 .. Len(blocks) + 1
    BY <2>1 DEF Statuses
  <2>3. n = [sub[s] EXCEPT !.pc = IF over THEN "receive" ELSE "sync",
                           !.pos = IF over THEN sub[s].height ELSE p + 1]
    BY DEF Synced
  <2> HIDE DEF n, over, p
  <2> QED  BY <1>0, <2>2, <2>3, SubFields DEF Sub
<1>3. Len(n.queue) <= Ahead  BY <1>0, <1>2, SubFields
<1>4. sub' = [sub EXCEPT ![s] = n]  BY DEF SyncHeader
<1> HIDE DEF n
<1>5. /\ sub' \in [Subs -> Sub] /\ \A t \in Subs : Len(sub'[t].queue) <= Ahead
      /\ sub'[s] = n /\ \A t \in Subs \ {s} : sub'[t] = sub[t]
  BY <1>0, <1>2, <1>3, <1>4, OneSub
<1>6. \/ (~Known(p) \/ verifier.owner # s) /\ verifier' = verifier /\ faults' = faults
      \/ /\ Known(p) /\ verifier.owner = s
         /\ \E approvals \in Answers(p), own \in BOOLEAN, fetched \in BOOLEAN :
               /\ MaybeFault(Wrong(p, approvals, own, fetched))
               /\ verifier' = ValidateHeader(verifier, p, approvals, own, fetched).v
  BY DEF SyncHeader
<1>7. /\ verifier' \in Verifier /\ faults' \in 0 .. MaxFaults
      /\ (verifier = NoVerifier => verifier' = NoVerifier)
      /\ (verifier # NoVerifier => verified /\ EpochSound(verifier') /\ verifier'.owner = verifier.owner)
      /\ \/ Undisturbed'
         \/ /\ faults' = faults
            /\ \/ verifier' = verifier /\ (~Known(p) \/ verifier.owner # s)
               \/ /\ Known(p) /\ verifier.owner = s
                  /\ verifier' = ValidateHeader(verifier, p, blocks[p].approvals, FALSE, TRUE).v
  <2>0. /\ verifier \in Verifier /\ faults \in 0 .. MaxFaults
        /\ (verifier # NoVerifier => verified /\ EpochSound(verifier))
    BY DEF NearInv, TypeOK, VerifierSound
  <2>1. CASE (~Known(p) \/ verifier.owner # s) /\ verifier' = verifier /\ faults' = faults
    BY <2>0, <2>1
  <2>2. CASE /\ Known(p) /\ verifier.owner = s
             /\ \E approvals \in Answers(p), own \in BOOLEAN, fetched \in BOOLEAN :
                   /\ MaybeFault(Wrong(p, approvals, own, fetched))
                   /\ verifier' = ValidateHeader(verifier, p, approvals, own, fetched).v
    <3>1. PICK approvals \in Answers(p), own \in BOOLEAN, fetched \in BOOLEAN :
                   /\ MaybeFault(Wrong(p, approvals, own, fetched))
                   /\ verifier' = ValidateHeader(verifier, p, approvals, own, fetched).v
      BY <2>2
    <3>2. verifier # NoVerifier  BY <2>2 DEF NoVerifier, Subs
    <3>3. verifier' \in Verifier /\ EpochSound(verifier') /\ verifier'.owner = verifier.owner
      <4> HIDE DEF p
      <4>1. /\ blocks \in Chains /\ Known(p) /\ verifier \in Verifier /\ EpochSound(verifier)
        BY <1>0, <2>0, <2>2, <3>2
      <4> DEFINE r == ValidateHeader(verifier, p, approvals, own, fetched)
      <4>2. r.v \in Verifier /\ EpochSound(r.v) /\ r.v.owner = verifier.owner
        BY <3>1, <4>1, ValidateSound
      <4>3. verifier' = r.v  BY <3>1
      <4> HIDE DEF r
      <4> QED  BY <4>2, <4>3
    <3>4. CASE Wrong(p, approvals, own, fetched)
      <4>1. Fault  BY <3>1, <3>4 DEF MaybeFault
      <4> QED  BY <1>0, <2>0, <3>2, <3>3, <4>1, FaultDisturbs
    <3>5. CASE ~Wrong(p, approvals, own, fetched)
      <4>1. faults' = faults /\ approvals = blocks[p].approvals /\ own = FALSE /\ fetched = TRUE
        BY <3>1, <3>5 DEF MaybeFault, Wrong
      <4> QED  BY <2>0, <2>2, <3>1, <3>2, <3>3, <4>1
    <3> QED  BY <3>4, <3>5
  <2> QED  BY <1>6, <2>1, <2>2
<1>8. TypeOK'  BY <1>0, <1>5, <1>7, TypeIntro DEF TypeOK
<1>9. VerifierSound'
  <2>1. EpochSound(verifier)' <=> EpochSound(verifier')  BY DEF EpochSound
  <2>2. NoVerifier' = NoVerifier  BY DEF NoVerifier
  <2>3. EpochSound(verifier') => verifier' # NoVerifier  BY DEF EpochSound, NoVerifier
  <2> QED  BY <1>0, <1>7, <2>1, <2>2, <2>3 DEF NearInv, VerifierSound
<1>10. CASE ~(relay.pc = "run" /\ relay.live = s)
  <2>1. EventsContinue' /\ HeightsContinue' /\ WaitingApproved'
    BY <1>0, <1>5, <1>10, OtherSub
  <2>2. Undisturbed'
    <3>1. CASE faults' = faults  BY <1>0, <1>10, <3>1, OnlyLive
    <3> QED  BY <1>7, <3>1
  <2> QED  BY <1>8, <1>9, <2>1, <2>2 DEF NearInv
<1>11. CASE relay.pc = "run" /\ relay.live = s
  <2>0. relay' = relay /\ link' = link /\ sub'[s] = n  BY <1>0, <1>5
  <2>1. WaitingApproved'
    <3>1. verified => \A i \in 1 .. Len(n.queue) : n.queue[i] = Error \/ Good(n.queue[i])
      BY <1>2, <1>11 DEF NearInv, WaitingApproved
    <3>2. n.pc # "message"  BY <1>2
    <3>3. relay'.live = s  BY <1>11, <2>0
    <3> QED  BY <1>0, <2>0, <3>1, <3>2, <3>3, WaitingFrame
  <2>2. EventsContinue'
    BY <1>0, <1>2, <1>11, <2>0 DEF NearInv, EventsContinue
  <2>3. HeightsContinue'
    <3>1. SUFFICES ASSUME ~link.set PROVE HeightsContinue'  BY <2>0 DEF HeightsContinue
    <3>2. \A h : NotBelow(h)' <=> NotBelow(h)  BY <2>0 DEF NotBelow
    <3>3. /\ NotBelow(sub[s].height) /\ sub[s].queue = <<>> /\ sub[s].msg = <<>>
          /\ \A i, j \in 1 .. Len(relay.srcMsg) :
                 i < j => relay.srcMsg[i].height <= relay.srcMsg[j].height
          /\ \A i \in 1 .. Len(relay.srcMsg) :
                 relay.srcMsg[i].seq > link.rxSeq => relay.srcMsg[i].height >= link.rxHeight
      BY <1>0, <1>11, <3>1, HeightsElim
    <3>4. n.queue = <<>> /\ n.msg = <<>> /\ Len(n.queue) = 0 /\ Len(n.msg) = 0
      BY <1>2, <3>3
    <3>5. NotBelow(sub[s].height)'  BY <1>2, <2>0, <3>2, <3>3
    <3>6. (sub[s].pc \in {"receive", "message", "seqError", "error"} => NotBelow(sub[s].pos))'
      <4>1. n.pc \in {"receive", "message", "seqError", "error"} => n.pos = sub[s].height
        BY <1>2
      <4> QED  BY <2>0, <3>2, <3>3, <4>1
    <3>7. relay'.live = s  BY <1>11, <2>0
    <3> QED  BY <2>0, <3>3, <3>4, <3>5, <3>6, <3>7, HeightsIntro
  <2>4. Undisturbed'
    <3>1. SUFFICES ASSUME faults' = faults, faults = 0, Known(StartHeight - 1),
                   \/ verifier' = verifier /\ (~Known(p) \/ verifier.owner # s)
                   \/ /\ Known(p) /\ verifier.owner = s
                      /\ verifier' = ValidateHeader(verifier, p, blocks[p].approvals, FALSE, TRUE).v
                   PROVE Undisturbed'
      BY <1>0, <1>7 DEF Undisturbed, Known
    <3>2. /\ ~link.set /\ (\A t \in Subs : t # s => sub[t] = NoSub) /\ ~sub[s].ended
          /\ sub[s].height = StartHeight /\ verified /\ sub[s].queue = <<>>
          /\ p \in VerifierHeight .. StartHeight - 1 /\ verifier.owner = s /\ Follows(p)
          /\ sub[s].seq > 0
      BY <1>0, <1>11, <3>1, UndisturbedElim
    <3>3. VerifierHeight \in Nat /\ StartHeight \in Nat  BY NearAssumption
    <3>4. over <=> p = StartHeight - 1
      BY <3>1, <3>2, <3>3 DEF Target
    <3>5. n.pos = p + 1 /\ n.pos <= StartHeight
      BY <1>2, <3>2, <3>3, <3>4
    <3>6. verifier \in Verifier /\ EpochSound(verifier)
      <4>1. verifier # NoVerifier  BY <3>2 DEF NoVerifier, Subs
      <4> QED  BY <4>1 DEF NearInv, TypeOK, VerifierSound
    <3>7. Known(p) => /\ verifier'.blockHeight = p /\ verifier'.previousBlockHash = p
                      /\ verifier'.currentEpochId = blocks[p].epoch
                      /\ verifier'.nextEpochId = blocks[p].epoch + 1
      <4> SUFFICES ASSUME Known(p) PROVE /\ verifier'.blockHeight = p /\ verifier'.previousBlockHash = p
                      /\ verifier'.currentEpochId = blocks[p].epoch
                      /\ verifier'.nextEpochId = blocks[p].epoch + 1
        OBVIOUS
      <4>1. verifier' = ValidateHeader(verifier, p, blocks[p].approvals, FALSE, TRUE).v
        BY <3>1, <3>2
      <4>2. p \in DOMAIN blocks  BY DEF Known
      <4>3. p >= p /\ \A k \in p .. p - 1 : FALSE  BY <1>1
      <4>4. /\ blocks[p].prev = verifier.previousBlockHash
            /\ blocks[p].epoch \in {verifier.currentEpochId, verifier.nextEpochId}
        BY <3>2, <4>2, <4>3 DEF Follows
      <4> HIDE DEF p
      <4> QED  BY <1>0, <3>6, <4>1, <4>4, ValidateHonest
    <3>8. verifier'.owner = s
      <4>1. verifier # NoVerifier  BY <3>2 DEF NoVerifier, Subs
      <4> QED  BY <1>7, <3>2, <4>1
    <3>9. PICK q \in Nat : q = p  BY <1>1
    <3>10. Follows(q + 1)'
      <4>1. q >= VerifierHeight /\ Follows(q)  BY <3>2, <3>3, <3>9
      <4>2. \/ ~Known(q) /\ verifier' = verifier
            \/ /\ Known(q) /\ verifier'.previousBlockHash = q
               /\ verifier'.currentEpochId = blocks[q].epoch
               /\ verifier'.nextEpochId = blocks[q].epoch + 1
        BY <3>1, <3>7, <3>9
      <4> QED  BY <1>0, <4>1, <4>2, FollowsOn
    <3>11. Follows(sub[s].pos)'
      <4>1. sub'[s].pos = q + 1  BY <2>0, <3>5, <3>9
      <4> QED  BY <3>10, <4>1
    <3>12. n.pc # "sync" => verifier'.blockHeight = verifier'.previousBlockHash
      BY <1>2, <3>7
    <3>13. IF n.pc = "sync"
           THEN /\ verified /\ n.queue = <<>> /\ n.pos \in VerifierHeight .. StartHeight - 1
           ELSE n.pos >= StartHeight
      BY <1>2, <3>2, <3>3, <3>4, <3>5
    <3>14. ASSUME NEW h \in DOMAIN blocks, Known(h), NEW i \in DOMAIN EventsAt(h)
           PROVE  EventsAt(h)[i] >= n.seq <=>
                     (h >= n.pos \/ \E j \in 1 .. Len(n.queue) : n.queue[j].height = h)
      <4>1. EventsAt(h)[i] >= sub[s].seq <=>
               (h >= p \/ \E j \in 1 .. Len(sub[s].queue) : sub[s].queue[j].height = h)
        BY <1>0, <1>11, <3>1, <3>14, UndisturbedElim
      <4>2. ~(h < StartHeight)
        <5> SUFFICES ASSUME h < StartHeight PROVE FALSE  OBVIOUS
        <5>1. h \in {k \in DOMAIN blocks : blocks[k] # NoBlock}  BY <3>14 DEF Known
        <5>2. EventsAt(h) = <<>>  BY <1>0, <5>1, EventAssumption DEF EventsAt
        <5>3. DOMAIN <<>> = {}  OBVIOUS
        <5> QED  BY <5>2, <5>3
      <4>3. h \in Nat  BY <1>0, <3>14, ChainType
      <4>4. h >= p /\ h >= n.pos  BY <1>1, <3>2, <3>3, <3>5, <4>2, <4>3
      <4> QED  BY <1>2, <4>1, <4>4
    <3>15. n.pc \in {"sync", "receive"} /\ n.ended = sub[s].ended /\ n.height = StartHeight
           /\ n.queue = <<>> /\ Len(n.queue) = 0 /\ n.seq > 0
      BY <1>2, <3>2
    <3>16. relay'.pc = "run" /\ relay'.live = s /\ ~link'.set /\ verified' = verified
           /\ \A t \in Subs : t # s => sub'[t] = NoSub
      BY <1>0, <1>5, <1>11, <2>0, <3>2
    <3> QED  BY <1>0, <2>0, <3>2, <3>8, <3>11, <3>12, <3>13, <3>14, <3>15, <3>16, UndisturbedIntro
  <2> QED  BY <1>8, <1>9, <2>1, <2>2, <2>3, <2>4 DEF NearInv
<1> QED  BY <1>10, <1>11

\* A subscription that passes a height, and queues nothing but an error or the
\* block of that height, keeps its heights.
LEMMA HeightsScan ==
    ASSUME NearInv, NEW s \in Subs, relay.pc = "run", relay.live = s,
           UNCHANGED <<blocks, link, relay>>,
           sub[s].pc \in {"receive", "message", "seqError"}, sub'[s].pc = sub[s].pc,
           sub'[s].msg = sub[s].msg, sub'[s].pos = sub[s].pos + 1,
           \A i \in 1 .. Len(sub'[s].queue) :
              \/ sub'[s].queue[i] = Error
              \/ /\ i \in 1 .. Len(sub[s].queue)
                 /\ \A j \in 1 .. i : sub'[s].queue[j] = sub[s].queue[j]
              \/ /\ sub'[s].queue[i].height = sub[s].pos /\ sub[s].pos > 0
                 /\ \A j \in 1 .. i - 1 : /\ j \in 1 .. Len(sub[s].queue)
                                          /\ sub'[s].queue[j] = sub[s].queue[j]
    PROVE  HeightsContinue'
<1>1. SUFFICES ASSUME ~link.set PROVE HeightsContinue'  BY DEF HeightsContinue
<1>2. \A h : NotBelow(h)' <=> NotBelow(h)  BY DEF NotBelow
<1>3. /\ sub[s].pos \in Nat /\ link.rxHeight \in Nat
      /\ \A i \in 1 .. Len(relay.srcMsg) : relay.srcMsg[i].height \in Nat
      /\ \A i \in 1 .. Len(sub[s].msg) : sub[s].msg[i].height \in Nat
      /\ \A i \in 1 .. Len(sub[s].queue) : sub[s].queue[i].height \in Nat
  <2>1. TypeOK /\ blocks \in Chains  BY DEF NearInv, TypeOK
  <2>2. Len(blocks) \in Nat /\ DOMAIN blocks = 1 .. Len(blocks)  BY <2>1, ChainType
  <2>3. \A r \in Receipt : r.height \in Nat  BY <2>2 DEF Receipt
  <2>4. \A r \in Item : r.height \in Nat  BY <2>2 DEF Item, Error
  <2>5. relay.srcMsg \in Seq(Receipt) /\ link.rxHeight \in DOMAIN blocks
    BY <2>1 DEF TypeOK, RelayState, Link
  <2>6. sub[s].msg \in Seq(Receipt) /\ sub[s].queue \in Seq(Item)
        /\ sub[s].pos \in 0 .. Len(blocks) + 1
    BY <2>1, SubFields
  <2>7. \A i \in 1 .. Len(relay.srcMsg) : relay.srcMsg[i] \in Receipt  BY <2>5
  <2>8. \A i \in 1 .. Len(sub[s].msg) : sub[s].msg[i] \in Receipt  BY <2>6
  <2>9. \A i \in 1 .. Len(sub[s].queue) : sub[s].queue[i] \in Item  BY <2>6
  <2> QED  BY <2>2, <2>3, <2>4, <2>5, <2>6, <2>7, <2>8, <2>9
<1>4. NotBelow(sub[s].pos) /\ NotBelow(sub[s].pos + 1)
  <2>1. NotBelow(sub[s].pos)  BY <1>1, HeightsElim
  <2> QED  BY <1>3, <2>1 DEF NotBelow
<1>5. ASSUME NEW i \in 1 .. Len(sub'[s].queue), sub'[s].queue[i] # Error
      PROVE  (/\ NotBelow(sub[s].queue[i].height)
              /\ sub[s].queue[i].height < sub[s].pos
              /\ \A j \in 1 .. Len(sub[s].msg) :
                    sub[s].msg[j].height <= sub[s].queue[i].height
              /\ \A j \in 1 .. i - 1 : sub[s].queue[j].height < sub[s].queue[i].height)'
  <2>1. CASE /\ i \in 1 .. Len(sub[s].queue)
             /\ \A j \in 1 .. i : sub'[s].queue[j] = sub[s].queue[j]
    <3>1. sub'[s].queue[i] = sub[s].queue[i] /\ \A j \in 1 .. i - 1 : sub'[s].queue[j] = sub[s].queue[j]
      BY <2>1
    <3>2. /\ NotBelow(sub[s].queue[i].height)
          /\ sub[s].queue[i].height < sub[s].pos
          /\ \A j \in 1 .. Len(sub[s].msg) :
                sub[s].msg[j].height <= sub[s].queue[i].height
          /\ \A j \in 1 .. i - 1 : sub[s].queue[j].height < sub[s].queue[i].height
      BY <1>1, <1>5, <2>1, <3>1, HeightsElim
    <3>3. sub[s].queue[i].height < sub[s].pos + 1  BY <1>3, <2>1, <3>2
    <3> QED  BY <1>2, <3>1, <3>2, <3>3
  <2>2. CASE /\ sub'[s].queue[i].height = sub[s].pos /\ sub[s].pos > 0
             /\ \A j \in 1 .. i - 1 : /\ j \in 1 .. Len(sub[s].queue)
                                      /\ sub'[s].queue[j] = sub[s].queue[j]
    <3>1. ASSUME NEW j \in 1 .. i - 1 PROVE sub[s].queue[j].height < sub[s].pos
      <4>1. j \in 1 .. Len(sub[s].queue)  BY <2>2
      <4>2. CASE sub[s].queue[j] = Error  BY <2>2, <4>2, <1>3 DEF Error
      <4>3. CASE sub[s].queue[j] # Error  BY <1>1, <4>1, <4>3, HeightsElim
      <4> QED  BY <4>2, <4>3
    <3>2. \A j \in 1 .. Len(sub[s].msg) : sub[s].msg[j].height <= sub[s].pos
      BY <1>1, HeightsElim
    <3>3. sub[s].pos < sub[s].pos + 1  BY <1>3
    <3> QED  BY <1>2, <1>4, <2>2, <3>1, <3>2, <3>3
  <2> QED  BY <1>5, <2>1, <2>2
<1>6. (\A i \in 1 .. Len(sub[s].queue) : sub[s].queue[i] # Error =>
          /\ NotBelow(sub[s].queue[i].height)
          /\ sub[s].queue[i].height < sub[s].pos
          /\ \A j \in 1 .. Len(sub[s].msg) :
                sub[s].msg[j].height <= sub[s].queue[i].height
          /\ \A j \in 1 .. i - 1 : sub[s].queue[j].height < sub[s].queue[i].height)'
  BY <1>5
<1>7. /\ relay' = relay /\ link' = link /\ sub'[s].msg = sub[s].msg
      /\ sub'[s].pos = sub[s].pos + 1 /\ sub'[s].pc = sub[s].pc /\ relay'.live = s
  OBVIOUS
<1>8. (\A i \in 1 .. Len(sub[s].msg) :
          NotBelow(sub[s].msg[i].height) /\ sub[s].msg[i].height <= sub[s].pos)'
  <2>1. ASSUME NEW i \in 1 .. Len(sub[s].msg)
        PROVE  NotBelow(sub[s].msg[i].height) /\ sub[s].msg[i].height <= sub[s].pos + 1
    <3>1. NotBelow(sub[s].msg[i].height) /\ sub[s].msg[i].height <= sub[s].pos
      BY <1>1, HeightsElim
    <3> QED  BY <1>3, <3>1
  <2> QED  BY <1>2, <1>7, <2>1
<1>9. (sub[s].pc \in {"receive", "message", "seqError", "error"} => NotBelow(sub[s].pos))'
  BY <1>2, <1>4, <1>7
<1>10. (sub[s].pc \in {"sync", "syncError"} =>
          NotBelow(sub[s].height) /\ sub[s].queue = <<>> /\ sub[s].msg = <<>>)'
  BY <1>7
<1>11. /\ (\A i, j \in 1 .. Len(relay.srcMsg) :
              i < j => relay.srcMsg[i].height <= relay.srcMsg[j].height)'
       /\ (\A i \in 1 .. Len(relay.srcMsg) :
              relay.srcMsg[i].seq > link.rxSeq => relay.srcMsg[i].height >= link.rxHeight)'
  BY <1>1, <1>7, HeightsElim
<1>12. /\ (\A i, j \in 1 .. Len(sub[s].msg) : sub[s].msg[i].height = sub[s].msg[j].height)'
       /\ (sub[s].pc = "receive" => sub[s].msg = <<>>)'
  BY <1>1, <1>7, HeightsElim
<1> QED  BY <1>6, <1>7, <1>8, <1>9, <1>10, <1>11, <1>12, HeightsIntro

\* A block is asked for at a height of the chain.
LEMMA ScanPosition ==
    ASSUME TypeOK, NEW s \in Subs, Available(sub[s].pos)
    PROVE  /\ sub[s].pos \in 0 .. Len(blocks) /\ Len(blocks) \in Nat /\ sub[s].pos \in Nat
           /\ sub[s].pos + 1 \in 0 .. Len(blocks) + 1
<1> DEFINE p == sub[s].pos
<1>1. p \in 0 .. Len(blocks) + 1 /\ Len(blocks) \in Nat
  BY SubFields, ChainType DEF TypeOK
<1>2. head <= Len(blocks) + 3 /\ head \in Int  BY ChainType DEF TypeOK
<1>3. p + 3 <= head  BY DEF Available
<1> HIDE DEF p
<1>4. /\ p \in 0 .. Len(blocks) /\ Len(blocks) \in Nat /\ p \in Nat
      /\ p + 1 \in 0 .. Len(blocks) + 1
  BY ONLY <1>1, <1>2, <1>3
<1> QED  BY <1>4 DEF p

\* A height has no block.
LEMMA ScanGapKeeps ==
    ASSUME NearInv, NEW s \in Subs, Scans(s), ~Known(sub[s].pos),
           sub' = [sub EXCEPT ![s] = [sub[s] EXCEPT !.pos = @ + 1]],
           UNCHANGED <<blocks, verified, head, link, relay, verifier, sent, faults>>
    PROVE  NearInv'
<1> DEFINE n == [sub[s] EXCEPT !.pos = @ + 1]
           p == sub[s].pos
<1>0. /\ TypeOK /\ blocks \in Chains /\ Available(p)
      /\ sub[s].pc \in {"receive", "message", "seqError"}
  BY DEF NearInv, TypeOK, Scans
<1>1. p \in Nat /\ p + 1 \in 0 .. Len(blocks) + 1  BY <1>0, ScanPosition
<1>2. /\ n \in Sub /\ n.pc = sub[s].pc /\ n.pos = p + 1 /\ n.seq = sub[s].seq
      /\ n.height = sub[s].height /\ n.queue = sub[s].queue /\ n.msg = sub[s].msg
      /\ n.block = sub[s].block /\ n.ended = sub[s].ended
  BY <1>0, <1>1, SubFields DEF Sub
<1>3. Len(n.queue) <= Ahead  BY <1>0, <1>2, SubFields
<1>4. sub' = [sub EXCEPT ![s] = n]  OBVIOUS
<1> HIDE DEF n
<1>5. /\ sub' \in [Subs -> Sub] /\ \A t \in Subs : Len(sub'[t].queue) <= Ahead
      /\ sub'[s] = n /\ \A t \in Subs \ {s} : sub'[t] = sub[t]
  BY <1>0, <1>2, <1>3, <1>4, OneSub
<1>6. TypeOK'  BY <1>0, <1>5, TypeIntro DEF TypeOK
<1>7. VerifierSound'  BY DEF NearInv, VerifierSound, EpochSound
<1>8. CASE ~(relay.pc = "run" /\ relay.live = s)
  <2>1. EventsContinue' /\ HeightsContinue' /\ WaitingApproved'  BY <1>5, <1>8, OtherSub
  <2>2. Undisturbed'  BY <1>0, <1>8, OnlyLive
  <2> QED  BY <1>6, <1>7, <2>1, <2>2 DEF NearInv
<1>9. CASE relay.pc = "run" /\ relay.live = s
  <2>0. relay' = relay /\ link' = link /\ sub'[s] = n /\ relay'.live = s  BY <1>5, <1>9
  <2>1. WaitingApproved'
    <3>1. verified => /\ \A i \in 1 .. Len(n.queue) : n.queue[i] = Error \/ Good(n.queue[i])
                      /\ n.pc = "message" => Good(n.block)
      BY <1>2, <1>9 DEF NearInv, WaitingApproved
    <3> QED  BY <2>0, <3>1, WaitingFrame
  <2>2. EventsContinue'  BY <1>2, <1>9, <2>0 DEF NearInv, EventsContinue
  <2>3. HeightsContinue'
    <3>1. \A i \in 1 .. Len(n.queue) : /\ i \in 1 .. Len(sub[s].queue)
                                       /\ \A j \in 1 .. i : n.queue[j] = sub[s].queue[j]
      BY <1>2
    <3> QED  BY <1>0, <1>2, <1>9, <2>0, <3>1, HeightsScan
  <2>4. Undisturbed'
    <3>1. SUFFICES ASSUME faults = 0, Known(StartHeight - 1) PROVE Undisturbed'
      BY DEF Undisturbed, Known
    <3>2. /\ ~link.set /\ (\A t \in Subs : t # s => sub[t] = NoSub) /\ ~sub[s].ended
          /\ sub[s].pc \in {"sync", "receive", "message"} /\ sub[s].pc # "sync"
          /\ sub[s].height = StartHeight /\ p >= StartHeight /\ sub[s].seq > 0
          /\ verified => /\ verifier.owner = s /\ Follows(p)
                         /\ verifier.blockHeight = verifier.previousBlockHash
          /\ \A i \in 1 .. Len(sub[s].queue) : sub[s].queue[i] # Error
      BY <1>0, <1>9, <3>1, UndisturbedElim
    <3>3. VerifierHeight \in Nat /\ StartHeight \in Nat /\ StartHeight > VerifierHeight
      BY NearAssumption
    <3>4. PICK q \in Nat : q = p  BY <1>1
    <3>5. verified => Follows(q + 1)'
      <4>1. q >= VerifierHeight  BY <3>2, <3>3, <3>4
      <4>2. verified => Follows(q)  BY <3>2, <3>4
      <4>3. ~Known(q)  BY <3>4
      <4> QED  BY <1>0, <4>1, <4>2, <4>3, FollowsOn
    <3>6. verified => Follows(sub[s].pos)'
      <4>1. sub'[s].pos = q + 1  BY <1>2, <2>0, <3>4
      <4> QED  BY <3>5, <4>1
    <3>7. ASSUME NEW h \in DOMAIN blocks, Known(h), NEW i \in DOMAIN EventsAt(h)
          PROVE  EventsAt(h)[i] >= n.seq <=>
                     (h >= n.pos \/ \E j \in 1 .. Len(n.queue) : n.queue[j].height = h)
      <4>1. EventsAt(h)[i] >= sub[s].seq <=>
               (h >= p \/ \E j \in 1 .. Len(sub[s].queue) : sub[s].queue[j].height = h)
        BY <1>0, <1>9, <3>1, <3>7, UndisturbedElim
      <4>2. h \in Nat /\ h # p  BY <1>0, <3>7, ChainType
      <4>3. h >= p <=> h >= p + 1  BY <1>1, <4>2
      <4> QED  BY <1>2, <4>1, <4>3
    <3>8. n.pos >= StartHeight  BY <1>1, <1>2, <3>2, <3>3
    <3>9. /\ relay'.pc = "run" /\ ~link'.set /\ \A t \in Subs : t # s => sub'[t] = NoSub
      BY <1>5, <1>9, <2>0, <3>2
    <3> QED  BY <1>2, <2>0, <3>2, <3>6, <3>7, <3>8, <3>9, UndisturbedIntro
  <2> QED  BY <1>6, <1>7, <2>1, <2>2, <2>3, <2>4 DEF NearInv
<1> QED  BY <1>8, <1>9

\* A block is validated and queued.
LEMMA ScanBlockKeeps ==
    ASSUME NearInv, NEW s \in Subs, Scans(s), Known(sub[s].pos),
           NEW approvals \in Answers(sub[s].pos), NEW own \in BOOLEAN,
           NEW fetched \in BOOLEAN, NEW result,
           result = IF verifier = NoVerifier THEN [v |-> verifier, ok |-> TRUE]
                    ELSE ValidateHeader(verifier, sub[s].pos, approvals, own, fetched),
           MaybeFault(Wrong(sub[s].pos, approvals, own, fetched)),
           verifier' = result.v,
           sub' = [sub EXCEPT ![s] = [sub[s] EXCEPT
                      !.pos = @ + 1, !.ended = ~result.ok,
                      !.queue = Append(@, IF result.ok
                                          THEN [height |-> sub[s].pos, approvals |-> approvals]
                                          ELSE Error)]],
           UNCHANGED <<blocks, verified, head, link, relay, sent>>
    PROVE  NearInv'
<1> DEFINE p    == sub[s].pos
           q    == sub[s].queue
           item == [height |-> p, approvals |-> approvals]
           new  == IF result.ok THEN item ELSE Error
           n    == [sub[s] EXCEPT !.pos = @ + 1, !.ended = ~result.ok,
                                  !.queue = Append(@, new)]
<1>0. /\ TypeOK /\ blocks \in Chains /\ Available(p) /\ Len(q) < Ahead
      /\ sub[s].pc \in {"receive", "message", "seqError"}
  BY DEF NearInv, TypeOK, Scans
<1>1. p \in Nat /\ p + 1 \in 0 .. Len(blocks) + 1 /\ p \in 1 .. Len(blocks) /\ p > 0
  BY <1>0, ScanPosition, KnownBlock
<1>2. /\ verifier \in Verifier /\ faults \in 0 .. MaxFaults
      /\ (verifier # NoVerifier => verified /\ EpochSound(verifier))
  BY DEF NearInv, TypeOK, VerifierSound
<1>3. /\ verifier' \in Verifier /\ result.ok \in BOOLEAN
      /\ (verifier = NoVerifier => verifier' = NoVerifier)
      /\ (verifier # NoVerifier =>
             /\ verified /\ EpochSound(verifier') /\ verifier'.owner = verifier.owner
             /\ result.ok => Good(item))
  <2>1. CASE verifier = NoVerifier
    <3>1. result = [v |-> verifier, ok |-> TRUE]  BY <2>1
    <3>2. result.v = verifier /\ result.ok = TRUE  BY <3>1
    <3> QED  BY <1>2, <2>1, <3>2
  <2>2. CASE verifier # NoVerifier
    <3>1. result = ValidateHeader(verifier, p, approvals, own, fetched)  BY <2>2
    <3> HIDE DEF p
    <3>2. /\ result.v \in Verifier /\ EpochSound(result.v) /\ result.v.owner = verifier.owner
          /\ result.ok \in BOOLEAN
          /\ result.ok => Approved(approvals, Stakes[blocks[p].epoch])
      <4>1. /\ blocks \in Chains /\ Known(p) /\ verifier \in Verifier /\ EpochSound(verifier)
            /\ approvals \in Answers(p)
        BY <1>0, <1>2, <2>2 DEF p
      <4> DEFINE r == ValidateHeader(verifier, p, approvals, own, fetched)
      <4>2. /\ r.v \in Verifier /\ EpochSound(r.v) /\ r.v.owner = verifier.owner
            /\ r.ok \in BOOLEAN
            /\ r.ok => Approved(approvals, Stakes[blocks[p].epoch])
        BY <4>1, ValidateSound
      <4>3. result = r  BY <3>1
      <4> HIDE DEF r
      <4> QED  BY <4>2, <4>3
    <3>3. result.ok => Good(item)  BY <1>0, <3>2, ApprovedIsGood DEF p
    <3> QED  BY <1>2, <2>2, <3>2, <3>3
  <2> QED  BY <2>1, <2>2
<1>4. new \in Item
  <2>1. approvals \in Seq(BOOLEAN)  BY <1>0, AnswersType
  <2>2. p \in {h \in DOMAIN blocks : Known(h)}  BY DEF Known
  <2>3. item \in Item  BY <2>1, <2>2 DEF Item
  <2> QED  BY <1>0, <2>3, NothingType
<1> HIDE DEF new
<1>5. /\ Append(q, new) \in Seq(Item) /\ Len(Append(q, new)) = Len(q) + 1
      /\ Len(q) \in Nat
      /\ \A i \in 1 .. Len(q) : Append(q, new)[i] = q[i]
      /\ Append(q, new)[Len(q) + 1] = new
  <2>1. q \in Seq(Item)  BY <1>0, SubFields
  <2> HIDE DEF q
  <2> QED  BY <1>4, <2>1
<1>6. /\ n \in Sub /\ n.pc = sub[s].pc /\ n.pos = p + 1 /\ n.seq = sub[s].seq
      /\ n.height = sub[s].height /\ n.queue = Append(q, new) /\ n.msg = sub[s].msg
      /\ n.block = sub[s].block /\ n.ended = ~result.ok
  <2>1. (~result.ok) \in BOOLEAN  BY <1>3
  <2> DEFINE bad == ~result.ok
  <2>2. n = [sub[s] EXCEPT !.pos = p + 1, !.ended = bad, !.queue = Append(q, new)]  OBVIOUS
  <2>3. bad \in BOOLEAN  BY <2>1
  <2> HIDE DEF bad, n
  <2>4. /\ n \in Sub /\ n.pc = sub[s].pc /\ n.pos = p + 1 /\ n.seq = sub[s].seq
        /\ n.height = sub[s].height /\ n.queue = Append(q, new) /\ n.msg = sub[s].msg
        /\ n.block = sub[s].block /\ n.ended = bad
    BY <1>0, <1>1, <1>5, <2>2, <2>3, SubFields DEF Sub
  <2> QED  BY <2>4 DEF bad
<1>7. Len(n.queue) <= Ahead  BY <1>0, <1>5, <1>6 DEF Ahead
<1>8. sub' = [sub EXCEPT ![s] = n]  BY DEF new
<1> HIDE DEF n
<1>9. /\ sub' \in [Subs -> Sub] /\ \A t \in Subs : Len(sub'[t].queue) <= Ahead
      /\ sub'[s] = n /\ \A t \in Subs \ {s} : sub'[t] = sub[t]
  BY <1>0, <1>6, <1>7, <1>8, OneSub
<1>10. /\ faults' \in 0 .. MaxFaults
       /\ Undisturbed' \/ (/\ faults' = faults /\ approvals = blocks[p].approvals
                          /\ own = FALSE /\ fetched = TRUE)
  <2>1. CASE Wrong(p, approvals, own, fetched)
    <3>1. Fault  BY <2>1 DEF MaybeFault
    <3> QED  BY <1>0, <3>1, FaultDisturbs
  <2>2. CASE ~Wrong(p, approvals, own, fetched)
    BY <1>2, <2>2 DEF MaybeFault, Wrong
  <2> QED  BY <2>1, <2>2
<1>11. TypeOK'  BY <1>0, <1>3, <1>9, <1>10, TypeIntro DEF TypeOK
<1>12. VerifierSound'
  <2>1. EpochSound(verifier)' <=> EpochSound(verifier')  BY DEF EpochSound
  <2>2. NoVerifier' = NoVerifier  BY DEF NoVerifier
  <2>3. EpochSound(verifier') => verifier' # NoVerifier  BY DEF EpochSound, NoVerifier
  <2> QED  BY <1>3, <2>1, <2>2, <2>3 DEF NearInv, VerifierSound
<1>13. CASE ~(relay.pc = "run" /\ relay.live = s)
  <2>1. EventsContinue' /\ HeightsContinue' /\ WaitingApproved'  BY <1>9, <1>13, OtherSub
  <2>2. Undisturbed'
    <3>1. CASE faults' = faults  BY <1>0, <1>13, <3>1, OnlyLive
    <3> QED  BY <1>10, <3>1
  <2> QED  BY <1>11, <1>12, <2>1, <2>2 DEF NearInv
<1>14. CASE relay.pc = "run" /\ relay.live = s
  <2>0. relay' = relay /\ link' = link /\ sub'[s] = n /\ relay'.live = s  BY <1>9, <1>14
  <2>1. WaitingApproved'
    <3>1. verified => /\ \A i \in 1 .. Len(q) : q[i] = Error \/ Good(q[i])
                      /\ n.pc = "message" => Good(n.block)
                      /\ verifier # NoVerifier
      BY <1>6, <1>14 DEF NearInv, WaitingApproved, VerifierSound
    <3>2. verified => new = Error \/ Good(new)  BY <1>3, <3>1 DEF new
    <3>3. verified => \A i \in 1 .. Len(n.queue) : n.queue[i] = Error \/ Good(n.queue[i])
      <4>1. ASSUME verified, NEW i \in 1 .. Len(n.queue)
            PROVE  n.queue[i] = Error \/ Good(n.queue[i])
        <5>1. CASE i \in 1 .. Len(q)  BY <1>5, <1>6, <3>1, <4>1, <5>1
        <5>2. CASE i = Len(q) + 1  BY <1>5, <1>6, <3>2, <4>1, <5>2
        <5> QED  BY <1>5, <1>6, <5>1, <5>2
      <4> QED  BY <4>1
    <3> QED  BY <2>0, <3>1, <3>3, WaitingFrame
  <2>2. EventsContinue'  BY <1>6, <1>14, <2>0 DEF NearInv, EventsContinue
  <2>3. HeightsContinue'
    <3>1. new = Error \/ new.height = p  BY DEF new
    <3>2. ASSUME NEW i \in 1 .. Len(n.queue)
          PROVE  \/ n.queue[i] = Error
                 \/ i \in 1 .. Len(q) /\ \A j \in 1 .. i : n.queue[j] = q[j]
                 \/ /\ n.queue[i].height = p /\ p > 0
                    /\ \A j \in 1 .. i - 1 : j \in 1 .. Len(q) /\ n.queue[j] = q[j]
      <4>1. CASE i \in 1 .. Len(q)  BY <1>5, <1>6, <4>1
      <4>2. CASE i = Len(q) + 1
        <5>1. n.queue[i] = new  BY <1>5, <1>6, <4>2
        <5>2. \A j \in 1 .. i - 1 : j \in 1 .. Len(q)  BY <1>5, <4>2
        <5> QED  BY <1>1, <1>5, <1>6, <3>1, <5>1, <5>2
      <4> QED  BY <1>5, <1>6, <4>1, <4>2
    <3> QED  BY <1>0, <1>6, <1>14, <2>0, <3>2, HeightsScan
  <2>4. Undisturbed'
    <3>1. SUFFICES ASSUME faults' = faults, faults = 0, Known(StartHeight - 1),
                          approvals = blocks[p].approvals, own = FALSE, fetched = TRUE
                   PROVE  Undisturbed'
      BY <1>10 DEF Undisturbed, Known
    <3>2. /\ ~link.set /\ (\A t \in Subs : t # s => sub[t] = NoSub) /\ ~sub[s].ended
          /\ sub[s].pc \in {"sync", "receive", "message"} /\ sub[s].pc # "sync"
          /\ sub[s].height = StartHeight /\ p >= StartHeight /\ sub[s].seq > 0
          /\ verified => /\ verifier.owner = s /\ Follows(p)
                         /\ verifier.blockHeight = verifier.previousBlockHash
          /\ \A i \in 1 .. Len(q) : q[i] # Error
      BY <1>0, <1>14, <3>1, UndisturbedElim
    <3>3. VerifierHeight \in Nat /\ StartHeight \in Nat /\ StartHeight > VerifierHeight
      BY NearAssumption
    <3>4. PICK k \in Nat : k = p  BY <1>1
    <3>5. /\ result.ok
          /\ verified => /\ verifier'.owner = s /\ Follows(k + 1)'
                         /\ verifier'.blockHeight = verifier'.previousBlockHash
      <4>1. CASE verifier = NoVerifier
        <5>1. ~verified  BY <1>14, <4>1 DEF NearInv, VerifierSound
        <5>2. result = [v |-> verifier, ok |-> TRUE]  BY <4>1
        <5>3. result.ok  BY <5>2
        <5> QED  BY <5>1, <5>3
      <4>2. CASE verifier # NoVerifier
        <5>1. /\ verified /\ EpochSound(verifier) /\ verifier.owner = s /\ Follows(p)
              /\ verifier.blockHeight = verifier.previousBlockHash /\ verifier'.owner = s
          BY <1>2, <1>3, <3>2, <4>2
        <5>2. result = ValidateHeader(verifier, p, blocks[p].approvals, FALSE, TRUE)
          BY <3>1, <4>2
        <5>3. p \in DOMAIN blocks /\ p >= p /\ \A m \in p .. p - 1 : FALSE
          BY <1>1 DEF Known
        <5>4. /\ blocks[p].prev = verifier.previousBlockHash
              /\ blocks[p].epoch \in {verifier.currentEpochId, verifier.nextEpochId}
          BY <5>1, <5>3 DEF Follows
        <5>5. /\ result.ok /\ verifier'.blockHeight = p /\ verifier'.previousBlockHash = p
              /\ verifier'.currentEpochId = blocks[p].epoch
              /\ verifier'.nextEpochId = blocks[p].epoch + 1
          <6>1. Known(p)  OBVIOUS
          <6> HIDE DEF p
          <6> DEFINE r == ValidateHeader(verifier, p, blocks[p].approvals, FALSE, TRUE)
          <6>2. /\ r.v.blockHeight = p /\ r.v.previousBlockHash = p
                /\ r.v.currentEpochId = blocks[p].epoch
                /\ r.v.nextEpochId = blocks[p].epoch + 1
                /\ r.ok
            BY <1>0, <1>2, <5>1, <5>4, <6>1, ValidateHonest
          <6> HIDE DEF r
          <6>3. result = r  BY <5>2 DEF r
          <6> QED  BY <6>2, <6>3
        <5>6. Follows(k + 1)'
          <6>1. k >= VerifierHeight /\ Follows(k)  BY <3>2, <3>3, <3>4, <5>1
          <6>2. /\ Known(k) /\ verifier'.previousBlockHash = k
                /\ verifier'.currentEpochId = blocks[k].epoch
                /\ verifier'.nextEpochId = blocks[k].epoch + 1
            BY <3>4, <5>5
          <6> QED  BY <1>0, <6>1, <6>2, FollowsOn
        <5> QED  BY <5>1, <5>5, <5>6
      <4> QED  BY <4>1, <4>2
    <3>6. verified => Follows(sub[s].pos)'
      <4>1. sub'[s].pos = k + 1  BY <1>6, <2>0, <3>4
      <4> QED  BY <3>5, <4>1
    <3>7. new = item /\ new # Error /\ new.height = p
      <4>1. new = item  BY <3>5 DEF new
      <4>2. item.height = p /\ Error.height = 0 /\ p # 0  BY <1>1 DEF Error
      <4> QED  BY <4>1, <4>2
    <3>8. \A i \in 1 .. Len(n.queue) : n.queue[i] # Error
      <4>1. \A i \in 1 .. Len(n.queue) : i \in 1 .. Len(q) \/ i = Len(q) + 1
        BY <1>5, <1>6
      <4> QED  BY <1>5, <1>6, <3>2, <3>7, <4>1
    <3>9. ASSUME NEW h \in DOMAIN blocks, Known(h), NEW i \in DOMAIN EventsAt(h)
          PROVE  EventsAt(h)[i] >= n.seq <=>
                     (h >= n.pos \/ \E j \in 1 .. Len(n.queue) : n.queue[j].height = h)
      <4>1. EventsAt(h)[i] >= sub[s].seq <=>
               (h >= p \/ \E j \in 1 .. Len(q) : q[j].height = h)
        BY <1>0, <1>14, <3>1, <3>9, UndisturbedElim
      <4>2. h \in Nat  BY <1>0, <3>9, ChainType
      <4>3. h >= p <=> (h >= p + 1 \/ h = p)  BY <1>1, <4>2
      <4>4. (\E j \in 1 .. Len(n.queue) : n.queue[j].height = h)
               <=> (h = p \/ \E j \in 1 .. Len(q) : q[j].height = h)
        <5>1. \A j \in 1 .. Len(n.queue) :
                 \/ j \in 1 .. Len(q) /\ n.queue[j] = q[j]
                 \/ j = Len(q) + 1 /\ n.queue[j] = new
          BY <1>5, <1>6
        <5>2. Len(q) + 1 \in 1 .. Len(n.queue) /\ n.queue[Len(q) + 1] = new
          BY <1>5, <1>6
        <5>3. \A j \in 1 .. Len(q) : j \in 1 .. Len(n.queue) /\ n.queue[j] = q[j]
          BY <1>5, <1>6
        <5>4. new.height = p  BY <3>7
        <5> HIDE DEF q, p
        <5> QED  BY ONLY <5>1, <5>2, <5>3, <5>4
      <4> QED  BY <1>6, <4>1, <4>3, <4>4
    <3>10. n.pos >= StartHeight  BY <1>1, <1>6, <3>2, <3>3
    <3>11. /\ relay'.pc = "run" /\ ~link'.set /\ \A t \in Subs : t # s => sub'[t] = NoSub
      BY <1>9, <1>14, <2>0, <3>2
    <3>12. ~n.ended  BY <1>6, <3>5
    <3>13. /\ sub'[s] = n /\ n.pc \in {"receive", "message"} /\ n.pc # "sync" /\ ~n.ended
           /\ n.height = StartHeight /\ n.pos >= StartHeight /\ n.seq > 0
           /\ relay'.live = s /\ verified' = verified /\ blocks' = blocks
      BY <1>0, <1>6, <2>0, <3>2, <3>10, <3>12
    <3>14. verified => /\ verifier'.owner = s /\ Follows(sub[s].pos)'
                       /\ verifier'.blockHeight = verifier'.previousBlockHash
      BY <3>5, <3>6
    <3>15. \A h \in DOMAIN blocks : Known(h) =>
              \A i \in DOMAIN EventsAt(h) :
                 EventsAt(h)[i] >= n.seq <=>
                    h >= n.pos \/ \E j \in 1 .. Len(n.queue) : n.queue[j].height = h
      BY <3>9
    <3>16. s \in Subs  OBVIOUS
    <3> QED  BY ONLY <3>8, <3>11, <3>13, <3>14, <3>15, <3>16, UndisturbedIntro
  <2> QED  BY <1>11, <1>12, <2>1, <2>2, <2>3, <2>4 DEF NearInv
<1> QED  BY <1>13, <1>14

\* The next block of a subscription.
LEMMA ScanKeeps ==
    ASSUME NearInv, NEW s \in Subs, Scan(s) PROVE NearInv'
<1> DEFINE p == sub[s].pos
<1>1. CASE ~Known(p)
  BY <1>1, ScanGapKeeps DEF Scan
<1>2. CASE Known(p)
  <2>1. PICK approvals \in Answers(p), own \in BOOLEAN, fetched \in BOOLEAN :
           LET item   == [height |-> p, approvals |-> approvals]
               result == IF verifier = NoVerifier THEN [v |-> verifier, ok |-> TRUE]
                         ELSE ValidateHeader(verifier, p, approvals, own, fetched)
           IN  /\ MaybeFault(Wrong(p, approvals, own, fetched))
               /\ verifier' = result.v
               /\ sub' = [sub EXCEPT ![s] = [sub[s] EXCEPT
                     !.pos = @ + 1, !.ended = ~result.ok,
                     !.queue = Append(@, IF result.ok THEN item ELSE Error)]]
    BY <1>2 DEF Scan
  <2> DEFINE result == IF verifier = NoVerifier THEN [v |-> verifier, ok |-> TRUE]
                       ELSE ValidateHeader(verifier, p, approvals, own, fetched)
  <2>2. PICK r : r = result  OBVIOUS
  <2>3. /\ Scans(s) /\ Known(sub[s].pos)
        /\ r = IF verifier = NoVerifier THEN [v |-> verifier, ok |-> TRUE]
               ELSE ValidateHeader(verifier, sub[s].pos, approvals, own, fetched)
        /\ MaybeFault(Wrong(sub[s].pos, approvals, own, fetched))
        /\ verifier' = r.v
        /\ UNCHANGED <<blocks, verified, head, link, relay, sent>>
    BY <1>2, <2>1, <2>2 DEF Scan
  <2>4. sub' = [sub EXCEPT ![s] = [sub[s] EXCEPT
                   !.pos = @ + 1, !.ended = ~r.ok,
                   !.queue = Append(@, IF r.ok
                                       THEN [height |-> sub[s].pos, approvals |-> approvals]
                                       ELSE Error)]]
    BY <2>1, <2>2
  <2> QED  BY <2>3, <2>4, ScanBlockKeeps
<1> QED  BY <1>1, <1>2

\* The first item of a queue and the others.
LEMMA QueueTail ==
    ASSUME NEW R, NEW q \in Seq(R), q # <<>>
    PROVE  /\ Head(q) = q[1] /\ q[1] \in R /\ Len(q) \in Nat /\ 1 \in 1 .. Len(q)
           /\ Tail(q) \in Seq(R) /\ Len(Tail(q)) = Len(q) - 1
           /\ \A i \in 1 .. Len(q) - 1 : Tail(q)[i] = q[i + 1]
<1>1. Len(q) \in Nat /\ Len(q) # 0  BY EmptySeq
<1>2. 1 \in 1 .. Len(q)  BY <1>1
<1>3. q[1] \in R /\ Head(q) = q[1]  BY <1>2
<1>4. /\ Tail(q) \in Seq(R) /\ Len(Tail(q)) = Len(q) - 1
      /\ \A i \in 1 .. Len(q) - 1 : Tail(q)[i] = q[i + 1]
  OBVIOUS
<1> QED  BY <1>1, <1>2, <1>3, <1>4

\* A subscription that takes the first item of its queue keeps its heights:
\* its receipts are all of the height of that item.
LEMMA HeightsProcess ==
    ASSUME NearInv, NEW s \in Subs, relay.pc = "run", relay.live = s,
           UNCHANGED <<blocks, link, relay>>,
           sub[s].pc = "receive", sub[s].queue # <<>>, sub'[s].queue = Tail(sub[s].queue),
           sub'[s].pos = sub[s].pos,
           sub'[s].pc \in {"receive", "message", "seqError", "error"},
           \/ sub'[s].msg = <<>>
           \/ /\ sub[s].queue[1] # Error /\ sub'[s].pc # "receive"
              /\ \A i \in 1 .. Len(sub'[s].msg) :
                    sub'[s].msg[i].height = sub[s].queue[1].height
    PROVE  HeightsContinue'
<1>1. SUFFICES ASSUME ~link.set PROVE HeightsContinue'  BY DEF HeightsContinue
<1>2. \A h : NotBelow(h)' <=> NotBelow(h)  BY DEF NotBelow
<1> DEFINE q == sub[s].queue
           m == sub'[s].msg
<1>3. /\ Len(q) \in Nat /\ 1 \in 1 .. Len(q) /\ Len(Tail(q)) = Len(q) - 1
      /\ \A i \in 1 .. Len(q) - 1 : Tail(q)[i] = q[i + 1]
      /\ \A i \in 1 .. Len(q) : q[i].height \in Nat
      /\ sub[s].pos \in Nat
  <2>1. TypeOK /\ blocks \in Chains  BY DEF NearInv, TypeOK
  <2>2. Len(blocks) \in Nat /\ DOMAIN blocks = 1 .. Len(blocks)  BY <2>1, ChainType
  <2>3. \A r \in Item : r.height \in Nat  BY <2>2 DEF Item, Error
  <2>4. q \in Seq(Item) /\ sub[s].pos \in 0 .. Len(blocks) + 1  BY <2>1, SubFields
  <2>5. \A i \in 1 .. Len(q) : q[i] \in Item  BY <2>4
  <2>6. q # <<>>  OBVIOUS
  <2> HIDE DEF q
  <2> QED  BY <2>2, <2>3, <2>4, <2>5, <2>6, QueueTail
<1>4. \A i \in 1 .. Len(m) : /\ q[1] # Error /\ m[i].height = q[1].height
                             /\ NotBelow(q[1].height) /\ q[1].height < sub[s].pos
  <2>1. CASE m = <<>>
    <3>1. Len(m) = 0  BY <2>1
    <3> QED  BY <3>1
  <2>2. CASE q[1] # Error /\ \A i \in 1 .. Len(m) : m[i].height = q[1].height
    BY <1>1, <1>3, <2>2, HeightsElim
  <2> QED  BY <2>1, <2>2
<1>5. ASSUME NEW i \in 1 .. Len(Tail(q)), Tail(q)[i] # Error
      PROVE  /\ NotBelow(Tail(q)[i].height)
             /\ Tail(q)[i].height < sub[s].pos
             /\ \A j \in 1 .. Len(m) : m[j].height <= Tail(q)[i].height
             /\ \A j \in 1 .. i - 1 : Tail(q)[j].height < Tail(q)[i].height
  <2>1. i + 1 \in 1 .. Len(q) /\ Tail(q)[i] = q[i + 1] /\ q[i + 1] # Error  BY <1>3, <1>5
  <2>2. /\ NotBelow(q[i + 1].height) /\ q[i + 1].height < sub[s].pos
        /\ \A j \in 1 .. (i + 1) - 1 : q[j].height < q[i + 1].height
    BY <1>1, <2>1, HeightsElim
  <2>3. ASSUME NEW j \in 1 .. i - 1 PROVE Tail(q)[j].height < q[i + 1].height
    <3>1. j + 1 \in 1 .. (i + 1) - 1 /\ j \in 1 .. Len(q) - 1  BY <1>3, <2>1
    <3> QED  BY <1>3, <2>2, <3>1
  <2>4. ASSUME NEW j \in 1 .. Len(m) PROVE m[j].height <= q[i + 1].height
    <3>1. 1 \in 1 .. (i + 1) - 1  BY <2>1, <1>3
    <3>2. q[1].height < q[i + 1].height  BY <2>2, <3>1
    <3> QED  BY <1>3, <1>4, <2>1, <3>2
  <2> QED  BY <2>1, <2>2, <2>3, <2>4
<1>6. /\ relay' = relay /\ link' = link /\ relay'.live = s
      /\ sub'[s].queue = Tail(q) /\ sub'[s].pos = sub[s].pos
  OBVIOUS
<1>7. (\A i \in 1 .. Len(sub[s].queue) : sub[s].queue[i] # Error =>
          /\ NotBelow(sub[s].queue[i].height)
          /\ sub[s].queue[i].height < sub[s].pos
          /\ \A j \in 1 .. Len(sub[s].msg) :
                sub[s].msg[j].height <= sub[s].queue[i].height
          /\ \A j \in 1 .. i - 1 : sub[s].queue[j].height < sub[s].queue[i].height)'
  BY <1>2, <1>5, <1>6
<1>8. (\A i \in 1 .. Len(sub[s].msg) :
          NotBelow(sub[s].msg[i].height) /\ sub[s].msg[i].height <= sub[s].pos)'
  BY <1>2, <1>3, <1>4, <1>6
<1>9. (\A i, j \in 1 .. Len(sub[s].msg) : sub[s].msg[i].height = sub[s].msg[j].height)'
  BY <1>4
<1>10. (sub[s].pc \in {"receive", "message", "seqError", "error"} => NotBelow(sub[s].pos))'
  BY <1>1, <1>2, <1>6, HeightsElim
<1>11. /\ (\A i, j \in 1 .. Len(relay.srcMsg) :
              i < j => relay.srcMsg[i].height <= relay.srcMsg[j].height)'
       /\ (\A i \in 1 .. Len(relay.srcMsg) :
              relay.srcMsg[i].seq > link.rxSeq => relay.srcMsg[i].height >= link.rxHeight)'
  BY <1>1, <1>6, HeightsElim
<1>12. (sub[s].pc \in {"sync", "syncError"} =>
          NotBelow(sub[s].height) /\ sub[s].queue = <<>> /\ sub[s].msg = <<>>)'
  OBVIOUS
<1>13. (sub[s].pc = "receive" => sub[s].msg = <<>>)'
  OBVIOUS
<1> QED  BY <1>6, <1>7, <1>8, <1>9, <1>10, <1>11, <1>12, <1>13, HeightsIntro

\* An error is taken from the queue.
LEMMA ProcessErrorKeeps ==
    ASSUME NearInv, NEW s \in Subs, sub[s].pc = "receive", sub[s].queue # <<>>,
           Head(sub[s].queue) = Error,
           sub' = [sub EXCEPT ![s] = [sub[s] EXCEPT !.queue = Tail(@), !.pc = "error"]],
           UNCHANGED <<blocks, verified, head, link, relay, verifier, sent, faults>>
    PROVE  NearInv'
<1> DEFINE q == sub[s].queue
           n == [sub[s] EXCEPT !.queue = Tail(@), !.pc = "error"]
<1>0. TypeOK /\ blocks \in Chains /\ q \in Seq(Item) /\ Len(q) <= Ahead
  BY SubFields DEF NearInv, TypeOK
<1>1. /\ Head(q) = q[1] /\ Len(q) \in Nat /\ 1 \in 1 .. Len(q)
      /\ Tail(q) \in Seq(Item) /\ Len(Tail(q)) = Len(q) - 1
      /\ \A i \in 1 .. Len(q) - 1 : Tail(q)[i] = q[i + 1]
  <2>1. q # <<>>  OBVIOUS
  <2> HIDE DEF q
  <2> QED  BY <1>0, <2>1, QueueTail
<1>2. /\ n \in Sub /\ n.pc = "error" /\ n.pos = sub[s].pos /\ n.seq = sub[s].seq
      /\ n.queue = Tail(q) /\ n.msg = sub[s].msg
  BY <1>0, <1>1, SubFields DEF Sub, Statuses
<1>3. Len(n.queue) <= Ahead  BY <1>0, <1>1, <1>2 DEF Ahead
<1>4. sub' = [sub EXCEPT ![s] = n]  OBVIOUS
<1> HIDE DEF n
<1>5. /\ sub' \in [Subs -> Sub] /\ \A t \in Subs : Len(sub'[t].queue) <= Ahead
      /\ sub'[s] = n /\ \A t \in Subs \ {s} : sub'[t] = sub[t]
  BY <1>0, <1>2, <1>3, <1>4, OneSub
<1>6. TypeOK'  BY <1>0, <1>5, TypeIntro DEF TypeOK
<1>7. VerifierSound'  BY DEF NearInv, VerifierSound, EpochSound
<1>8. CASE ~(relay.pc = "run" /\ relay.live = s)
  <2>1. EventsContinue' /\ HeightsContinue' /\ WaitingApproved'  BY <1>5, <1>8, OtherSub
  <2>2. Undisturbed'  BY <1>8, OnlyLive
  <2> QED  BY <1>6, <1>7, <2>1, <2>2 DEF NearInv
<1>9. CASE relay.pc = "run" /\ relay.live = s
  <2>0. relay' = relay /\ link' = link /\ sub'[s] = n /\ relay'.live = s  BY <1>5, <1>9
  <2>1. WaitingApproved'
    <3>1. verified => \A i \in 1 .. Len(q) : q[i] = Error \/ Good(q[i])
      BY <1>9 DEF NearInv, WaitingApproved
    <3>2. \A i \in 1 .. Len(n.queue) : i + 1 \in 1 .. Len(q) /\ n.queue[i] = q[i + 1]
      BY <1>1, <1>2
    <3>3. verified => \A i \in 1 .. Len(n.queue) : n.queue[i] = Error \/ Good(n.queue[i])
      BY <3>1, <3>2
    <3>4. n.pc # "message"  BY <1>2
    <3> QED  BY <2>0, <3>3, <3>4, WaitingFrame
  <2>2. EventsContinue'  BY <1>2, <1>9, <2>0 DEF NearInv, EventsContinue
  <2>3. HeightsContinue'
    <3>1. CASE link.set  BY <2>0, <3>1 DEF HeightsContinue
    <3>2. CASE ~link.set
      <4>1. n.msg = <<>>  BY <1>2, <1>9, <3>2, HeightsElim
      <4> QED  BY <1>2, <1>9, <2>0, <4>1, HeightsProcess
    <3> QED  BY <3>1, <3>2
  <2>4. Undisturbed'
    <3>1. SUFFICES ASSUME faults = 0, Known(StartHeight - 1) PROVE FALSE
      BY DEF Undisturbed, Known
    <3> QED  BY <1>1, <1>9, <3>1, UndisturbedElim
  <2> QED  BY <1>6, <1>7, <2>1, <2>2, <2>3, <2>4 DEF NearInv
<1> QED  BY <1>8, <1>9

\* The events of the chain are numbered in the order of the blocks.
LEMMA EventOrder ==
    ASSUME blocks \in Chains
    PROVE  /\ \A h : Known(h) => \A i \in DOMAIN EventsAt(h) :
                 EventsAt(h)[i] = EventsAt(h)[1] + i - 1
           /\ \A h, k : Known(h) /\ Known(k) /\ h < k =>
                 \A i \in DOMAIN EventsAt(h), j \in DOMAIN EventsAt(k) :
                    EventsAt(h)[i] < EventsAt(k)[j]
           /\ \A x \in 1 .. MaxSeq : \E k : Known(k) /\ \E j \in DOMAIN EventsAt(k) :
                 EventsAt(k)[j] = x
<1> DEFINE known == {h \in DOMAIN blocks : blocks[h] # NoBlock}
<1>1. \A h : Known(h) <=> h \in known  BY DEF Known
<1>2. /\ EventsIn(blocks) = 1 .. MaxSeq
      /\ \A h \in known : \A i \in DOMAIN EventsAt(h) :
            EventsAt(h)[i] = EventsAt(h)[1] + i - 1
      /\ \A h, k \in known : h < k =>
            \A i \in DOMAIN EventsAt(h), j \in DOMAIN EventsAt(k) :
               EventsAt(h)[i] < EventsAt(k)[j]
  BY EventAssumption DEF EventsAt, MaxSeq
<1>3. ASSUME NEW x \in 1 .. MaxSeq
      PROVE  \E k : Known(k) /\ \E j \in DOMAIN EventsAt(k) : EventsAt(k)[j] = x
  <2>1. x \in UNION {Range(EventsOf(blocks[h])) : h \in known}  BY <1>2 DEF EventsIn
  <2>2. PICK k \in known : x \in Range(EventsOf(blocks[k]))  BY <2>1
  <2>3. \E j \in DOMAIN EventsAt(k) : EventsAt(k)[j] = x  BY <2>2 DEF Range, EventsAt
  <2> QED  BY <1>1, <2>2, <2>3
<1> HIDE DEF known
<1> QED  BY <1>1, <1>2, <1>3

\* Without a failure, the events of the next block of the queue are the next
\* ones: all events before them are of blocks before it.
LEMMA NextAreDense ==
    ASSUME NearInv, faults = 0, Known(StartHeight - 1), NEW s \in Subs,
           relay.pc = "run", relay.live = s, sub[s].pc = "receive",
           NEW h, 1 \in 1 .. Len(sub[s].queue), sub[s].queue[1].height = h, Known(h),
           \A j \in 1 .. Len(sub[s].queue) : j = 1 \/ sub[s].queue[j].height > h,
           sub[s].pos > h
    PROVE  \A i \in DOMAIN EventsAt(h) : EventsAt(h)[i] = sub[s].seq + i - 1
<1> DEFINE e == EventsAt(h)
           seq == sub[s].seq
<1> SUFFICES ASSUME NEW i \in DOMAIN e PROVE e[i] = seq + i - 1  OBVIOUS
<1>0. TypeOK /\ blocks \in Chains  BY DEF NearInv, TypeOK
<1>1. /\ e \in Seq(1 .. MaxSeq) /\ MaxSeq \in Nat /\ seq \in Nat /\ seq > 0
      /\ h \in 1 .. Len(blocks) /\ DOMAIN blocks = 1 .. Len(blocks) /\ Len(blocks) \in Nat
  <2>1. e \in Seq(1 .. MaxSeq) /\ MaxSeq \in Nat  BY <1>0, EventsType
  <2>2. sub[s].seq \in 0 .. MaxSeq + 1 /\ sub[s].seq > 0  BY <1>0, SubFields, UndisturbedElim
  <2>3. seq \in Nat /\ seq > 0  BY <2>1, <2>2
  <2>4. h \in 1 .. Len(blocks) /\ DOMAIN blocks = 1 .. Len(blocks) /\ Len(blocks) \in Nat
    BY <1>0, KnownBlock, ChainType
  <2> HIDE DEF e, seq
  <2> QED  BY <2>1, <2>3, <2>4
<1>2. 1 \in DOMAIN e /\ i \in Nat /\ e[1] \in 1 .. MaxSeq /\ e[i] = e[1] + i - 1
  <2>1. e[i] = e[1] + i - 1  BY <1>0, EventOrder
  <2>2. DOMAIN e = 1 .. Len(e) /\ Len(e) \in Nat
    <3> HIDE DEF e
    <3> QED  BY <1>1
  <2>3. 1 \in DOMAIN e /\ i \in Nat
    <3>1. i \in DOMAIN e  OBVIOUS
    <3> HIDE DEF e
    <3> QED  BY <2>2, <3>1
  <2>4. e[1] \in 1 .. MaxSeq  BY <1>0, <2>3, EventsType
  <2> HIDE DEF e
  <2> QED  BY <2>1, <2>3, <2>4
<1>3. e[1] >= seq
  <2>1. h \in DOMAIN blocks  BY <1>1
  <2> QED  BY <1>2, <2>1, UndisturbedElim
<1>4. seq \in 1 .. MaxSeq
  <2> HIDE DEF e, seq
  <2> QED  BY ONLY <1>1, <1>2, <1>3
<1>5. PICK k : Known(k) /\ \E j \in DOMAIN EventsAt(k) : EventsAt(k)[j] = seq
  BY <1>0, <1>4, EventOrder
<1>6. PICK j \in DOMAIN EventsAt(k) : EventsAt(k)[j] = seq  BY <1>5
<1>7. k \in 1 .. Len(blocks)  BY <1>0, <1>5, KnownBlock
<1>8. k >= h
  <2>1. k >= sub[s].pos \/ \E m \in 1 .. Len(sub[s].queue) : sub[s].queue[m].height = k
    <3>1. seq >= seq /\ k \in DOMAIN blocks  BY <1>1, <1>7
    <3> QED  BY <1>5, <1>6, <3>1, UndisturbedElim
  <2>2. CASE k >= sub[s].pos
    <3>1. sub[s].pos \in Nat  BY <1>0, <1>1, SubFields
    <3> QED  BY <1>1, <1>7, <2>2, <3>1
  <2>3. CASE \E m \in 1 .. Len(sub[s].queue) : sub[s].queue[m].height = k
    <3>1. PICK m \in 1 .. Len(sub[s].queue) : sub[s].queue[m].height = k  BY <2>3
    <3>2. k = h \/ k > h  BY <3>1
    <3> QED  BY ONLY <1>1, <1>7, <3>2
  <2> QED  BY <2>1, <2>2, <2>3
<1>9. k = h
  <2> SUFFICES ASSUME k # h PROVE FALSE  OBVIOUS
  <2>1. h < k  BY <1>1, <1>7, <1>8
  <2>2. e[1] < seq  BY <1>0, <1>2, <1>5, <1>6, <2>1, EventOrder
  <2> HIDE DEF e, seq
  <2> QED  BY ONLY <1>1, <1>2, <1>3, <2>2
<1>10. j \in Nat /\ j >= 1 /\ seq = e[1] + j - 1
  <2>1. e[j] = e[1] + j - 1 /\ e[j] = seq /\ j \in DOMAIN e  BY <1>0, <1>5, <1>6, <1>9, EventOrder
  <2>2. DOMAIN e = 1 .. Len(e) /\ Len(e) \in Nat
    <3> HIDE DEF e
    <3> QED  BY <1>1
  <2> HIDE DEF e, seq
  <2> QED  BY <2>1, <2>2
<1>11. e[1] = seq
  <2> HIDE DEF e, seq
  <2> QED  BY ONLY <1>1, <1>2, <1>3, <1>10
<1> QED  BY <1>2, <1>11

\* What a block of the queue adds to its subscription.
LEMMA ProcessItemFields ==
    ASSUME NearInv, NEW s \in Subs, sub[s].queue # <<>>,
           NEW item, item = sub[s].queue[1], item # Error,
           NEW events, events = EventsAt(item.height),
           NEW next, next = NextEvents(events, sub[s].seq),
           ProcessItem(s, item, events, next)
    PROVE  /\ sub' \in [Subs -> Sub] /\ \A t \in Subs : Len(sub'[t].queue) <= Ahead
           /\ \A t \in Subs \ {s} : sub'[t] = sub[t]
           /\ item \in Item /\ Known(item.height)
           /\ events \in Seq(1 .. MaxSeq) /\ Len(next) \in Nat
           /\ \A i \in 1 .. Len(next) : next[i] = sub[s].seq + i - 1
           /\ sub'[s].queue = Tail(sub[s].queue) /\ sub'[s].seq = sub[s].seq + Len(next)
           /\ sub'[s].pos = sub[s].pos /\ sub'[s].height = sub[s].height
           /\ sub'[s].ended = sub[s].ended
           /\ \/ /\ sub'[s].pc = "seqError" /\ sub'[s].msg = <<>>
                 /\ \E i \in DOMAIN events : events[i] >= sub[s].seq + Len(next)
              \/ /\ sub'[s].pc = (IF next # <<>> THEN "message" ELSE "receive")
                 /\ sub'[s].block = (IF next = <<>> THEN Error ELSE item)
                 /\ Len(sub'[s].msg) = Len(next)
                 /\ sub'[s].msg = [i \in 1 .. Len(next) |-> [height |-> item.height, seq |-> next[i]]]
                 /\ next = <<>> => sub'[s].msg = <<>>
<1> DEFINE q   == sub[s].queue
           gap == \E i \in DOMAIN events : events[i] >= sub[s].seq + Len(next)
           msg == [i \in DOMAIN next |-> [height |-> item.height, seq |-> next[i]]]
           nb  == IF gap \/ next = <<>> THEN Error ELSE item
           nm  == IF gap THEN <<>> ELSE msg
           np  == IF gap THEN "seqError" ELSE IF next # <<>> THEN "message" ELSE "receive"
           n   == [sub[s] EXCEPT !.queue = Tail(@), !.seq = @ + Len(next),
                                 !.block = nb, !.msg = nm, !.pc = np]
<1>0. TypeOK /\ blocks \in Chains /\ q \in Seq(Item) /\ Len(q) <= Ahead
  BY SubFields DEF NearInv, TypeOK
<1>1. /\ q[1] \in Item /\ Len(q) \in Nat
      /\ Tail(q) \in Seq(Item) /\ Len(Tail(q)) = Len(q) - 1
  <2>1. q # <<>>  OBVIOUS
  <2> HIDE DEF q
  <2> QED  BY <1>0, <2>1, QueueTail
<1>2. item \in Item /\ Known(item.height) /\ item.height \in DOMAIN blocks
  <2>1. item \in Item  BY <1>1
  <2>2. item \in [height : {h \in DOMAIN blocks : Known(h)}, approvals : Seq(BOOLEAN)]
    BY <2>1 DEF Item
  <2>3. item.height \in {h \in DOMAIN blocks : Known(h)}  BY <2>2
  <2> QED  BY <2>1, <2>3
<1>3. events \in Seq(1 .. MaxSeq) /\ MaxSeq \in Nat /\ sub[s].seq \in 0 .. MaxSeq + 1
  BY <1>0, <1>2, EventsType, SubFields
<1>4. /\ next \in Seq(1 .. MaxSeq) /\ Len(next) \in Nat
      /\ \A i \in 1 .. Len(next) : next[i] = sub[s].seq + i - 1
  <2>1. sub[s].seq \in Nat  BY <1>3
  <2> QED  BY <1>3, <2>1, NextEventsType
<1>5. DOMAIN next = 1 .. Len(next) /\ \A i \in 1 .. Len(next) : next[i] \in 1 .. MaxSeq
  <2>1. \A i \in 1 .. Len(next) : next[i] \in 1 .. MaxSeq  BY <1>4, ElementOfSeq
  <2> QED  BY <1>4, <2>1
<1>6. sub[s].seq + Len(next) \in 0 .. MaxSeq + 1
  <2>1. CASE Len(next) = 0  BY <1>3, <2>1
  <2>2. CASE Len(next) # 0
    <3>1. Len(next) \in 1 .. Len(next)  BY <1>4, <2>2
    <3>2. next[Len(next)] \in 1 .. MaxSeq /\ next[Len(next)] = sub[s].seq + Len(next) - 1
      BY ONLY <1>4, <1>5, <3>1
    <3> DEFINE x == sub[s].seq
               l == Len(next)
    <3>3. x + l - 1 \in 1 .. MaxSeq /\ x \in 0 .. MaxSeq + 1 /\ l \in Nat /\ MaxSeq \in Nat
      BY <1>3, <1>4, <3>2
    <3> HIDE DEF x, l
    <3>4. x + l \in 0 .. MaxSeq + 1  BY ONLY <3>3
    <3> QED  BY <3>4 DEF x, l
  <2> QED  BY <2>1, <2>2
<1>7. /\ msg \in Seq(Receipt) /\ Len(msg) = Len(next)
      /\ msg = [i \in 1 .. Len(next) |-> [height |-> item.height, seq |-> next[i]]]
      /\ next = <<>> => msg = <<>>
  <2>1. \A i \in 1 .. Len(next) : [height |-> item.height, seq |-> next[i]] \in Receipt
    BY <1>2, <1>5 DEF Receipt
  <2>2. msg = [i \in 1 .. Len(next) |-> [height |-> item.height, seq |-> next[i]]]
    BY <1>5
  <2> HIDE DEF msg
  <2>3. msg \in [1 .. Len(next) -> Receipt]  BY <2>1, <2>2
  <2>4. msg \in Seq(Receipt)  BY <1>4, <2>3, SeqDef
  <2>5. DOMAIN msg = 1 .. Len(next)  BY <2>2
  <2>6. Len(msg) = Len(next)  BY <1>4, <2>4, <2>5
  <2>7. next = <<>> => Len(next) = 0  BY <1>4
  <2>8. next = <<>> => msg = <<>>  BY <2>4, <2>6, <2>7, EmptySeq
  <2> QED  BY <2>2, <2>4, <2>6, <2>8
<1>8. nb \in Item /\ nm \in Seq(Receipt) /\ np \in Statuses
  <2>1. <<>> \in Seq(Receipt) /\ Error \in Item  BY <1>0, NothingType
  <2> HIDE DEF msg, gap
  <2> QED  BY <1>2, <1>7, <2>1 DEF Statuses
<1>9. sub' = [sub EXCEPT ![s] = n]  BY DEF ProcessItem
<1> HIDE DEF nb, nm, np
<1>10. /\ n \in Sub /\ n.queue = Tail(q) /\ n.seq = sub[s].seq + Len(next)
       /\ n.pos = sub[s].pos /\ n.height = sub[s].height /\ n.ended = sub[s].ended
       /\ n.block = nb /\ n.msg = nm /\ n.pc = np
  BY <1>0, <1>1, <1>6, <1>8, SubFields DEF Sub
<1> HIDE DEF n
<1>11. Len(n.queue) <= Ahead  BY <1>0, <1>1, <1>10 DEF Ahead
<1>12. /\ sub' \in [Subs -> Sub] /\ \A t \in Subs : Len(sub'[t].queue) <= Ahead
       /\ sub'[s] = n /\ \A t \in Subs \ {s} : sub'[t] = sub[t]
  BY <1>0, <1>9, <1>10, <1>11, OneSub
<1>13. \/ /\ n.pc = "seqError" /\ n.msg = <<>>
          /\ \E i \in DOMAIN events : events[i] >= sub[s].seq + Len(next)
       \/ /\ n.pc = (IF next # <<>> THEN "message" ELSE "receive")
          /\ n.block = (IF next = <<>> THEN Error ELSE item)
          /\ Len(n.msg) = Len(next)
          /\ n.msg = [i \in 1 .. Len(next) |-> [height |-> item.height, seq |-> next[i]]]
          /\ next = <<>> => n.msg = <<>>
  <2>1. CASE gap
    <3>1. nm = <<>> /\ np = "seqError"  BY <2>1 DEF nm, np
    <3> QED  BY <1>10, <2>1, <3>1
  <2>2. CASE ~gap
    <3>1. /\ nm = msg /\ nb = (IF next = <<>> THEN Error ELSE item)
          /\ np = (IF next # <<>> THEN "message" ELSE "receive")
      BY <2>2 DEF nm, np, nb
    <3> HIDE DEF gap, msg
    <3> QED  BY <1>7, <1>10, <3>1
  <2> QED  BY <2>1, <2>2
<1> QED  BY <1>2, <1>3, <1>4, <1>10, <1>12, <1>13


\* Without a failure, a block that is taken from the queue takes its own events
\* away, and no others, from those that are still to be seen.
LEMMA ItemEvents ==
    ASSUME NearInv, faults = 0, Known(StartHeight - 1), NEW s \in Subs,
           relay.pc = "run", relay.live = s, sub[s].pc = "receive",
           sub[s].queue # <<>>, NEW h, sub[s].queue[1].height = h, Known(h)
    PROVE  /\ \A i \in DOMAIN EventsAt(h) : EventsAt(h)[i] = sub[s].seq + i - 1
           /\ \A k \in DOMAIN blocks : Known(k) => \A i \in DOMAIN EventsAt(k) :
                 EventsAt(k)[i] >= sub[s].seq + Len(EventsAt(h)) <=>
                    \/ k >= sub[s].pos
                    \/ \E j \in 1 .. Len(Tail(sub[s].queue)) : Tail(sub[s].queue)[j].height = k
<1> DEFINE q   == sub[s].queue
           seq == sub[s].seq
           pos == sub[s].pos
           L   == Len(EventsAt(h))
<1>0. TypeOK /\ blocks \in Chains  BY DEF NearInv, TypeOK
<1>1. /\ Len(q) \in Nat /\ 1 \in 1 .. Len(q) /\ Len(Tail(q)) = Len(q) - 1
      /\ \A i \in 1 .. Len(q) - 1 : Tail(q)[i] = q[i + 1]
  <2>1. q # <<>> /\ q \in Seq(Item)  BY <1>0, SubFields
  <2> HIDE DEF q
  <2> QED  BY <2>1, QueueTail
<1>2. ~link.set /\ \A i \in 1 .. Len(q) : q[i] # Error  BY UndisturbedElim
<1>3. pos > h /\ \A j \in 1 .. Len(q) : j = 1 \/ q[j].height > h
  <2>1. \A i \in 1 .. Len(q) : /\ q[i].height < pos
                               /\ \A j \in 1 .. i - 1 : q[j].height < q[i].height
    BY <1>2, HeightsElim
  <2>2. pos \in Nat /\ h \in Nat
    BY <1>0, SubFields, ChainType, KnownBlock
  <2>3. \A i \in 1 .. Len(q) : q[i].height \in Nat
    <3>1. \A r \in Item : r.height \in Nat  BY <1>0, ChainType DEF Item, Error
    <3>2. q \in Seq(Item)  BY <1>0, SubFields
    <3>3. \A i \in 1 .. Len(q) : q[i] \in Item  BY <3>2, ElementOfSeq
    <3> QED  BY <3>1, <3>3
  <2>4. pos > h  BY <1>1, <2>1, <2>2
  <2>5. ASSUME NEW j \in 1 .. Len(q), j # 1 PROVE q[j].height > h
    <3>1. 1 \in 1 .. j - 1  BY <1>1, <2>5
    <3>2. q[1].height < q[j].height  BY <2>1, <3>1
    <3> QED  BY <2>2, <2>3, <3>2
  <2> QED  BY <2>4, <2>5
<1>4. \A i \in DOMAIN EventsAt(h) : EventsAt(h)[i] = seq + i - 1
  BY <1>1, <1>3, NextAreDense
<1>5. /\ L \in Nat /\ DOMAIN EventsAt(h) = 1 .. L /\ seq \in Nat
      /\ h \in Nat /\ pos \in Nat /\ MaxSeq \in Nat
  <2>1. EventsAt(h) \in Seq(1 .. MaxSeq) /\ MaxSeq \in Nat  BY <1>0, EventsType
  <2>2. L \in Nat /\ DOMAIN EventsAt(h) = 1 .. L  BY <2>1
  <2>3. seq \in Nat /\ h \in Nat /\ pos \in Nat
    BY SMTT(20), <1>0, <2>1, SubFields, ChainType, KnownBlock
  <2> QED  BY <2>1, <2>2, <2>3
<1>6. ASSUME NEW k \in DOMAIN blocks, Known(k), NEW i \in DOMAIN EventsAt(k)
      PROVE  EventsAt(k)[i] >= seq + L <=>
                (k >= pos \/ \E j \in 1 .. Len(Tail(q)) : Tail(q)[j].height = k)
  <2> DEFINE x == EventsAt(k)[i]
  <2>1. x >= seq <=> (k >= pos \/ \E j \in 1 .. Len(q) : q[j].height = k)
    BY <1>6, UndisturbedElim
  <2>2. x \in Nat /\ k \in Nat
    <3>1. x \in 1 .. MaxSeq  BY <1>0, <1>6, EventsType
    <3> QED  BY <1>0, <1>5, <3>1, ChainType
  <2>3. (\E j \in 1 .. Len(Tail(q)) : Tail(q)[j].height = k)
           <=> \E j \in 1 .. Len(q) : j # 1 /\ q[j].height = k
    <3>1. ASSUME NEW j \in 1 .. Len(Tail(q)), Tail(q)[j].height = k
          PROVE  \E m \in 1 .. Len(q) : m # 1 /\ q[m].height = k
      <4>1. j + 1 \in 1 .. Len(q) /\ j + 1 # 1 /\ Tail(q)[j] = q[j + 1]  BY <1>1
      <4> QED  BY <3>1, <4>1
    <3>2. ASSUME NEW m \in 1 .. Len(q), m # 1, q[m].height = k
          PROVE  \E j \in 1 .. Len(Tail(q)) : Tail(q)[j].height = k
      <4>1. m - 1 \in 1 .. Len(q) - 1 /\ (m - 1) + 1 = m  BY <1>1, <3>2
      <4>2. m - 1 \in 1 .. Len(Tail(q)) /\ Tail(q)[m - 1] = q[m]
        <5>1. Tail(q)[m - 1] = q[(m - 1) + 1]  BY <1>1, <4>1
        <5> QED  BY <1>1, <4>1, <5>1
      <4> QED  BY <3>2, <4>2
    <3> QED  BY <3>1, <3>2
  <2>4. CASE k = h
    <3>1. ~(x >= seq + L)
      <4>1. x = seq + i - 1 /\ i \in 1 .. L  BY <1>4, <1>5, <2>4
      <4> HIDE DEF x, seq, L
      <4> QED  BY ONLY <1>5, <4>1
    <3>2. ~(k >= pos)  BY <1>3, <1>5, <2>2, <2>4
    <3>3. ~\E j \in 1 .. Len(q) : j # 1 /\ q[j].height = k
      <4> SUFFICES ASSUME NEW j \in 1 .. Len(q), j # 1, q[j].height = k PROVE FALSE
        OBVIOUS
      <4>1. k > h /\ k = h /\ h \in Nat  BY <1>3, <1>5, <2>4
      <4> QED  BY ONLY <4>1
    <3> QED  BY <2>3, <3>1, <3>2, <3>3
  <2>5. CASE k # h
    <3>1. (\E j \in 1 .. Len(q) : j # 1 /\ q[j].height = k)
             <=> \E j \in 1 .. Len(q) : q[j].height = k
      BY <2>5
    <3>2. x >= seq + L <=> x >= seq
      <4>1. CASE L = 0
        <5>1. seq + L = seq  BY <1>5, <4>1
        <5> QED  BY <5>1
      <4>2. CASE L # 0
        <5>1. 1 \in 1 .. L /\ L \in 1 .. L  BY <1>5, <4>2
        <5>2. EventsAt(h)[1] = seq + 1 - 1 /\ EventsAt(h)[L] = seq + L - 1
          BY <1>4, <1>5, <5>1
        <5>3. (x < EventsAt(h)[1]) \/ (EventsAt(h)[L] < x)
          <6>1. k < h \/ h < k  BY <1>5, <2>2, <2>5
          <6> QED  BY <1>0, <1>5, <1>6, <5>1, <6>1, EventOrder
        <5>4. x < seq + 1 - 1 \/ seq + L - 1 < x  BY <5>2, <5>3
        <5> HIDE DEF x, seq, L
        <5> QED  BY ONLY <1>5, <2>2, <5>4
      <4> QED  BY <4>1, <4>2
    <3> QED  BY <2>1, <2>3, <3>1, <3>2
  <2> QED  BY <2>4, <2>5
<1> QED  BY <1>4, <1>6

\* A block is taken from the queue.
LEMMA ProcessItemKeeps ==
    ASSUME NearInv, NEW s \in Subs, sub[s].pc = "receive", sub[s].queue # <<>>,
           NEW item, item = sub[s].queue[1], item # Error,
           NEW events, events = EventsAt(item.height),
           NEW next, next = NextEvents(events, sub[s].seq),
           ProcessItem(s, item, events, next),
           UNCHANGED <<blocks, verified, head, link, relay, verifier, sent, faults>>
    PROVE  NearInv'
<1> DEFINE q == sub[s].queue
           n == sub'[s]
<1>0. TypeOK /\ blocks \in Chains /\ q \in Seq(Item)  BY SubFields DEF NearInv, TypeOK
<1>1. /\ Len(q) \in Nat /\ 1 \in 1 .. Len(q) /\ Len(Tail(q)) = Len(q) - 1
      /\ \A i \in 1 .. Len(q) - 1 : Tail(q)[i] = q[i + 1]
  <2>1. q # <<>>  OBVIOUS
  <2> HIDE DEF q
  <2> QED  BY <1>0, <2>1, QueueTail
<1>P. /\ sub' \in [Subs -> Sub] /\ \A t \in Subs : Len(sub'[t].queue) <= Ahead
      /\ \A t \in Subs \ {s} : sub'[t] = sub[t]
      /\ item \in Item /\ Known(item.height)
      /\ events \in Seq(1 .. MaxSeq) /\ Len(next) \in Nat
      /\ \A i \in 1 .. Len(next) : next[i] = sub[s].seq + i - 1
      /\ sub'[s].queue = Tail(sub[s].queue) /\ sub'[s].seq = sub[s].seq + Len(next)
      /\ sub'[s].pos = sub[s].pos /\ sub'[s].height = sub[s].height
      /\ sub'[s].ended = sub[s].ended
      /\ \/ /\ sub'[s].pc = "seqError" /\ sub'[s].msg = <<>>
            /\ \E i \in DOMAIN events : events[i] >= sub[s].seq + Len(next)
         \/ /\ sub'[s].pc = (IF next # <<>> THEN "message" ELSE "receive")
            /\ sub'[s].block = (IF next = <<>> THEN Error ELSE item)
            /\ Len(sub'[s].msg) = Len(next)
            /\ sub'[s].msg = [i \in 1 .. Len(next) |-> [height |-> item.height, seq |-> next[i]]]
            /\ next = <<>> => sub'[s].msg = <<>>
  BY SMTT(20), ProcessItemFields
<1>2. /\ sub' \in [Subs -> Sub] /\ \A t \in Subs : Len(sub'[t].queue) <= Ahead
      /\ \A t \in Subs \ {s} : sub'[t] = sub[t]
      /\ Known(item.height)
  BY <1>P
<1>3. /\ events \in Seq(1 .. MaxSeq) /\ Len(next) \in Nat
      /\ \A i \in 1 .. Len(next) : next[i] = sub[s].seq + i - 1
  BY <1>P
<1>4. /\ n.queue = Tail(q) /\ n.seq = sub[s].seq + Len(next)
      /\ n.pos = sub[s].pos /\ n.height = sub[s].height /\ n.ended = sub[s].ended
  BY <1>P
<1>5. \/ /\ n.pc = "seqError" /\ n.msg = <<>>
         /\ \E i \in DOMAIN events : events[i] >= sub[s].seq + Len(next)
      \/ /\ n.pc = (IF next # <<>> THEN "message" ELSE "receive")
         /\ n.block = (IF next = <<>> THEN Error ELSE item)
         /\ Len(n.msg) = Len(next)
         /\ n.msg = [i \in 1 .. Len(next) |-> [height |-> item.height, seq |-> next[i]]]
         /\ next = <<>> => n.msg = <<>>
  BY <1>P
<1>6. TypeOK'  BY <1>0, <1>2, TypeIntro DEF TypeOK
<1>7. VerifierSound'  BY DEF NearInv, VerifierSound, EpochSound
<1>8. CASE ~(relay.pc = "run" /\ relay.live = s)
  <2>1. EventsContinue' /\ HeightsContinue' /\ WaitingApproved'  BY <1>2, <1>8, OtherSub
  <2>2. Undisturbed'  BY <1>8, OnlyLive
  <2> QED  BY <1>6, <1>7, <2>1, <2>2 DEF NearInv
<1>9. CASE relay.pc = "run" /\ relay.live = s
  <2>0. relay' = relay /\ link' = link /\ relay'.live = s /\ relay'.pc = "run"  BY <1>9
  <2>1. WaitingApproved'
    <3>1. verified => \A i \in 1 .. Len(q) : q[i] = Error \/ Good(q[i])
      BY <1>9 DEF NearInv, WaitingApproved
    <3>2. \A i \in 1 .. Len(n.queue) : i + 1 \in 1 .. Len(q) /\ n.queue[i] = q[i + 1]
      BY <1>1, <1>4
    <3>3. verified => \A i \in 1 .. Len(n.queue) : n.queue[i] = Error \/ Good(n.queue[i])
      BY <3>1, <3>2
    <3>4. verified => Good(item)  BY <1>1, <3>1
    <3>5. verified /\ n.pc = "message" => Good(n.block)  BY <1>5, <3>4
    <3> QED  BY <2>0, <3>3, <3>5, WaitingFrame
  <2>2. EventsContinue'
    <3>1. SUFFICES ASSUME ~link.set PROVE EventsContinue'
      BY <2>0 DEF EventsContinue
    <3> DEFINE x   == sub[s].seq
               src == relay.srcMsg
    <3>2. sub[s].msg = <<>>  BY <1>9, <3>1, HeightsElim
    <3>3. x \in Int /\ Len(n.msg) \in Nat /\ Len(sub[s].msg) = 0
      <4>1. x \in 0 .. MaxSeq + 1 /\ MaxSeq \in Nat  BY <1>0, SubFields, EventsType
      <4>2. Len(n.msg) \in Nat  BY <1>3, <1>5
      <4> QED  BY <3>2, <4>1, <4>2
    <3>4. /\ \A i \in 1 .. Len(src) : src[i].seq = src[1].seq + i - 1
          /\ src # <<>> => src[1].seq <= link.rxSeq + 1
          /\ IF src = <<>> THEN x - Len(sub[s].msg) <= link.rxSeq + 1
             ELSE x - Len(sub[s].msg) = src[Len(src)].seq + 1
      BY <1>9, <3>1 DEF NearInv, EventsContinue
    <3>5. IF src = <<>> THEN x <= link.rxSeq + 1 ELSE x = src[Len(src)].seq + 1
      <4>1. x - Len(sub[s].msg) = x  BY <3>3
      <4> HIDE DEF x, src
      <4> QED  BY <3>4, <4>1
    <3>6. n.pc # "seqError" => n.seq - Len(n.msg) = x
      <4>1. n.pc # "seqError" => Len(n.msg) = Len(next)  BY <1>5
      <4>2. n.seq = x + Len(next)  BY <1>4
      <4> HIDE DEF n, x
      <4> QED  BY <1>3, <3>3, <4>1, <4>2
    <3>7. ASSUME NEW i \in 1 .. Len(n.msg)
          PROVE  n.msg[i].seq = n.seq - Len(n.msg) + i - 1
      <4>1. n.msg # <<>>  BY <3>3
      <4>2. /\ n.pc # "seqError" /\ Len(n.msg) = Len(next)
            /\ n.msg = [j \in 1 .. Len(next) |-> [height |-> item.height, seq |-> next[j]]]
        BY <1>5, <4>1
      <4>3. n.msg[i].seq = next[i]  BY <4>2
      <4>4. next[i] = x + i - 1  BY <1>3, <4>2
      <4> HIDE DEF n, x
      <4> QED  BY <3>6, <4>2, <4>3, <4>4
    <3>8. (\A i \in 1 .. Len(sub[s].msg) :
              sub[s].msg[i].seq = sub[s].seq - Len(sub[s].msg) + i - 1)'
      BY <3>7
    <3>9. (sub[s].pc # "seqError" =>
              IF relay.srcMsg = <<>> THEN sub[s].seq - Len(sub[s].msg) <= link.rxSeq + 1
              ELSE sub[s].seq - Len(sub[s].msg) = relay.srcMsg[Len(relay.srcMsg)].seq + 1)'
      BY <2>0, <3>5, <3>6
    <3>10. /\ (\A i \in 1 .. Len(relay.srcMsg) : relay.srcMsg[i].seq = relay.srcMsg[1].seq + i - 1)'
           /\ (relay.srcMsg # <<>> => relay.srcMsg[1].seq <= link.rxSeq + 1)'
      BY <2>0, <3>4
    <3> HIDE DEF n
    <3> QED  BY <2>0, <3>8, <3>9, <3>10 DEF EventsContinue
  <2>3. HeightsContinue'
    <3>1. n.pc \in {"receive", "message", "seqError", "error"}  BY <1>5
    <3>2. \/ n.msg = <<>>
          \/ /\ q[1] # Error /\ n.pc # "receive"
             /\ \A i \in 1 .. Len(n.msg) : n.msg[i].height = q[1].height
      BY <1>5
    <3> QED  BY <1>4, <1>9, <3>1, <3>2, HeightsProcess
  <2>4. Undisturbed'
    <3>1. SUFFICES ASSUME faults = 0, Known(StartHeight - 1) PROVE Undisturbed'
      BY DEF Undisturbed, Known
    <3>2. /\ ~link.set /\ (\A t \in Subs : t # s => sub[t] = NoSub) /\ ~sub[s].ended
          /\ sub[s].height = StartHeight /\ sub[s].pos >= StartHeight /\ sub[s].seq > 0
          /\ verified => /\ verifier.owner = s /\ Follows(sub[s].pos)
                         /\ verifier.blockHeight = verifier.previousBlockHash
          /\ \A i \in 1 .. Len(q) : q[i] # Error
      BY <1>9, <3>1, UndisturbedElim
    <3>3. /\ \A i \in DOMAIN events : events[i] = sub[s].seq + i - 1
          /\ \A k \in DOMAIN blocks : Known(k) => \A i \in DOMAIN EventsAt(k) :
                EventsAt(k)[i] >= sub[s].seq + Len(events) <=>
                   \/ k >= sub[s].pos
                   \/ \E j \in 1 .. Len(Tail(q)) : Tail(q)[j].height = k
      BY <1>2, <1>9, <3>1, ItemEvents
    <3>4. Len(next) = Len(events)
      <4>1. MaxSeq \in Nat /\ sub[s].seq \in Nat
        BY <1>0, SubFields, EventsType
      <4>2. \A i \in 1 .. Len(events) : events[i] = sub[s].seq + i - 1  BY <1>3, <3>3
      <4> QED  BY <1>3, <4>1, <4>2, NextEventsAll
    <3>5. n.pc # "seqError" /\ n.pc \in {"receive", "message"}
      <4>1. ~\E i \in DOMAIN events : events[i] >= sub[s].seq + Len(next)
        <5> SUFFICES ASSUME NEW i \in DOMAIN events, events[i] >= sub[s].seq + Len(next)
                     PROVE  FALSE
          OBVIOUS
        <5>1. i \in 1 .. Len(events) /\ Len(events) \in Nat  BY <1>3
        <5>2. sub[s].seq \in Nat  BY <1>0, SubFields, EventsType
        <5>3. sub[s].seq + i - 1 >= sub[s].seq + Len(events)  BY <3>3, <3>4
        <5> QED  BY ONLY <5>1, <5>2, <5>3
      <4> QED  BY <1>5, <4>1
    <3>6. \A i \in 1 .. Len(n.queue) : n.queue[i] # Error
      <4>1. \A i \in 1 .. Len(n.queue) : i + 1 \in 1 .. Len(q) /\ n.queue[i] = q[i + 1]
        BY <1>1, <1>4
      <4> QED  BY <3>2, <4>1
    <3>7. n.seq > 0
      <4>1. n.seq = sub[s].seq + Len(next) /\ sub[s].seq \in Nat
        BY <1>0, <1>4, SubFields, EventsType
      <4> HIDE DEF n
      <4> QED  BY <1>3, <3>2, <4>1
    <3>8. verified => Follows(sub[s].pos)'
      BY <1>4, <3>2 DEF Follows, Known
    <3>9. \A k \in DOMAIN blocks : Known(k) => \A i \in DOMAIN EventsAt(k) :
             EventsAt(k)[i] >= n.seq <=>
                k >= n.pos \/ \E j \in 1 .. Len(n.queue) : n.queue[j].height = k
      BY <1>4, <3>3, <3>4
    <3>10. ~link'.set /\ \A t \in Subs : t # s => sub'[t] = NoSub
      BY <1>2, <2>0, <3>2
    <3>11. /\ n.height = StartHeight /\ ~n.ended /\ n.pos >= StartHeight
           /\ n.pc # "sync" /\ n.pc \in {"sync", "receive", "message"}
      BY <1>4, <3>2, <3>5
    <3> QED  BY <2>0, <3>2, <3>6, <3>7, <3>8, <3>9, <3>10, <3>11, UndisturbedIntro
  <2> QED  BY <1>6, <1>7, <2>1, <2>2, <2>3, <2>4 DEF NearInv
<1> QED  BY <1>8, <1>9

\* The loop of ReceiveBlocks takes an item from the queue.
LEMMA ProcessKeeps ==
    ASSUME NearInv, NEW s \in Subs, Process(s) PROVE NearInv'
<1>1. /\ sub[s].pc = "receive" /\ sub[s].queue # <<>>
      /\ UNCHANGED <<blocks, verified, head, link, relay, verifier, sent, faults>>
  BY DEF Process
<1>2. Head(sub[s].queue) = sub[s].queue[1]
  <2>1. sub[s].queue \in Seq(Item)  BY SubFields DEF NearInv
  <2> QED  BY <1>1, <2>1, QueueTail
<1>3. CASE /\ Head(sub[s].queue) = Error
           /\ sub' = [sub EXCEPT ![s] = [sub[s] EXCEPT !.queue = Tail(@), !.pc = "error"]]
  BY <1>1, <1>3, ProcessErrorKeeps
<1>4. CASE /\ Head(sub[s].queue) # Error
           /\ \E events \in {EventsAt(Head(sub[s].queue).height)} :
              \E next \in {NextEvents(events, sub[s].seq)} :
                 ProcessItem(s, Head(sub[s].queue), events, next)
  <2>1. PICK item : item = sub[s].queue[1]  OBVIOUS
  <2>2. PICK events : events = EventsAt(item.height)  OBVIOUS
  <2>3. PICK next : next = NextEvents(events, sub[s].seq)  OBVIOUS
  <2>4. item # Error /\ ProcessItem(s, item, events, next)
    BY <1>2, <1>4, <2>1, <2>2, <2>3
  <2> QED  BY <1>1, <2>1, <2>2, <2>3, <2>4, ProcessItemKeeps
<1> QED  BY <1>3, <1>4 DEF Process

-----------------------------------------------------------------------------
(* The invariant and what follows from it.                                 *)

\* Every step keeps the invariant.
LEMMA NearInvNext == NearInv /\ [Next]_vars => NearInv'
<1> SUFFICES ASSUME NearInv, [Next]_vars PROVE NearInv'  OBVIOUS
<1>1. CASE Subscribe  BY <1>1, SubscribeInv
<1>2. CASE Relay  BY <1>2, RelayKeeps
<1>3. CASE NewBlock  BY <1>3, NewBlockKeeps
<1>4. ASSUME NEW s \in Subs, SubStep(s) PROVE NearInv'
  <2>1. CASE SyncHeader(s)  BY <2>1, SyncHeaderKeeps
  <2>2. CASE Scan(s)  BY <2>2, ScanKeeps
  <2>3. CASE Process(s)  BY <2>3, ProcessKeeps
  <2>4. CASE SendMessage(s)  BY <2>4, SendMessageKeeps
  <2>5. CASE SendError(s)  BY <2>5, SendErrorKeeps
  <2> QED  BY <1>4, <2>1, <2>2, <2>3, <2>4, <2>5 DEF SubStep
<1>5. CASE SubscribeFail  BY <1>5, SubscribeFailKeeps
<1>6. ASSUME NEW s \in Subs, SyncFail(s) \/ ScanFail(s) PROVE NearInv'
  BY <1>6, SyncFailKeeps, ScanFailKeeps
<1>7. CASE SetLinkRxHeight  BY <1>7, SetLinkRxHeightKeeps
<1>8. CASE Crash  BY <1>8, CrashKeeps
<1>9. CASE UNCHANGED vars
  <2>1. UNCHANGED <<blocks, verified, head, link, relay, verifier, sub, sent, faults>>
    BY <1>9 DEF vars
  <2>2. TypeOK'  BY <2>1, TypeIntro DEF NearInv, TypeOK
  <2>3. VerifierSound'  BY <2>1 DEF NearInv, VerifierSound, EpochSound
  <2>4. EventsContinue' /\ HeightsContinue' /\ WaitingApproved'  BY <2>1, LiveFrame
  <2>5. Undisturbed'  BY <2>1 DEF NearInv, Undisturbed, Known, Follows, EventsAt
  <2> QED  BY <2>2, <2>3, <2>4, <2>5 DEF NearInv
<1> QED  BY <1>1, <1>2, <1>3, <1>4, <1>5, <1>6, <1>7, <1>8, <1>9 DEF Next, Step

\* The pipeline of NEAR, from the verifier to the relay, stays as NearInv says,
\* for every honest chain, every number of subscriptions that nothing ends,
\* and every number of failures and restarts.
THEOREM NearInvariant == Spec => []NearInv
BY NearInvInit, NearInvNext, PTL DEF Spec

\* Heights, sequence numbers and queues stay within the chain and the bounds
\* of the pipeline of ReceiveBlocks.
THEOREM NearTypeCorrect == Spec => []TypeOK
<1>1. NearInv => TypeOK  BY DEF NearInv
<1> QED  BY <1>1, NearInvariant, PTL

\* Only events of blocks that more than two thirds of the stake of their epoch
\* approved are sent to a relay, also by subscriptions whose verifier was
\* replaced or moved by another one.
THEOREM OnlyApprovedSent == Spec => []SentApproved
<1>1. NearInv => SentApproved  BY DEF NearInv, WaitingApproved
<1> QED  BY <1>1, NearInvariant, PTL

\* Unless the owner sets the height of the link, filterSrcMsg never finds a
\* missing event.
THEOREM NoneMissing == Spec => []NothingMissing
<1>1. NearInv => NothingMissing  BY NoneMissingNow DEF NothingMissing
<1> QED  BY <1>1, NearInvariant, PTL

\* On an honest chain no request that is answered well makes a subscription
\* fail: not at a height without a block, not at the end of an epoch.
THEOREM NoAlarm == Spec => []NoFalseAlarm
<1>1. NearInv => NoFalseAlarm
  <2> SUFFICES ASSUME NearInv, faults = 0, Known(StartHeight - 1), NEW s \in Subs
               PROVE  sub[s].pc \notin {"syncError", "seqError", "error"} /\ ~sub[s].ended
    BY DEF NoFalseAlarm
  <2>1. CASE relay.pc = "run" /\ relay.live = s  BY <2>1, UndisturbedElim
  <2>2. CASE ~(relay.pc = "run" /\ relay.live = s)
    <3>1. relay.pc = "start" \/ relay.pc = "run"  BY DEF NearInv, TypeOK, RelayState
    <3>2. relay.pc = "start" => relay.live = 0  BY DEF NearInv, Undisturbed
    <3>3. s # 0  BY DEF Subs
    <3>4. sub[s] = NoSub  BY <2>2, <3>1, <3>2, <3>3 DEF NearInv, Undisturbed
    <3> QED  BY <3>4 DEF NoSub
  <2> QED  BY <2>1, <2>2
<1> QED  BY <1>1, NearInvariant, PTL
=============================================================================
