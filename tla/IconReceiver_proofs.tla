------------------------ MODULE IconReceiver_proofs ------------------------
(***************************************************************************)
(* Proofs about IconReceiver: the inductive invariant IconInv, for any     *)
(* number of monitor goroutines, capacity of the channels, validators,     *)
(* events and heights, and from it that next does not run ahead of the     *)
(* responses, what it may pass over, and what the verifier holds.          *)
(***************************************************************************)
EXTENDS IconReceiver, FiniteSetTheorems, SequenceTheorems,
        WellFoundedInduction, TLAPS

\* A set of heights that is not empty has a least one.
LEMMA MinIsLeast ==
    ASSUME NEW S \in SUBSET Nat, S # {}
    PROVE  Min(S) \in S /\ \A y \in S : Min(S) <= y
<1>1. PICK x \in S : \A y \in S : <<y, x>> \notin OpToRel(<, Nat)
  BY NatLessThanWellFounded, WFMin
<1>2. \A y \in S : ~(y < x)  BY <1>1 DEF OpToRel
<1>3. \E z \in S : \A y \in S : z <= y  BY <1>2
<1> QED  BY <1>3 DEF Min

\* The validators of a height are among all validators.
LEMMA ValidatorsType ==
    \A h \in 1 .. MaxHeight + 1 : ValidatorsAt[h] \in SUBSET AllValidators
BY DEF AllValidators

\* Sequence numbers of events are numbers up to the last height.
LEMMA SeqOfType == \A h \in Int : SeqOf(h) \in 0 .. MaxHeight
<1> SUFFICES ASSUME NEW h \in Int PROVE SeqOf(h) \in 0 .. MaxHeight  OBVIOUS
<1> DEFINE E == {k \in EventHeights : k <= h}
<1>1. IsFiniteSet(1 .. MaxHeight) /\ Cardinality(1 .. MaxHeight) = MaxHeight
  <2>1. MaxHeight \in Nat  BY IconAssumption
  <2>2. 1 > MaxHeight <=> MaxHeight = 0  BY <2>1
  <2>3. MaxHeight - 1 + 1 = MaxHeight  BY <2>1
  <2> QED  BY <2>1, <2>2, <2>3, FS_Interval
<1>2. E \subseteq 1 .. MaxHeight  BY IconAssumption DEF Heights
<1>3. IsFiniteSet(E) /\ Cardinality(E) <= MaxHeight  BY <1>1, <1>2, FS_Subset
<1>4. Cardinality(E) \in Nat  BY <1>3, FS_CardinalityType
<1>5. Cardinality(E) \in 0 .. MaxHeight  BY <1>3, <1>4, IconAssumption
<1> QED  BY <1>5 DEF SeqOf

\* The start height is a height, and the verifier starts below it.
LEMMA StartType ==
    /\ StartHeight \in Heights /\ FirstHead \in Heights
    /\ VerifierHeight \in Heights /\ VerifierHeight <= StartHeight
    /\ MaxHeight \in Nat /\ MaxHeight >= 1 /\ SyncConcurrency \in Nat
    /\ SyncConcurrency >= 1 /\ MaxMonitors \in Nat /\ MaxFaults \in Nat
BY IconAssumption DEF Heights

\* Before the first signal is taken everything is as the invariant says.
LEMMA IconInvInit == Init => IconInv
<1> SUFFICES ASSUME Init PROVE IconInv  OBVIOUS
<1>1. TypeOK
  <2>1. vr \in [next : 0 .. MaxHeight + 1, vals : SUBSET AllValidators]
    <3>1. VerifierHeight \in 1 .. MaxHeight + 1 /\ VerifierHeight \in 0 .. MaxHeight + 1
      BY StartType DEF Heights
    <3> QED  BY <3>1, ValidatorsType, StartType DEF Init, NoVerifier
  <2>2. seq \in 1 .. MaxHeight + 1
    <3>1. StartHeight \in Int /\ StartHeight - 1 \in Int  BY StartType DEF Heights
    <3>2. StartSeq \in 0 .. MaxHeight  BY <3>1, SeqOfType, IconAssumption
    <3> QED  BY <3>2, StartType DEF Init
  <2>3. monitor \in [Monitors -> [st : {"start", "connect", "open", "send",
                                       "sleep", "drain", "takeDrain", "done"},
                                 pos : 0 .. MaxHeight + 1,
                                 canceled : BOOLEAN]]
    BY StartType DEF Init, Idle
  <2>4. <<>> \in Seq(Response) /\ <<>> \in Seq(Heights)
    OBVIOUS
  <2>5. /\ next \in 1 .. MaxHeight + 1 /\ blockReq \in 1 .. MaxHeight + 1
        /\ bn \in 0 .. MaxHeight /\ requests \in 0 .. SyncConcurrency
        /\ faults \in 0 .. MaxFaults
    BY StartType DEF Init, Heights
  <2>6. Len(<<>>) = 0  OBVIOUS
  <2> QED  BY <2>1, <2>2, <2>3, <2>4, <2>5, <2>6, StartType DEF Init, TypeOK
<1>2. WithinChain  BY StartType DEF Init, WithinChain, Heights, Idle
<1>3. ResponsesInOrder  BY DEF Init, ResponsesInOrder
<1>4. VerifierSynced
  BY StartType DEF Init, VerifierSynced, UseVerifier, NoVerifier, NotConnected, Heights
<1>5. GapsSettled
  <2>1. Waiting = {}  BY DEF Init, Waiting
  <2>2. OnlyTakenPassedOver
    BY StartType, IconAssumption DEF Init, OnlyTakenPassedOver, Heights
  <2> QED  BY <2>1, <2>2 DEF Init, GapsSettled
<1> QED  BY <1>1, <1>2, <1>3, <1>4, <1>5 DEF IconInv


-----------------------------------------------------------------------------
(* The steps of the monitors.                                              *)

\* Who empties the channels takes the first element of one of them.
LEMMA TakeEitherTakes ==
    ASSUME TypeOK, TakeEither
    PROVE  /\ btpBlockNotifCh' \in Seq(Heights)
           /\ Len(btpBlockNotifCh') <= Len(btpBlockNotifCh)
           /\ btpBlockRespCh' \in Seq(Response)
           /\ Len(btpBlockRespCh') <= Len(btpBlockRespCh)
           /\ \/ btpBlockRespCh' = btpBlockRespCh
              \/ /\ btpBlockRespCh # <<>>
                 /\ btpBlockRespCh' = Tail(btpBlockRespCh)
<1>1. btpBlockNotifCh \in Seq(Heights) /\ btpBlockRespCh \in Seq(Response)
  BY DEF TypeOK
<1>2. CASE btpBlockRespCh # <<>> /\ btpBlockRespCh' = Tail(btpBlockRespCh)
           /\ UNCHANGED btpBlockNotifCh
  BY <1>1, <1>2
<1>3. CASE btpBlockNotifCh # <<>> /\ btpBlockNotifCh' = Tail(btpBlockNotifCh)
           /\ UNCHANGED btpBlockRespCh
  BY <1>1, <1>3
<1> QED  BY <1>2, <1>3 DEF TakeEither

\* Taking the first response keeps those left in order and ahead.
LEMMA TakeKeepsOrder ==
    ASSUME TypeOK, ResponsesInOrder,
           UNCHANGED <<next, pc, cur, responses>>,
           \/ btpBlockRespCh' = btpBlockRespCh
           \/ btpBlockRespCh # <<>> /\ btpBlockRespCh' = Tail(btpBlockRespCh)
    PROVE  ResponsesInOrder'
<1>1. CASE btpBlockRespCh' = btpBlockRespCh  BY <1>1 DEF ResponsesInOrder
<1>2. CASE btpBlockRespCh # <<>> /\ btpBlockRespCh' = Tail(btpBlockRespCh)
  <2>1. btpBlockRespCh \in Seq(Response)  BY DEF TypeOK
  <2>2. /\ Len(btpBlockRespCh') = Len(btpBlockRespCh) - 1
        /\ \A i \in 1 .. Len(btpBlockRespCh') :
              btpBlockRespCh'[i] = btpBlockRespCh[i + 1]
    BY <1>2, <2>1
  <2>3. Len(btpBlockRespCh) \in Nat  BY <2>1
  <2>4. \A i \in 1 .. Len(btpBlockRespCh') : i + 1 \in 1 .. Len(btpBlockRespCh)
    BY <2>2, <2>3
  <2>5. \A i, j \in 1 .. Len(btpBlockRespCh') : i < j => i + 1 < j + 1
    BY <2>2, <2>3
  <2> HIDE <1>2
  <2> QED  BY <2>2, <2>4, <2>5, <1>2 DEF ResponsesInOrder
<1> QED  BY <1>1, <1>2

\* The type of a monitor goroutine.
MonitorType == [st : {"start", "connect", "open", "send", "sleep", "drain",
                      "takeDrain", "done"},
                pos : 0 .. MaxHeight + 1, canceled : BOOLEAN]

\* A monitor keeps all variables in their types.
LEMMA MonitorKeepsType ==
    ASSUME IconInv, NEW m \in Monitors, MonitorStep(m) \/ MonitorFail(m)
    PROVE  TypeOK' /\ UNCHANGED mainVars /\ head' = head
<1> USE DEF IconInv
<1>1. monitor \in [Monitors -> MonitorType]  BY DEF TypeOK, MonitorType
<1>2. /\ Len(btpBlockNotifCh) \in Nat /\ Len(btpBlockRespCh) \in Nat
      /\ SyncConcurrency \in Nat
  BY StartType DEF TypeOK
<1>3. CASE MonitorStart(m)
  <2>1. monitor' \in [Monitors -> MonitorType]  BY <1>1, <1>3 DEF MonitorStart, MonitorType
  <2> QED  BY <1>3, <2>1 DEF MonitorStart, TypeOK, MonitorType, mainVars, channels
<1>4. CASE MonitorConnect(m)
  <2>1. blockReq \in 0 .. MaxHeight + 1  BY DEF TypeOK
  <2>2. monitor' \in [Monitors -> MonitorType]
    BY <1>1, <1>4, <2>1 DEF MonitorConnect, MonitorType
  <2> QED  BY <1>4, <2>2 DEF MonitorConnect, TypeOK, MonitorType, mainVars, channels
<1>5. CASE MonitorCanceled(m)
  <2>1. Idle \in MonitorType  BY StartType DEF Idle, MonitorType
  <2>2. monitor' \in [Monitors -> MonitorType]  BY <1>1, <1>5, <2>1 DEF MonitorCanceled
  <2> QED  BY <1>5, <2>2 DEF MonitorCanceled, TypeOK, MonitorType, mainVars, channels
<1>6. CASE MonitorRead(m)
  <2>1. monitor' \in [Monitors -> MonitorType]  BY <1>1, <1>6 DEF MonitorRead, MonitorType
  <2> QED  BY <1>6, <2>1 DEF MonitorRead, TypeOK, MonitorType, mainVars, channels
<1>7. CASE MonitorSend(m)
  <2>1. monitor[m].pos \in Heights /\ monitor[m].pos + 1 \in 0 .. MaxHeight + 1
    BY <1>1, <1>7, StartType DEF MonitorSend, WithinChain, MonitorType, Heights
  <2>2. monitor' \in [Monitors -> MonitorType]
    BY <1>1, <1>7, <2>1 DEF MonitorSend, MonitorType
  <2>3. /\ btpBlockNotifCh' \in Seq(Heights)
        /\ Len(btpBlockNotifCh') = Len(btpBlockNotifCh) + 1
    BY <1>7, <2>1 DEF MonitorSend, TypeOK
  <2>4. Len(btpBlockNotifCh') <= SyncConcurrency
    BY <1>2, <1>7, <2>3 DEF MonitorSend
  <2> QED  BY <1>7, <2>2, <2>3, <2>4 DEF MonitorSend, TypeOK, MonitorType, mainVars
<1>8. CASE MonitorReconnect(m)
  <2>1. monitor' \in [Monitors -> MonitorType]
    BY <1>1, <1>8 DEF MonitorReconnect, MonitorType
  <2> QED  BY <1>8, <2>1 DEF MonitorReconnect, TypeOK, MonitorType, mainVars, channels
<1>9. CASE MonitorDrain(m)
  <2>1. Idle \in MonitorType  BY StartType DEF Idle, MonitorType
  <2>2. monitor' \in [Monitors -> MonitorType]
    BY <1>1, <1>9, <2>1 DEF MonitorDrain, MonitorType
  <2> QED  BY <1>9, <2>2 DEF MonitorDrain, TypeOK, MonitorType, mainVars, channels
<1>10. CASE MonitorTake(m)
  <2>1. monitor' \in [Monitors -> MonitorType]
    BY <1>1, <1>10 DEF MonitorTake, MonitorType
  <2>2. /\ btpBlockNotifCh' \in Seq(Heights)
        /\ Len(btpBlockNotifCh') <= SyncConcurrency
        /\ btpBlockRespCh' \in Seq(Response)
        /\ Len(btpBlockRespCh') <= SyncConcurrency
    <3>1. TakeEither  BY <1>10 DEF MonitorTake
    <3>2. /\ btpBlockNotifCh' \in Seq(Heights) /\ btpBlockRespCh' \in Seq(Response)
          /\ Len(btpBlockNotifCh') <= Len(btpBlockNotifCh)
          /\ Len(btpBlockRespCh') <= Len(btpBlockRespCh)
      BY <3>1, TakeEitherTakes
    <3>3. Len(btpBlockNotifCh') \in Nat /\ Len(btpBlockRespCh') \in Nat  BY <3>2
    <3>4. Len(btpBlockNotifCh) <= SyncConcurrency /\ Len(btpBlockRespCh) <= SyncConcurrency
      BY DEF TypeOK
    <3> QED  BY <1>2, <3>2, <3>3, <3>4
  <2>3. taken' \subseteq Heights
    <3>1. btpBlockRespCh' # btpBlockRespCh => btpBlockRespCh # <<>>
      BY <1>10 DEF MonitorTake, TakeEither
    <3>2. btpBlockRespCh # <<>> => Head(btpBlockRespCh).h \in Heights
      <4>1. btpBlockRespCh # <<>> => Head(btpBlockRespCh) \in Response  BY DEF TypeOK
      <4> QED  BY <4>1 DEF Response
    <3> QED  BY <1>10, <3>1, <3>2 DEF MonitorTake, TypeOK
  <2> QED  BY <1>10, <2>1, <2>2, <2>3 DEF MonitorTake, TypeOK, MonitorType, mainVars
<1>11. CASE MonitorFail(m)
  <2>1. monitor' \in [Monitors -> MonitorType]
    BY <1>1, <1>11 DEF MonitorFail, MonitorType
  <2>2. faults' \in 0 .. MaxFaults
    BY SMTT(30), <1>11, StartType DEF MonitorFail, MaybeFault, TypeOK
  <2> QED  BY <1>11, <2>1, <2>2 DEF MonitorFail, TypeOK, MonitorType, mainVars, channels
<1> QED
  BY <1>3, <1>4, <1>5, <1>6, <1>7, <1>8, <1>9, <1>10, <1>11 DEF MonitorStep

\* What is settled stays so while events are given and responses taken.
LEMMA SettledStays ==
    ASSUME TypeOK, TypeOK', seq' >= seq, taken \subseteq taken',
           NEW h \in EventHeights, Settled(h)
    PROVE  Settled(h)'
<1>1. SeqOf(h) \in Nat
  <2>1. h \in Int  BY IconAssumption DEF Heights
  <2> QED  BY <2>1, SeqOfType
<1>2. seq \in Nat /\ seq' \in Nat  BY DEF TypeOK
<1> QED  BY <1>1, <1>2 DEF Settled, SeqOf

\* What waits is what is in the channel while nothing is handled or forwarded.
LEMMA WaitingIsChannel ==
    ASSUME pc \notin {"handle", "forward"}
    PROVE  Waiting = {btpBlockRespCh[i].h : i \in 1 .. Len(btpBlockRespCh)}
BY DEF Waiting

\* Nothing of it changes when the channel does not.
LEMMA WaitingSame ==
    ASSUME pc \notin {"handle", "forward"}, pc' \notin {"handle", "forward"},
           btpBlockRespCh' = btpBlockRespCh
    PROVE  Waiting' = Waiting
BY DEF Waiting

\* The gaps stay settled when what waits stays, or is thrown away.
LEMMA GapsKeep ==
    ASSUME IconInv, UNCHANGED <<seq, taken, next>>,
           pc' \notin {"moreResp", "takeResp"},
           \/ pc' \in {"drain", "takeDrain", "error"}
           \/ Waiting' = {}
           \/ Waiting' = Waiting /\ pc \notin {"drain", "takeDrain", "error"}
    PROVE  GapsSettled'
<1>1. \A h : Settled(h)' <=> Settled(h)  BY DEF Settled, SeqOf
<1>2. OnlyTakenPassedOver'  BY <1>1 DEF IconInv, GapsSettled, OnlyTakenPassedOver
<1> QED  BY <1>1, <1>2 DEF IconInv, GapsSettled

\* A channel without its first element holds the rest.
LEMMA ChannelTail ==
    ASSUME NEW s \in Seq(Response), s # <<>>
    PROVE  {s[i].h : i \in 1 .. Len(s)}
             = {Head(s).h} \cup {Tail(s)[i].h : i \in 1 .. Len(Tail(s))}
<1> DEFINE t == Tail(s)
<1>1. /\ Len(t) = Len(s) - 1 /\ Len(s) \in Nat /\ Len(s) >= 1 /\ Head(s) = s[1]
      /\ \A i \in 1 .. Len(t) : t[i] = s[i + 1]
  OBVIOUS
<1> HIDE DEF t
<1>2. \A i \in 1 .. Len(s) : i = 1 \/ (i - 1 \in 1 .. Len(t) /\ t[i - 1] = s[i])
  BY <1>1
<1>3. \A i \in 1 .. Len(t) : i + 1 \in 1 .. Len(s) /\ t[i] = s[i + 1]  BY <1>1
<1>4. 1 \in 1 .. Len(s)  BY <1>1
<1>5. {s[i].h : i \in 1 .. Len(s)} \subseteq {s[1].h} \cup {t[i].h : i \in 1 .. Len(t)}
  BY <1>2
<1>6. {s[1].h} \cup {t[i].h : i \in 1 .. Len(t)} \subseteq {s[i].h : i \in 1 .. Len(s)}
  BY <1>3, <1>4
<1> QED  BY <1>1, <1>5, <1>6 DEF t

\* A monitor settles the block whose response it takes.
LEMMA MonitorKeepsGaps ==
    ASSUME IconInv, NEW m \in Monitors, MonitorStep(m) \/ MonitorFail(m)
    PROVE  GapsSettled'
<1>1. TypeOK' /\ UNCHANGED mainVars  BY MonitorKeepsType
<1>2. UNCHANGED <<pc, next, seq, responses, cur>>  BY <1>1 DEF mainVars
<1>3. CASE btpBlockRespCh' = btpBlockRespCh
  <2>1. taken' = taken
    BY <1>3 DEF MonitorStep, MonitorStart, MonitorConnect, MonitorCanceled,
      MonitorRead, MonitorSend, MonitorReconnect, MonitorDrain, MonitorTake,
      MonitorFail
  <2>2. Waiting' = Waiting  BY <1>2, <1>3 DEF Waiting
  <2>3. \A h : Settled(h)' <=> Settled(h)  BY <1>2, <2>1 DEF Settled, SeqOf
  <2>4. OnlyTakenPassedOver'
    BY <1>2, <2>3 DEF IconInv, GapsSettled, OnlyTakenPassedOver
  <2> QED  BY <1>2, <2>2, <2>3, <2>4 DEF IconInv, GapsSettled
<1>4. CASE btpBlockRespCh' # btpBlockRespCh
  <2>0. PICK t : t = Head(btpBlockRespCh).h  OBVIOUS
  <2>1. MonitorTake(m)
    BY <1>4 DEF MonitorStep, MonitorStart, MonitorConnect, MonitorCanceled,
      MonitorRead, MonitorSend, MonitorReconnect, MonitorDrain, MonitorFail, channels
  <2>2. /\ btpBlockRespCh # <<>> /\ btpBlockRespCh' = Tail(btpBlockRespCh)
        /\ taken' = taken \cup {t}
    BY <1>4, <2>0, <2>1 DEF MonitorTake, TakeEither
  <2>3. btpBlockRespCh \in Seq(Response)  BY DEF IconInv, TypeOK
  <2>4. {btpBlockRespCh[i].h : i \in 1 .. Len(btpBlockRespCh)}
          = {t} \cup {btpBlockRespCh'[i].h : i \in 1 .. Len(btpBlockRespCh')}
    BY <2>0, <2>2, <2>3, ChannelTail
  <2>5. Waiting = Waiting' \cup {t}  BY <1>2, <2>4 DEF Waiting
  <2>6. \A h \in EventHeights : Settled(h) => Settled(h)'
    <3>1. TypeOK /\ seq' >= seq /\ taken \subseteq taken'
      BY <1>2, <2>2 DEF IconInv, TypeOK
    <3> QED  BY <1>1, <3>1, SettledStays
  <2>7. Settled(t)'  BY <2>2 DEF Settled
  <2>8. OnlyTakenPassedOver'
    BY <1>2, <2>6 DEF IconInv, GapsSettled, OnlyTakenPassedOver
  <2>9. ASSUME NEW w \in Waiting', NEW h \in EventHeights, next <= h, h < w,
               pc \notin {"drain", "takeDrain", "error"}
        PROVE  h \in Waiting' \/ Settled(h)'
    <3>1. h \in Waiting \/ Settled(h)  BY <2>5, <2>9 DEF IconInv, GapsSettled
    <3>2. h \in Waiting => h \in Waiting' \/ h = t  BY <2>5
    <3>3. h = t => Settled(h)'  BY <2>7
    <3>4. Settled(h) => Settled(h)'  BY <2>6
    <3> QED  BY <3>1, <3>2, <3>3, <3>4
  <2>10. ASSUME NEW h \in EventHeights, h = next, pc \in {"moreResp", "takeResp"}
         PROVE  Settled(h)'
    <3>1. Settled(h)  BY <2>10 DEF IconInv, GapsSettled
    <3> QED  BY <2>6, <3>1
  <2>11. pc' \in {"moreResp", "takeResp"} /\ next' \in EventHeights => Settled(next)'
    <3> SUFFICES ASSUME NEW h \in EventHeights, h = next',
                        pc' \in {"moreResp", "takeResp"}
                 PROVE  Settled(h)'
      BY DEF Settled, SeqOf
    <3> QED  BY <1>2, <2>10
  <2> QED  BY <1>2, <2>8, <2>9, <2>11 DEF GapsSettled
<1> QED  BY <1>3, <1>4

\* A step of a monitor keeps the invariant.
LEMMA MonitorKeepsInv ==
    ASSUME IconInv, NEW m \in Monitors, MonitorStep(m) \/ MonitorFail(m)
    PROVE  IconInv'
<1>1. TypeOK' /\ UNCHANGED mainVars /\ head' = head  BY MonitorKeepsType
<1>2. UNCHANGED <<pc, next, vr, seq, bn, requests, responses, cur>>
  BY <1>1 DEF mainVars
<1>3. monitor \in [Monitors -> MonitorType]  BY DEF IconInv, TypeOK, MonitorType
<1> HIDE <1>3
<1>4. WithinChain'
  <2>1. \A k \in Monitors :
           /\ monitor'[k].st \in {"open", "send"} => monitor'[k].pos >= 1
           /\ monitor'[k].st = "send" => monitor'[k].pos <= MaxHeight
    <3> SUFFICES ASSUME NEW k \in Monitors
                 PROVE  /\ monitor'[k].st \in {"open", "send"} => monitor'[k].pos >= 1
                        /\ monitor'[k].st = "send" => monitor'[k].pos <= MaxHeight
      OBVIOUS
    <3>1. /\ monitor[k].st \in {"open", "send"} => monitor[k].pos >= 1
          /\ monitor[k].st = "send" => monitor[k].pos <= MaxHeight
      BY DEF IconInv, WithinChain
    <3>2. CASE k # m
      <4>1. monitor'[k] = monitor[k]
        BY <1>3, <3>2 DEF MonitorStep, MonitorStart, MonitorConnect, MonitorCanceled,
          MonitorRead, MonitorSend, MonitorReconnect, MonitorDrain, MonitorTake,
          MonitorFail
      <4> QED  BY <3>1, <4>1
    <3>3. CASE k = m
      <4>1. monitor[m] \in MonitorType  BY <1>3
      <4>2. CASE MonitorConnect(m)
        <5>1. monitor'[m].pos = blockReq /\ monitor'[m].st = "open"
          BY <1>3, <4>1, <4>2 DEF MonitorConnect, MonitorType
        <5> QED  BY <3>3, <5>1 DEF IconInv, TypeOK
      <4>3. CASE MonitorRead(m)
        <5>1. monitor'[m].pos = monitor[m].pos /\ monitor[m].st = "open"
          BY <1>3, <4>1, <4>3 DEF MonitorRead, MonitorType
        <5>2. monitor[m].pos <= MaxHeight /\ monitor[m].pos >= 1
          <6>1. monitor[m].pos <= head  BY <4>3 DEF MonitorRead
          <6>2. head \in 1 .. MaxHeight  BY DEF IconInv, TypeOK, Heights
          <6>3. monitor[m].pos \in Nat /\ MaxHeight \in Nat
            BY <4>1, StartType DEF MonitorType
          <6> QED  BY <3>1, <3>3, <5>1, <6>1, <6>2, <6>3
        <5> QED  BY <3>3, <5>1, <5>2
      <4>4. CASE MonitorSend(m)
        <5>1. monitor'[m].pos = monitor[m].pos + 1 /\ monitor'[m].st = "open"
          BY <1>3, <4>1, <4>4 DEF MonitorSend, MonitorType
        <5> QED  BY <3>3, <4>1, <5>1 DEF MonitorType
      <4>5. CASE MonitorStart(m) \/ MonitorCanceled(m) \/ MonitorReconnect(m)
                 \/ MonitorDrain(m) \/ MonitorTake(m) \/ MonitorFail(m)
        <5>1. monitor'[m].st \notin {"open", "send"}
          <6>1. CASE MonitorStart(m) \/ MonitorReconnect(m) \/ MonitorTake(m)
            BY <1>3, <4>1, <6>1 DEF MonitorStart, MonitorReconnect, MonitorTake, MonitorType
          <6>2. CASE MonitorCanceled(m)  BY <1>3, <6>2 DEF MonitorCanceled, Idle
          <6>3. CASE MonitorDrain(m)
            BY <1>3, <4>1, <6>3 DEF MonitorDrain, MonitorType, Idle
          <6>4. CASE MonitorFail(m)  BY <1>3, <4>1, <6>4 DEF MonitorFail, MonitorType
          <6> QED  BY <4>5, <6>1, <6>2, <6>3, <6>4
        <5> QED  BY <3>3, <5>1
      <4> QED  BY <4>2, <4>3, <4>4, <4>5 DEF MonitorStep
    <3> QED  BY <3>2, <3>3
  <2> QED  BY <1>2, <2>1 DEF IconInv, WithinChain
<1>5. \/ btpBlockRespCh' = btpBlockRespCh
      \/ btpBlockRespCh # <<>> /\ btpBlockRespCh' = Tail(btpBlockRespCh)
  <2>1. CASE MonitorTake(m)
    <3>1. TakeEither  BY <2>1 DEF MonitorTake
    <3> QED  BY <3>1, TakeEitherTakes DEF IconInv
  <2> QED
    BY <2>1 DEF MonitorStep, MonitorStart, MonitorConnect, MonitorCanceled,
      MonitorRead, MonitorSend, MonitorReconnect, MonitorDrain, MonitorFail, channels
<1>6. ResponsesInOrder'  BY <1>2, <1>5, TakeKeepsOrder DEF IconInv
<1>7. VerifierSynced'
  <2>1. ~NotConnected
    <3>1. monitor[m].st # "done"
      BY DEF MonitorStep, MonitorStart, MonitorConnect, MonitorCanceled, MonitorRead,
        MonitorSend, MonitorReconnect, MonitorDrain, MonitorTake, MonitorFail
    <3> QED  BY <3>1 DEF NotConnected, Idle
  <2> QED  BY <1>2, <2>1 DEF IconInv, VerifierSynced, UseVerifier
<1>8. GapsSettled'  BY MonitorKeepsGaps
<1> QED  BY <1>1, <1>4, <1>6, <1>7, <1>8 DEF IconInv

-----------------------------------------------------------------------------
(* The steps of the main loop.                                             *)

\* The height of a response is a number.
LEMMA ResponseHeight == \A r \in Response : r.h \in Nat /\ r.h \in Heights
BY DEF Response, Heights

\* What is left of the responses after the first is in order, above the first,
\* and as far ahead of next as it was.
LEMMA RestInOrder ==
    ASSUME IconInv, btpBlockRespCh # <<>>
    PROVE  LET s == Tail(btpBlockRespCh) IN
           /\ \A i \in 1 .. Len(s) : /\ s[i].h >= next
                                     /\ Head(btpBlockRespCh).h < s[i].h
                                     /\ pc = "takeResp" => next < s[i].h
           /\ \A i, j \in 1 .. Len(s) : i < j => s[i].h < s[j].h
           /\ Head(btpBlockRespCh).h >= next
           /\ pc = "takeResp" => Head(btpBlockRespCh).h > next
<1> DEFINE s == Tail(btpBlockRespCh)
<1>1. btpBlockRespCh \in Seq(Response)  BY DEF IconInv, TypeOK
<1>2. /\ Len(s) = Len(btpBlockRespCh) - 1 /\ Len(btpBlockRespCh) \in Nat
      /\ Len(btpBlockRespCh) >= 1
      /\ \A i \in 1 .. Len(s) : s[i] = btpBlockRespCh[i + 1]
      /\ Head(btpBlockRespCh) = btpBlockRespCh[1]
  BY <1>1
<1> HIDE DEF s
<1>3. \A i \in 1 .. Len(s) : i + 1 \in 1 .. Len(btpBlockRespCh) /\ 1 < i + 1
  BY <1>2
<1>4. 1 \in 1 .. Len(btpBlockRespCh)  BY <1>2
<1>5. \A i, j \in 1 .. Len(s) : i < j => i + 1 < j + 1  BY <1>2
<1>6. /\ \A i \in 1 .. Len(btpBlockRespCh) :
            /\ btpBlockRespCh[i].h >= next
            /\ pc = "takeResp" => next < btpBlockRespCh[i].h
      /\ \A i, j \in 1 .. Len(btpBlockRespCh) :
            i < j => btpBlockRespCh[i].h < btpBlockRespCh[j].h
  BY DEF IconInv, ResponsesInOrder
<1>7. next \in Nat /\ btpBlockRespCh[1].h \in Nat
  <2>1. btpBlockRespCh[1] \in Response  BY <1>1, <1>4
  <2> QED  BY <2>1, ResponseHeight DEF IconInv, TypeOK
<1>8. /\ \A i \in 1 .. Len(s) : /\ s[i].h >= next
                                /\ Head(btpBlockRespCh).h < s[i].h
                                /\ pc = "takeResp" => next < s[i].h
      /\ \A i, j \in 1 .. Len(s) : i < j => s[i].h < s[j].h
  BY <1>2, <1>3, <1>4, <1>5, <1>6
<1>9. /\ Head(btpBlockRespCh).h >= next
      /\ pc = "takeResp" => Head(btpBlockRespCh).h > next
  BY <1>2, <1>4, <1>6, <1>7
<1> QED  BY <1>8, <1>9 DEF s

\* The main loop looks whether the channels are empty.
LEMMA MainDrainKeeps == IconInv /\ MainDrain => IconInv'
<1> SUFFICES ASSUME IconInv, MainDrain PROVE IconInv'  OBVIOUS
<1> USE DEF IconInv
<1>1. TypeOK'  BY DEF MainDrain, TypeOK, channels
<1>2. WithinChain'
  <2>1. pc' \in {"select", "clear", "takeDrain"}  BY DEF MainDrain, TypeOK
  <2> QED  BY <2>1 DEF MainDrain, WithinChain
<1>3. ResponsesInOrder'
  <2>1. pc' \in {"select", "clear", "takeDrain"}  BY DEF MainDrain, TypeOK
  <2> QED  BY <2>1 DEF MainDrain, ResponsesInOrder, channels
<1>4. VerifierSynced'
  <2>1. pc' \in {"select", "clear", "takeDrain"}  BY DEF MainDrain, TypeOK
  <2>2. ~NotConnected  BY DEF MainDrain, NotConnected
  <2> QED  BY <2>1, <2>2 DEF MainDrain, VerifierSynced, UseVerifier
<1>5. GapsSettled'
  <2>1. /\ pc' \in {"select", "clear", "takeDrain"}
        /\ pc' # "takeDrain" => btpBlockRespCh' = <<>>
        /\ UNCHANGED <<seq, taken, next>>
    BY DEF MainDrain, TypeOK, channels
  <2>2. pc' # "takeDrain" => Waiting' = {}  BY <2>1 DEF Waiting
  <2> QED  BY <2>1, <2>2, GapsKeep
<1> QED  BY <1>1, <1>2, <1>3, <1>4, <1>5

\* The main loop empties a channel.
LEMMA MainTakeKeeps == IconInv /\ MainTake => IconInv'
<1> SUFFICES ASSUME IconInv, MainTake PROVE IconInv'  OBVIOUS
<1> USE DEF IconInv
<1>1. TypeOK'
  <2>1. TakeEither  BY DEF MainTake
  <2>2. /\ btpBlockNotifCh' \in Seq(Heights) /\ btpBlockRespCh' \in Seq(Response)
        /\ Len(btpBlockNotifCh') <= Len(btpBlockNotifCh)
        /\ Len(btpBlockRespCh') <= Len(btpBlockRespCh)
    BY <2>1, TakeEitherTakes
  <2>3. Len(btpBlockNotifCh') \in Nat /\ Len(btpBlockRespCh') \in Nat  BY <2>2
  <2>4. /\ Len(btpBlockNotifCh) <= SyncConcurrency /\ Len(btpBlockNotifCh) \in Nat
        /\ Len(btpBlockRespCh) <= SyncConcurrency /\ Len(btpBlockRespCh) \in Nat
    BY DEF TypeOK
  <2>5. Len(btpBlockNotifCh') <= SyncConcurrency /\ Len(btpBlockRespCh') <= SyncConcurrency
    BY <2>2, <2>3, <2>4, StartType
  <2> QED  BY <2>2, <2>5 DEF MainTake, TypeOK
<1>2. WithinChain'  BY DEF MainTake, WithinChain
<1>3. ResponsesInOrder'
  <2>1. TakeEither  BY DEF MainTake
  <2>2. \/ btpBlockRespCh' = btpBlockRespCh
        \/ btpBlockRespCh # <<>> /\ btpBlockRespCh' = Tail(btpBlockRespCh)
    BY <2>1, TakeEitherTakes
  <2>3. CASE btpBlockRespCh' = btpBlockRespCh  BY <2>3 DEF MainTake, ResponsesInOrder
  <2>4. CASE btpBlockRespCh # <<>> /\ btpBlockRespCh' = Tail(btpBlockRespCh)
    <3>1. /\ \A i \in 1 .. Len(btpBlockRespCh') : btpBlockRespCh'[i].h >= next
          /\ \A i, j \in 1 .. Len(btpBlockRespCh') :
                i < j => btpBlockRespCh'[i].h < btpBlockRespCh'[j].h
      BY <2>4, RestInOrder
    <3> QED  BY <3>1 DEF MainTake, ResponsesInOrder
  <2> QED  BY <2>2, <2>3, <2>4
<1>4. VerifierSynced'  BY DEF MainTake, VerifierSynced, NotConnected, UseVerifier, channels
<1>5. GapsSettled'
  <2>1. pc' = "drain" /\ UNCHANGED <<seq, taken, next>>  BY DEF MainTake
  <2> QED  BY <2>1, GapsKeep
<1> QED  BY <1>1, <1>2, <1>3, <1>4, <1>5

\* A signal is taken.
LEMMA ReconnectKeeps == IconInv /\ Reconnect => IconInv'
<1> SUFFICES ASSUME IconInv, Reconnect PROVE IconInv'  OBVIOUS
<1> USE DEF IconInv
<1>1. TypeOK'
  <2>1. monitor \in [Monitors -> MonitorType]  BY DEF TypeOK, MonitorType
  <2>2. monitor' \in [Monitors -> MonitorType]
    <3> SUFFICES ASSUME NEW k \in Monitors PROVE monitor'[k] \in MonitorType
      BY DEF Reconnect
    <3>1. \/ monitor'[k] = [st |-> "start", pos |-> 0, canceled |-> FALSE]
          \/ monitor'[k] = [monitor[k] EXCEPT !.canceled = TRUE]
      BY DEF Reconnect
    <3>2. [st |-> "start", pos |-> 0, canceled |-> FALSE] \in MonitorType
      BY StartType DEF MonitorType
    <3>3. [monitor[k] EXCEPT !.canceled = TRUE] \in MonitorType  BY <2>1 DEF MonitorType
    <3> QED  BY <3>1, <3>2, <3>3
  <2> QED  BY <2>2 DEF Reconnect, TypeOK, MonitorType
<1>2. WithinChain'
  <2>1. monitor \in [Monitors -> MonitorType]  BY DEF TypeOK, MonitorType
  <2>2. \A k \in Monitors :
           /\ monitor'[k].st \in {"open", "send"} => monitor'[k].pos >= 1
           /\ monitor'[k].st = "send" => monitor'[k].pos <= MaxHeight
    <3> SUFFICES ASSUME NEW k \in Monitors
                 PROVE  /\ monitor'[k].st \in {"open", "send"} => monitor'[k].pos >= 1
                        /\ monitor'[k].st = "send" => monitor'[k].pos <= MaxHeight
      OBVIOUS
    <3>1. \/ monitor'[k].st = "start"
          \/ monitor'[k].st = monitor[k].st /\ monitor'[k].pos = monitor[k].pos
      BY <2>1 DEF Reconnect, MonitorType
    <3> QED  BY <3>1 DEF WithinChain
  <2> QED  BY <2>2 DEF Reconnect, WithinChain
<1>3. ResponsesInOrder'  BY DEF Reconnect, ResponsesInOrder, channels
<1>4. VerifierSynced'  BY DEF Reconnect, VerifierSynced, NotConnected, UseVerifier, channels
<1>5. GapsSettled'
  <2>1. /\ pc \notin {"handle", "forward", "drain", "takeDrain", "error"}
        /\ pc' \notin {"handle", "forward", "moreResp", "takeResp"}
        /\ UNCHANGED <<seq, taken, next, btpBlockRespCh>>
    BY DEF Reconnect, channels
  <2> QED  BY <2>1, WaitingSame, GapsKeep
<1> QED  BY <1>1, <1>2, <1>3, <1>4, <1>5

\* syncVerifier has nothing to do.
LEMMA SyncDoneKeeps == IconInv /\ SyncDone => IconInv'
<1> SUFFICES ASSUME IconInv, SyncDone PROVE IconInv'  OBVIOUS
<1> USE DEF IconInv
<1>1. TypeOK'  BY DEF SyncDone, TypeOK, channels
<1>2. WithinChain'  BY DEF SyncDone, WithinChain
<1>3. ResponsesInOrder'  BY DEF SyncDone, ResponsesInOrder, channels
<1>4. VerifierSynced'  BY DEF SyncDone, VerifierSynced, NotConnected, UseVerifier, channels
<1>5. GapsSettled'
  <2>1. /\ pc \notin {"handle", "forward", "drain", "takeDrain", "error"}
        /\ pc' \notin {"handle", "forward", "moreResp", "takeResp"}
        /\ UNCHANGED <<seq, taken, next, btpBlockRespCh>>
    BY DEF SyncDone, channels
  <2> QED  BY <2>1, WaitingSame, GapsKeep
<1> QED  BY <1>1, <1>2, <1>3, <1>4, <1>5

\* syncVerifier asks for blocks.
LEMMA SyncRequestKeeps == IconInv /\ SyncRequest => IconInv'
<1> SUFFICES ASSUME IconInv, SyncRequest PROVE IconInv'  OBVIOUS
<1> USE DEF IconInv
<1>1. TypeOK'
  <2>1. /\ responses' \subseteq {h \in vr.next .. vr.next + SyncConcurrency - 1 : h <= head}
        /\ faults' \in 0 .. MaxFaults
    BY StartType DEF SyncRequest, MaybeFault, TypeOK
  <2>2. vr.next \in 1 .. MaxHeight + 1 /\ head \in 1 .. MaxHeight
    BY DEF TypeOK, VerifierSynced, SyncRequest, Heights
  <2>3. responses' \subseteq Heights
    BY <2>1, <2>2, StartType DEF Heights
  <2> QED  BY <2>1, <2>3 DEF SyncRequest, TypeOK, channels
<1>2. WithinChain'  BY DEF SyncRequest, WithinChain
<1>3. ResponsesInOrder'  BY DEF SyncRequest, ResponsesInOrder, channels
<1>4. VerifierSynced'  BY DEF SyncRequest, VerifierSynced, NotConnected, UseVerifier, channels
<1>5. GapsSettled'
  <2>1. /\ pc \notin {"handle", "forward", "drain", "takeDrain", "error"}
        /\ pc' \notin {"handle", "forward", "moreResp", "takeResp"}
        /\ UNCHANGED <<seq, taken, next, btpBlockRespCh>>
    BY DEF SyncRequest, channels
  <2> QED  BY <2>1, WaitingSame, GapsKeep
<1> QED  BY <1>1, <1>2, <1>3, <1>4, <1>5

\* syncVerifier looks at one answer.
LEMMA SyncApplyKeeps == IconInv /\ SyncApply => IconInv'
<1> SUFFICES ASSUME IconInv, SyncApply PROVE IconInv'  OBVIOUS
<1> USE DEF IconInv
<1>1. TypeOK'
  <2>1. CASE responses = {}  BY <2>1 DEF SyncApply, TypeOK, channels
  <2>2. CASE responses # {}
    <3> DEFINE h == Min(responses)
    <3>1. h \in Heights
      <4>1. responses \in SUBSET Nat  BY DEF TypeOK, Heights
      <4>2. h \in responses  BY <2>2, <4>1, MinIsLeast
      <4> QED  BY <4>2 DEF TypeOK
    <3>2. Update(h) \in [next : 0 .. MaxHeight + 1, vals : SUBSET AllValidators]
      BY <3>1, ValidatorsType, StartType DEF Update, Heights
    <3>3. faults' \in 0 .. MaxFaults /\ (vr' = vr \/ vr' = Update(h))
      BY <2>2, StartType DEF SyncApply, MaybeFault, TypeOK
    <3>4. responses' \subseteq Heights /\ pc' \in {"syncApply", "error"}
      BY <2>2 DEF SyncApply, TypeOK
    <3> HIDE DEF h
    <3> QED  BY <3>2, <3>3, <3>4 DEF SyncApply, TypeOK, channels
  <2> QED  BY <2>1, <2>2
<1>2. WithinChain'  BY DEF SyncApply, WithinChain
<1>3. ResponsesInOrder'  BY DEF SyncApply, ResponsesInOrder, channels
<1>4. VerifierSynced'
  <2>1. CASE responses = {}
    BY <2>1 DEF SyncApply, VerifierSynced, NotConnected, UseVerifier, channels, TypeOK
  <2>2. CASE responses # {}
    <3> DEFINE h == Min(responses)
    <3>1. h \in Heights
      <4>1. responses \in SUBSET Nat  BY DEF TypeOK, Heights
      <4>2. h \in responses  BY <2>2, <4>1, MinIsLeast
      <4> QED  BY <4>2 DEF TypeOK
    <3>2. /\ Update(h).next >= 1 /\ Update(h) # NoVerifier
          /\ Update(h).vals = ValidatorsAt[Update(h).next]
      BY <3>1, StartType DEF Update, Heights, NoVerifier
    <3>3. pc' \in {"syncApply", "error"} /\ (vr' = vr \/ vr' = Update(h))
      BY <2>2 DEF SyncApply
    <3>4. UseVerifier  BY DEF SyncApply, VerifierSynced
    <3> HIDE DEF h
    <3> QED  BY <3>2, <3>3, <3>4 DEF VerifierSynced, UseVerifier
  <2> QED  BY <2>1, <2>2
<1>5. GapsSettled'
  <2>1. /\ pc \notin {"handle", "forward", "drain", "takeDrain", "error"}
        /\ pc' \notin {"handle", "forward", "moreResp", "takeResp"}
        /\ UNCHANGED <<seq, taken, next, btpBlockRespCh>>
    BY DEF SyncApply, channels
  <2> QED  BY <2>1, WaitingSame, GapsKeep
<1> QED  BY <1>1, <1>2, <1>3, <1>4, <1>5

\* There is neither a signal nor a response.
LEMMA DefaultKeeps == IconInv /\ Default => IconInv'
<1> SUFFICES ASSUME IconInv, Default PROVE IconInv'  OBVIOUS
<1> USE DEF IconInv
<1>1. TypeOK'  BY DEF Default, TypeOK, channels
<1>2. WithinChain'  BY DEF Default, WithinChain
<1>3. ResponsesInOrder'  BY DEF Default, ResponsesInOrder, channels
<1>4. VerifierSynced'  BY DEF Default, VerifierSynced, NotConnected, UseVerifier, channels
<1>5. GapsSettled'
  <2>1. /\ pc \notin {"handle", "forward", "drain", "takeDrain", "error"}
        /\ pc' \notin {"handle", "forward", "moreResp", "takeResp"}
        /\ UNCHANGED <<seq, taken, next, btpBlockRespCh>>
    BY DEF Default, channels
  <2> QED  BY <2>1, WaitingSame, GapsKeep
<1> QED  BY <1>1, <1>2, <1>3, <1>4, <1>5

\* The first notification is taken.
LEMMA TakeFirstNotifKeeps == IconInv /\ TakeFirstNotif => IconInv'
<1> SUFFICES ASSUME IconInv, TakeFirstNotif PROVE IconInv'  OBVIOUS
<1> USE DEF IconInv
<1>1. TypeOK'
  <2>1. CASE btpBlockNotifCh = <<>>  BY <2>1 DEF TakeFirstNotif, TypeOK
  <2>2. CASE btpBlockNotifCh # <<>>
    <3>1. /\ Head(btpBlockNotifCh) \in Heights /\ Tail(btpBlockNotifCh) \in Seq(Heights)
          /\ Len(Tail(btpBlockNotifCh)) = Len(btpBlockNotifCh) - 1
          /\ Len(btpBlockNotifCh) \in Nat
      BY <2>2 DEF TypeOK
    <3>2. Len(Tail(btpBlockNotifCh)) <= SyncConcurrency
      BY <3>1, StartType DEF TypeOK
    <3>3. bn' \in 0 .. MaxHeight  BY <2>2, <3>1 DEF TakeFirstNotif, Heights
    <3> QED  BY <2>2, <3>1, <3>2, <3>3 DEF TakeFirstNotif, TypeOK
  <2> QED  BY <2>1, <2>2
<1>2. WithinChain'
  <2>1. btpBlockNotifCh # <<>> => Head(btpBlockNotifCh) \in Heights  BY DEF TypeOK
  <2>2. pc = "notif" => requests = 0 /\ requests < SyncConcurrency
    BY StartType DEF WithinChain
  <2> QED  BY <2>1, <2>2 DEF TakeFirstNotif, WithinChain
<1>3. ResponsesInOrder'  BY DEF TakeFirstNotif, ResponsesInOrder, channels
<1>4. VerifierSynced'  BY DEF TakeFirstNotif, VerifierSynced, NotConnected, UseVerifier, channels
<1>5. GapsSettled'
  <2>1. /\ pc \notin {"handle", "forward", "drain", "takeDrain", "error"}
        /\ pc' \notin {"handle", "forward", "moreResp", "takeResp"}
        /\ UNCHANGED <<seq, taken, next, btpBlockRespCh>>
    BY DEF TakeFirstNotif, channels
  <2> QED  BY <2>1, WaitingSame, GapsKeep
<1> QED  BY <1>1, <1>2, <1>3, <1>4, <1>5

\* A further notification is taken.
LEMMA TakeNotifKeeps == IconInv /\ TakeNotif => IconInv'
<1> SUFFICES ASSUME IconInv, TakeNotif PROVE IconInv'  OBVIOUS
<1> USE DEF IconInv
<1>1. TypeOK'
  <2>1. CASE btpBlockNotifCh = <<>>  BY <2>1 DEF TakeNotif, TypeOK
  <2>2. CASE btpBlockNotifCh # <<>>
    <3>1. /\ Head(btpBlockNotifCh) \in Heights /\ Tail(btpBlockNotifCh) \in Seq(Heights)
          /\ Len(Tail(btpBlockNotifCh)) = Len(btpBlockNotifCh) - 1
          /\ Len(btpBlockNotifCh) \in Nat
      BY <2>2 DEF TypeOK
    <3>2. Len(Tail(btpBlockNotifCh)) <= SyncConcurrency
      BY <3>1, StartType DEF TypeOK
    <3>3. bn' \in 0 .. MaxHeight  BY <2>2, <3>1 DEF TakeNotif, Heights
    <3> QED  BY <2>2, <3>1, <3>2, <3>3 DEF TakeNotif, TypeOK
  <2> QED  BY <2>1, <2>2
<1>2. WithinChain'
  <2>1. btpBlockNotifCh # <<>> => Head(btpBlockNotifCh) \in Heights  BY DEF TypeOK
  <2>2. pc = "notif" => requests = 0 /\ requests < SyncConcurrency
    BY StartType DEF WithinChain
  <2> QED  BY <2>1, <2>2 DEF TakeNotif, WithinChain
<1>3. ResponsesInOrder'  BY DEF TakeNotif, ResponsesInOrder, channels
<1>4. VerifierSynced'  BY DEF TakeNotif, VerifierSynced, NotConnected, UseVerifier, channels
<1>5. GapsSettled'
  <2>1. /\ pc \notin {"handle", "forward", "drain", "takeDrain", "error"}
        /\ pc' \notin {"handle", "forward", "moreResp", "takeResp"}
        /\ UNCHANGED <<seq, taken, next, btpBlockRespCh>>
    BY DEF TakeNotif, channels
  <2> QED  BY <2>1, WaitingSame, GapsKeep
<1> QED  BY <1>1, <1>2, <1>3, <1>4, <1>5

\* A notification is looked at.
LEMMA CollectKeeps == IconInv /\ Collect => IconInv'
<1> SUFFICES ASSUME IconInv, Collect PROVE IconInv'  OBVIOUS
<1> USE DEF IconInv
<1>1. TypeOK'
  <2>1. requests' \in 0 .. SyncConcurrency
    BY StartType DEF Collect, TypeOK, WithinChain
  <2>2. bn' \in 0 .. MaxHeight  BY StartType DEF Collect
  <2>3. pc' \in {"drain", "moreNotif"} /\ ret' \in {"select", "clear"}
    BY DEF Collect, CallReconnect, TypeOK
  <2>4. reconnectCh' \in BOOLEAN  BY Zenon DEF Collect, CallReconnect, TypeOK
  <2> QED  BY <2>1, <2>2, <2>3, <2>4 DEF Collect, TypeOK
<1>2. WithinChain'
  <2>1. next + requests' <= MaxHeight + 1
    <3>1. CASE bn = next + requests
      <4>1. requests' = requests + 1 /\ bn \in 1 .. MaxHeight
        BY <3>1 DEF Collect, WithinChain, Heights
      <4> QED  BY <3>1, <4>1, StartType DEF TypeOK
    <3>2. CASE bn # next + requests
      BY <3>2, StartType DEF Collect, TypeOK
    <3> QED  BY <3>1, <3>2
  <2> QED  BY <2>1 DEF Collect, CallReconnect, WithinChain
<1>3. ResponsesInOrder'  BY DEF Collect, ResponsesInOrder, channels, CallReconnect
<1>4. VerifierSynced'  BY DEF Collect, VerifierSynced, NotConnected, UseVerifier, channels, CallReconnect
<1>5. GapsSettled'
  <2>1. /\ pc \notin {"handle", "forward", "drain", "takeDrain", "error"}
        /\ pc' \notin {"handle", "forward", "moreResp", "takeResp"}
        /\ UNCHANGED <<seq, taken, next, btpBlockRespCh>>
    BY DEF Collect, CallReconnect
  <2> QED  BY <2>1, WaitingSame, GapsKeep
<1> QED  BY <1>1, <1>2, <1>3, <1>4, <1>5

\* The main loop looks for another notification.
LEMMA MoreNotifKeeps == IconInv /\ MoreNotif => IconInv'
<1> SUFFICES ASSUME IconInv, MoreNotif PROVE IconInv'  OBVIOUS
<1> USE DEF IconInv
<1>1. TypeOK'  BY DEF MoreNotif, TypeOK, channels
<1>2. WithinChain'  BY DEF MoreNotif, WithinChain
<1>3. ResponsesInOrder'  BY DEF MoreNotif, ResponsesInOrder, channels
<1>4. VerifierSynced'  BY DEF MoreNotif, VerifierSynced, NotConnected, UseVerifier, channels
<1>5. GapsSettled'
  <2>1. /\ pc \notin {"handle", "forward", "drain", "takeDrain", "error"}
        /\ pc' \notin {"handle", "forward", "moreResp", "takeResp"}
        /\ UNCHANGED <<seq, taken, next, btpBlockRespCh>>
    BY DEF MoreNotif, channels
  <2> QED  BY <2>1, WaitingSame, GapsKeep
<1> QED  BY <1>1, <1>2, <1>3, <1>4, <1>5

\* A response that is used has no gap before it.
LEMMA InPlaceNoGap ==
    ASSUME next \in Nat, requests \in Nat,
           NEW ok \in SUBSET (next .. next + requests - 1), NEW w \in InPlace(ok)
    PROVE  next .. w - 1 \subseteq InPlace(ok)
<1> DEFINE Below(h) == {k \in ok : k < h}
<1>1. w \in ok /\ w = next + Cardinality(Below(w))  BY DEF InPlace
<1>0. ok \subseteq Nat /\ \A k \in ok : k >= next  OBVIOUS
<1>2. w \in Nat /\ w >= next  BY <1>0, <1>1
<1>3. ASSUME NEW h \in next .. w
      PROVE  /\ IsFiniteSet(next .. h - 1) /\ Cardinality(next .. h - 1) = h - next
             /\ Below(h) \subseteq next .. h - 1
  <2>1. IsFiniteSet(next .. h - 1)
        /\ Cardinality(next .. h - 1) = IF next > h - 1 THEN 0 ELSE h - 1 - next + 1
    <3>1. next \in Int /\ h - 1 \in Int  BY <1>2
    <3> QED  BY <3>1, FS_Interval
  <2>2. (IF next > h - 1 THEN 0 ELSE h - 1 - next + 1) = h - next  BY <1>2
  <2>3. Below(h) \subseteq next .. h - 1
    <3>1. ASSUME NEW k \in ok, k < h PROVE k \in next .. h - 1
      <4>1. k \in Nat /\ k >= next  BY <1>0
      <4> QED  BY <1>2, <3>1, <4>1
    <3> QED  BY <3>1
  <2> QED  BY <2>1, <2>2, <2>3
<1>4. w \in next .. w  BY <1>2
<1>5. Below(w) = next .. w - 1
  <2>1. /\ IsFiniteSet(next .. w - 1) /\ Cardinality(next .. w - 1) = w - next
        /\ Below(w) \subseteq next .. w - 1
    BY <1>3, <1>4
  <2>2. Cardinality(Below(w)) \in Nat  BY <2>1, FS_Subset, FS_CardinalityType
  <2>3. Cardinality(Below(w)) = w - next
    <3> DEFINE c == Cardinality(Below(w))
    <3>1. w = next + c /\ c \in Nat  BY <1>1, <2>2
    <3> HIDE DEF c
    <3>2. c = w - next  BY <1>2, <3>1
    <3> QED  BY <3>2 DEF c
  <2> HIDE DEF Below
  <2> QED  BY <2>1, <2>3, FS_Subset
<1>6. ASSUME NEW h \in next .. w - 1 PROVE h \in InPlace(ok)
  <2>1. h \in next .. w /\ h \in Nat  BY <1>2
  <2>2. Below(h) = next .. h - 1
    <3>1. \A k \in next .. h - 1 : k \in next .. w - 1 /\ k < h  BY <1>2, <2>1
    <3>2. next .. h - 1 \subseteq Below(h)  BY <1>5, <3>1
    <3> QED  BY <1>3, <2>1, <3>2
  <2>3. Cardinality(Below(h)) = h - next  BY <1>3, <2>1, <2>2
  <2>4. h \in ok  BY <1>5
  <2>5. h = next + Cardinality(Below(h))  BY <2>1, <2>3
  <2> QED  BY <2>4, <2>5 DEF InPlace
<1> QED  BY <1>6

\* The requests are served.
LEMMA FetchKeeps == IconInv /\ Fetch => IconInv'
<1> SUFFICES ASSUME IconInv, Fetch PROVE IconInv'  OBVIOUS
<1> USE DEF IconInv
<1>1. TypeOK'
  <2>1. responses' \subseteq next .. next + requests - 1 /\ faults' \in 0 .. MaxFaults
    <3>1. responses' \subseteq next .. next + requests - 1  BY DEF Fetch, InPlace
    <3>2. faults' \in 0 .. MaxFaults  BY StartType DEF Fetch, MaybeFault, TypeOK
    <3> QED  BY <3>1, <3>2
  <2>2. responses' \subseteq Heights
    BY <2>1, StartType DEF WithinChain, TypeOK, Heights
  <2> QED  BY <2>1, <2>2, StartType DEF Fetch, TypeOK, channels
<1>2. WithinChain'
  <2>1. next + 0 <= MaxHeight + 1  BY DEF TypeOK
  <2> QED  BY <2>1 DEF Fetch, WithinChain
<1>3. ResponsesInOrder'
  <2>1. responses' \subseteq next .. next + requests - 1
    BY DEF Fetch, InPlace
  <2>2. btpBlockRespCh' = <<>> /\ Len(btpBlockRespCh') = 0
    BY DEF Fetch, ResponsesInOrder, channels
  <2>3. \A h \in responses' : h >= next  BY <2>1 DEF TypeOK
  <2> QED  BY <2>2, <2>3 DEF Fetch, ResponsesInOrder
<1>4. VerifierSynced'  BY DEF Fetch, VerifierSynced, NotConnected, UseVerifier, channels
<1>5. GapsSettled'
  <2>1. PICK ok \in SUBSET (next .. next + requests - 1) : responses' = InPlace(ok)
    BY DEF Fetch
  <2>2. btpBlockRespCh' = <<>> /\ pc' = "forward" /\ UNCHANGED <<seq, taken, next>>
    BY DEF Fetch, ResponsesInOrder, channels
  <2>3. Waiting' = InPlace(ok)  BY <2>1, <2>2 DEF Waiting
  <2>4. \A w \in InPlace(ok) : next .. w - 1 \subseteq InPlace(ok)
    BY InPlaceNoGap DEF TypeOK
  <2>5. \A h : Settled(h)' <=> Settled(h)  BY <2>2 DEF Settled, SeqOf
  <2>6. OnlyTakenPassedOver'  BY <2>2, <2>5 DEF GapsSettled, OnlyTakenPassedOver
  <2>7. \A w \in Waiting', h \in EventHeights :
           next <= h /\ h < w => h \in Waiting'
    <3> SUFFICES ASSUME NEW w \in InPlace(ok), NEW h \in EventHeights,
                        next <= h, h < w
                 PROVE  h \in InPlace(ok)
      BY <2>3
    <3>1. w \in Int /\ h \in Int /\ next \in Int
      <4>1. w \in next .. next + requests - 1  BY <2>1 DEF InPlace
      <4>2. next \in Int /\ requests \in Int  BY DEF TypeOK
      <4> QED  BY <4>1, <4>2, IconAssumption DEF Heights
    <3>2. h \in next .. w - 1  BY <3>1
    <3> QED  BY <2>4, <3>2
  <2> QED  BY <2>2, <2>6, <2>7 DEF GapsSettled
<1> QED  BY <1>1, <1>2, <1>3, <1>4, <1>5

\* A response is put into the channel.
LEMMA ForwardKeeps == IconInv /\ Forward => IconInv'
<1> SUFFICES ASSUME IconInv, Forward PROVE IconInv'  OBVIOUS
<1> USE DEF IconInv
<1>1. TypeOK'
  <2>1. CASE responses = {}  BY <2>1 DEF Forward, TypeOK
  <2>2. CASE responses # {}
    <3> DEFINE h == Min(responses)
    <3>1. h \in Heights
      <4>1. responses \in SUBSET Nat  BY DEF TypeOK, Heights
      <4>2. h \in responses  BY <2>2, <4>1, MinIsLeast
      <4> QED  BY <4>2 DEF TypeOK
    <3>2. PICK votes \in {ValidatorsAt[h], {}} :
             /\ MaybeFault(votes = {})
             /\ btpBlockRespCh' = Append(btpBlockRespCh, [h |-> h, votes |-> votes])
      BY <2>2 DEF Forward
    <3>3. votes \in SUBSET AllValidators
      BY <3>1, <3>2, ValidatorsType, StartType DEF Heights
    <3> DEFINE r == [h |-> h, votes |-> votes]
    <3>4. r \in Response  BY <3>1, <3>3 DEF Response
    <3> HIDE DEF r, h
    <3>5. btpBlockRespCh' = Append(btpBlockRespCh, r)  BY <3>2 DEF r
    <3>6. /\ btpBlockRespCh' \in Seq(Response)
          /\ Len(btpBlockRespCh') = Len(btpBlockRespCh) + 1
      BY <3>4, <3>5 DEF TypeOK
    <3>7. Len(btpBlockRespCh) \in Nat /\ Len(btpBlockRespCh) < SyncConcurrency
      BY <2>2 DEF TypeOK, Forward
    <3>8. Len(btpBlockRespCh') <= SyncConcurrency  BY <3>6, <3>7, StartType
    <3>9. faults' \in 0 .. MaxFaults  BY <3>2, StartType DEF MaybeFault, TypeOK
    <3>10. responses' \subseteq Heights /\ pc' = pc  BY <2>2 DEF Forward, TypeOK
    <3> QED  BY <3>6, <3>8, <3>9, <3>10 DEF Forward, TypeOK
  <2> QED  BY <2>1, <2>2
<1>2. WithinChain'  BY DEF Forward, WithinChain
<1>3. ResponsesInOrder'
  <2>1. CASE responses = {}  BY <2>1 DEF Forward, ResponsesInOrder
  <2>2. CASE responses # {}
    <3> DEFINE h == Min(responses)
    <3>1. h \in responses /\ \A y \in responses : h <= y
      BY SMTT(20), <2>2, MinIsLeast, StartType DEF TypeOK, Heights
    <3>2. PICK votes \in {ValidatorsAt[h], {}} :
             btpBlockRespCh' = Append(btpBlockRespCh, [h |-> h, votes |-> votes])
      BY <2>2 DEF Forward
    <3>3. responses' = responses \ {h} /\ pc' = "forward" /\ pc = "forward"
      BY <2>2 DEF Forward
    <3> HIDE DEF h
    <3>4. btpBlockRespCh \in Seq(Response) /\ Len(btpBlockRespCh) \in Nat  BY DEF TypeOK
    <3>5. /\ Len(btpBlockRespCh') = Len(btpBlockRespCh) + 1
          /\ \A i \in 1 .. Len(btpBlockRespCh) : btpBlockRespCh'[i] = btpBlockRespCh[i]
          /\ btpBlockRespCh'[Len(btpBlockRespCh) + 1].h = h
      BY <3>2, <3>4
    <3>6. h >= next /\ \A i \in 1 .. Len(btpBlockRespCh) : btpBlockRespCh[i].h < h
      BY <3>1, <3>3 DEF ResponsesInOrder
    <3>7. \A i \in 1 .. Len(btpBlockRespCh') :
             \/ i \in 1 .. Len(btpBlockRespCh)
             \/ i = Len(btpBlockRespCh) + 1
      BY <3>4, <3>5
    <3>8. \A y \in responses' : h < y
      BY <3>1, <3>3 DEF TypeOK, Heights
    <3>9. \A i, j \in 1 .. Len(btpBlockRespCh') :
             i < j => btpBlockRespCh'[i].h < btpBlockRespCh'[j].h
      <4> SUFFICES ASSUME NEW i \in 1 .. Len(btpBlockRespCh'),
                          NEW j \in 1 .. Len(btpBlockRespCh'), i < j
                   PROVE  btpBlockRespCh'[i].h < btpBlockRespCh'[j].h
        OBVIOUS
      <4>1. i \in 1 .. Len(btpBlockRespCh)  BY <3>4, <3>5
      <4>2. CASE j \in 1 .. Len(btpBlockRespCh)
        BY <3>5, <4>1, <4>2 DEF ResponsesInOrder
      <4>3. CASE j = Len(btpBlockRespCh) + 1  BY <3>5, <3>6, <4>1, <4>3
      <4> QED  BY <3>7, <4>2, <4>3
    <3>10. \A i \in 1 .. Len(btpBlockRespCh') :
              /\ btpBlockRespCh'[i].h >= next
              /\ \A y \in responses' : btpBlockRespCh'[i].h < y
      <4> SUFFICES ASSUME NEW i \in 1 .. Len(btpBlockRespCh')
                   PROVE  /\ btpBlockRespCh'[i].h >= next
                          /\ \A y \in responses' : btpBlockRespCh'[i].h < y
        OBVIOUS
      <4>1. CASE i \in 1 .. Len(btpBlockRespCh)
        BY <3>3, <3>5, <4>1 DEF ResponsesInOrder
      <4>2. CASE i = Len(btpBlockRespCh) + 1  BY <3>5, <3>6, <3>8, <4>2
      <4> QED  BY <3>7, <4>1, <4>2
    <3>11. next' = next  BY DEF Forward
    <3> QED  BY <3>1, <3>3, <3>6, <3>9, <3>10, <3>11 DEF ResponsesInOrder
  <2> QED  BY <2>1, <2>2
<1>4. VerifierSynced'  BY DEF Forward, VerifierSynced, NotConnected, UseVerifier, channels
<1>5. GapsSettled'
  <2>1. CASE responses = {}
    <3>1. Waiting' = Waiting  BY <2>1 DEF Forward, Waiting
    <3>2. pc = "forward" /\ pc' = "select" /\ UNCHANGED <<seq, taken, next>>
      BY <2>1 DEF Forward
    <3> QED  BY <3>1, <3>2, GapsKeep
  <2>2. CASE responses # {}
    <3> DEFINE h == Min(responses)
               s == btpBlockRespCh
    <3>1. h \in responses
      BY SMTT(20), <2>2, MinIsLeast, StartType DEF TypeOK, Heights
    <3>2. PICK votes \in {ValidatorsAt[h], {}} :
             s' = Append(s, [h |-> h, votes |-> votes])
      BY <2>2 DEF Forward
    <3>3. responses' = responses \ {h} /\ pc' = "forward" /\ pc = "forward"
          /\ UNCHANGED <<seq, taken, next>>
      BY <2>2 DEF Forward
    <3>4. s \in Seq(Response) /\ Len(s) \in Nat  BY DEF TypeOK
    <3> HIDE DEF h
    <3>5. /\ Len(s') = Len(s) + 1
          /\ \A i \in 1 .. Len(s) : s'[i] = s[i] /\ i \in 1 .. Len(s')
          /\ s'[Len(s) + 1].h = h /\ Len(s) + 1 \in 1 .. Len(s')
      BY <3>2, <3>4
    <3>6. \A i \in 1 .. Len(s') : i \in 1 .. Len(s) \/ i = Len(s) + 1
      BY <3>4, <3>5
    <3>7. {s'[i].h : i \in 1 .. Len(s')} = {s[i].h : i \in 1 .. Len(s)} \cup {h}
      BY <3>5, <3>6
    <3>8. Waiting' = Waiting  BY <3>1, <3>3, <3>7 DEF Waiting
    <3> QED  BY <3>3, <3>8, GapsKeep
  <2> QED  BY <2>1, <2>2
<1> QED  BY <1>1, <1>2, <1>3, <1>4, <1>5

\* The first response is taken.
LEMMA TakeFirstRespKeeps == IconInv /\ TakeFirstResp => IconInv'
<1> SUFFICES ASSUME IconInv, TakeFirstResp PROVE IconInv'  OBVIOUS
<1> USE DEF IconInv
<1>1. TypeOK'
  <2>1. /\ Head(btpBlockRespCh) \in Response /\ Tail(btpBlockRespCh) \in Seq(Response)
        /\ Len(Tail(btpBlockRespCh)) = Len(btpBlockRespCh) - 1
        /\ Len(btpBlockRespCh) \in Nat
    BY DEF TakeFirstResp, TypeOK
  <2>2. Len(Tail(btpBlockRespCh)) <= SyncConcurrency  BY <2>1, StartType DEF TypeOK
  <2>3. next' \in 1 .. MaxHeight + 1  BY StartType DEF TakeFirstResp, TypeOK, WithinChain
  <2> QED  BY <2>1, <2>2, <2>3 DEF TakeFirstResp, TypeOK
<1>2. WithinChain'
  <2>1. Head(btpBlockRespCh) \in Response  BY DEF TakeFirstResp, TypeOK
  <2>2. requests = 0 /\ next' + 0 <= MaxHeight + 1
    BY StartType DEF TakeFirstResp, TypeOK, WithinChain
  <2> QED  BY <2>1, <2>2 DEF TakeFirstResp, WithinChain
<1>3. ResponsesInOrder'
  <2>1. btpBlockRespCh # <<>> /\ btpBlockRespCh' = Tail(btpBlockRespCh)  BY DEF TakeFirstResp
  <2>2. /\ \A i \in 1 .. Len(btpBlockRespCh') :
              /\ btpBlockRespCh'[i].h >= next
              /\ Head(btpBlockRespCh).h < btpBlockRespCh'[i].h
              /\ pc = "takeResp" => next < btpBlockRespCh'[i].h
        /\ \A i, j \in 1 .. Len(btpBlockRespCh') :
              i < j => btpBlockRespCh'[i].h < btpBlockRespCh'[j].h
        /\ Head(btpBlockRespCh).h >= next
        /\ pc = "takeResp" => Head(btpBlockRespCh).h > next
    BY <2>1, RestInOrder
  <2>3. /\ \A i \in 1 .. Len(btpBlockRespCh') : btpBlockRespCh'[i].h \in Nat
        /\ Head(btpBlockRespCh).h \in Nat /\ next \in Nat
    <3>1. btpBlockRespCh' \in Seq(Response) /\ Head(btpBlockRespCh) \in Response
      BY <2>1 DEF TypeOK
    <3>2. \A i \in 1 .. Len(btpBlockRespCh') : btpBlockRespCh'[i] \in Response
      BY <3>1
    <3> QED  BY <3>1, <3>2, ResponseHeight DEF TypeOK
  <2>4. /\ \A i \in 1 .. Len(btpBlockRespCh') : btpBlockRespCh'[i].h >= next'
        /\ Head(btpBlockRespCh).h >= next'
    BY <2>2, <2>3 DEF TakeFirstResp
  <2>5. pc' = "handle" /\ cur' = Head(btpBlockRespCh)  BY DEF TakeFirstResp
  <2> QED  BY <2>2, <2>4, <2>5 DEF ResponsesInOrder
<1>4. VerifierSynced'
  <2>1. btpBlockRespCh # <<>> /\ pc' = "handle"  BY DEF TakeFirstResp
  <2>2. ~NotConnected  BY <2>1 DEF NotConnected
  <2>3. UseVerifier => vr.next >= next'
    BY <2>2 DEF TakeFirstResp, VerifierSynced, TypeOK
  <2>4. vr' = vr  BY DEF TakeFirstResp
  <2> QED  BY <2>1, <2>3, <2>4 DEF VerifierSynced, UseVerifier
<1>5. GapsSettled'
  <2>1. /\ btpBlockRespCh # <<>> /\ btpBlockRespCh' = Tail(btpBlockRespCh)
        /\ cur' = Head(btpBlockRespCh) /\ pc = "select" /\ pc' = "handle"
        /\ UNCHANGED <<seq, taken, next>>
    BY DEF TakeFirstResp
  <2>2. {btpBlockRespCh[i].h : i \in 1 .. Len(btpBlockRespCh)}
          = {cur'.h} \cup {btpBlockRespCh'[i].h : i \in 1 .. Len(btpBlockRespCh')}
    BY <2>1, ChannelTail DEF TypeOK
  <2>3. Waiting' = Waiting  BY <2>1, <2>2 DEF Waiting
  <2> QED  BY <2>1, <2>3, GapsKeep
<1> QED  BY <1>1, <1>2, <1>3, <1>4, <1>5

\* Counting a block that is settled keeps the gaps settled.
LEMMA CountKeeps ==
    ASSUME IconInv, pc \in {"moreResp", "takeResp"}, UNCHANGED <<seq, taken>>,
           next' = next + 1, Waiting' = Waiting, pc' \notin {"moreResp", "takeResp"}
    PROVE  GapsSettled'
<1>1. \A h : Settled(h)' <=> Settled(h)  BY DEF Settled, SeqOf
<1>2. next \in Int /\ EventHeights \subseteq Int
  BY IconAssumption DEF IconInv, TypeOK, Heights
<1>3. \A h \in EventHeights : h < next' => h < next \/ h = next  BY <1>2
<1>4. \A h \in EventHeights : next' <= h => next <= h  BY <1>2
<1>5. OnlyTakenPassedOver'
  BY <1>1, <1>3 DEF IconInv, GapsSettled, OnlyTakenPassedOver
<1>6. \A w \in Waiting', h \in EventHeights :
         next' <= h /\ h < w => h \in Waiting' \/ Settled(h)'
  BY <1>1, <1>4 DEF IconInv, GapsSettled
<1> QED  BY <1>5, <1>6 DEF GapsSettled

\* A further response is taken.
LEMMA TakeRespKeeps == IconInv /\ TakeResp => IconInv'
<1> SUFFICES ASSUME IconInv, TakeResp PROVE IconInv'  OBVIOUS
<1> USE DEF IconInv
<1>1. TypeOK'
  <2>1. /\ Head(btpBlockRespCh) \in Response /\ Tail(btpBlockRespCh) \in Seq(Response)
        /\ Len(Tail(btpBlockRespCh)) = Len(btpBlockRespCh) - 1
        /\ Len(btpBlockRespCh) \in Nat
    BY DEF TakeResp, TypeOK
  <2>2. Len(Tail(btpBlockRespCh)) <= SyncConcurrency  BY <2>1, StartType DEF TypeOK
  <2>3. next' \in 1 .. MaxHeight + 1  BY StartType DEF TakeResp, TypeOK, WithinChain
  <2> QED  BY <2>1, <2>2, <2>3 DEF TakeResp, TypeOK
<1>2. WithinChain'
  <2>1. Head(btpBlockRespCh) \in Response  BY DEF TakeResp, TypeOK
  <2>2. requests = 0 /\ next' + 0 <= MaxHeight + 1
    BY StartType DEF TakeResp, TypeOK, WithinChain
  <2> QED  BY <2>1, <2>2 DEF TakeResp, WithinChain
<1>3. ResponsesInOrder'
  <2>1. btpBlockRespCh # <<>> /\ btpBlockRespCh' = Tail(btpBlockRespCh)  BY DEF TakeResp
  <2>2. /\ \A i \in 1 .. Len(btpBlockRespCh') :
              /\ btpBlockRespCh'[i].h >= next
              /\ Head(btpBlockRespCh).h < btpBlockRespCh'[i].h
              /\ pc = "takeResp" => next < btpBlockRespCh'[i].h
        /\ \A i, j \in 1 .. Len(btpBlockRespCh') :
              i < j => btpBlockRespCh'[i].h < btpBlockRespCh'[j].h
        /\ Head(btpBlockRespCh).h >= next
        /\ pc = "takeResp" => Head(btpBlockRespCh).h > next
    BY <2>1, RestInOrder
  <2>3. /\ \A i \in 1 .. Len(btpBlockRespCh') : btpBlockRespCh'[i].h \in Nat
        /\ Head(btpBlockRespCh).h \in Nat /\ next \in Nat
    <3>1. btpBlockRespCh' \in Seq(Response) /\ Head(btpBlockRespCh) \in Response
      BY <2>1 DEF TypeOK
    <3>2. \A i \in 1 .. Len(btpBlockRespCh') : btpBlockRespCh'[i] \in Response
      BY <3>1
    <3> QED  BY <3>1, <3>2, ResponseHeight DEF TypeOK
  <2>4. /\ \A i \in 1 .. Len(btpBlockRespCh') : btpBlockRespCh'[i].h >= next'
        /\ Head(btpBlockRespCh).h >= next'
    <3>1. pc = "takeResp" /\ next' = next + 1  BY DEF TakeResp
    <3>2. \A n \in Nat : n > next => n >= next + 1  BY <2>3
    <3>3. /\ \A i \in 1 .. Len(btpBlockRespCh') : btpBlockRespCh'[i].h > next
          /\ Head(btpBlockRespCh).h > next
      BY <2>2, <2>3, <3>1
    <3> QED  BY <2>3, <3>1, <3>2, <3>3
  <2>5. pc' = "handle" /\ cur' = Head(btpBlockRespCh)  BY DEF TakeResp
  <2> QED  BY <2>2, <2>4, <2>5 DEF ResponsesInOrder
<1>4. VerifierSynced'
  <2>1. btpBlockRespCh # <<>> /\ pc' = "handle"  BY DEF TakeResp
  <2>2. ~NotConnected  BY <2>1 DEF NotConnected
  <2>3. UseVerifier => vr.next >= next'
    BY <2>2 DEF TakeResp, VerifierSynced, TypeOK
  <2>4. vr' = vr  BY DEF TakeResp
  <2> QED  BY <2>1, <2>3, <2>4 DEF VerifierSynced, UseVerifier
<1>5. GapsSettled'
  <2>1. /\ btpBlockRespCh # <<>> /\ btpBlockRespCh' = Tail(btpBlockRespCh)
        /\ cur' = Head(btpBlockRespCh) /\ pc = "takeResp" /\ pc' = "handle"
        /\ UNCHANGED <<seq, taken>> /\ next' = next + 1
    BY DEF TakeResp
  <2>2. {btpBlockRespCh[i].h : i \in 1 .. Len(btpBlockRespCh)}
          = {cur'.h} \cup {btpBlockRespCh'[i].h : i \in 1 .. Len(btpBlockRespCh')}
    BY <2>1, ChannelTail DEF TypeOK
  <2>3. Waiting' = Waiting  BY <2>1, <2>2 DEF Waiting
  <2> QED  BY <2>1, <2>3, CountKeeps
<1> QED  BY <1>1, <1>2, <1>3, <1>4, <1>5

\* A response is handled.
LEMMA HandleKeeps == IconInv /\ Handle => IconInv'
<1> SUFFICES ASSUME IconInv, Handle PROVE IconInv'  OBVIOUS
<1> USE DEF IconInv
<1>1. TypeOK'
  <2>1. cur.h \in Heights  BY DEF Handle, WithinChain, Response
  <2>2. Update(cur.h) \in [next : 0 .. MaxHeight + 1, vals : SUBSET AllValidators]
    BY <2>1, ValidatorsType, StartType DEF Update, Heights
  <2>3. SeqOf(cur.h) \in 0 .. MaxHeight
    <3>1. cur.h \in Int  BY <2>1 DEF Heights
    <3> QED  BY <3>1, SeqOfType
  <2>4. seq' \in 1 .. MaxHeight + 1
    BY <2>3, StartType DEF Handle, Callback, TypeOK
  <2>6. vr' = vr \/ vr' = Update(cur.h)  BY DEF Handle
  <2>7. /\ pc' \in {"moreResp", "error", "drain"} /\ ret' \in {"select", "clear"}
        /\ reconnectCh' \in BOOLEAN
    BY DEF Handle, Callback, CallReconnect, TypeOK
  <2> QED  BY <2>2, <2>4, <2>6, <2>7 DEF Handle, TypeOK
<1>2. WithinChain'
  <2>1. pc' \in {"moreResp", "error", "drain"}  BY DEF Handle, Callback, CallReconnect
  <2>2. cur.h \in 1 .. MaxHeight /\ cur.h >= next
    BY DEF Handle, WithinChain, Response, ResponsesInOrder, Heights
  <2>3. next <= MaxHeight  BY <2>2, StartType DEF TypeOK
  <2> QED  BY <2>1, <2>3 DEF Handle, WithinChain
<1>3. ResponsesInOrder'
  <2>1. pc' \in {"moreResp", "error", "drain"}  BY DEF Handle, Callback, CallReconnect
  <2>2. cur.h \in Nat /\ cur.h >= next /\ next \in Nat
    BY DEF Handle, WithinChain, Response, ResponsesInOrder, Heights, TypeOK
  <2>3. \A i \in 1 .. Len(btpBlockRespCh) : next < btpBlockRespCh[i].h
    <3> SUFFICES ASSUME NEW i \in 1 .. Len(btpBlockRespCh)
                 PROVE  next < btpBlockRespCh[i].h
      OBVIOUS
    <3>1. btpBlockRespCh[i].h \in Nat
      <4>1. btpBlockRespCh[i] \in Response  BY DEF TypeOK
      <4> QED  BY <4>1, ResponseHeight
    <3>2. cur.h < btpBlockRespCh[i].h  BY DEF Handle, ResponsesInOrder
    <3> QED  BY <2>2, <3>1, <3>2
  <2>4. UNCHANGED <<btpBlockRespCh, next>>  BY DEF Handle
  <2> QED  BY <2>1, <2>3, <2>4 DEF ResponsesInOrder
<1>4. VerifierSynced'
  <2>1. pc' \in {"moreResp", "error", "drain"} /\ next' = next
    BY DEF Handle, Callback, CallReconnect
  <2>2. cur.h \in 1 .. MaxHeight /\ cur.h >= next /\ next \in Nat
    BY DEF Handle, WithinChain, Response, ResponsesInOrder, Heights, TypeOK
  <2>3. CASE ~UseVerifier
    <3>1. ~UseVerifier'  BY <2>3 DEF Handle, UseVerifier
    <3> QED  BY <2>1, <3>1 DEF VerifierSynced
  <2>4. CASE UseVerifier /\ vr' = Update(cur.h)
    <3>1. /\ vr'.next = cur.h + 1 /\ vr'.vals = ValidatorsAt[cur.h + 1]
      BY <2>4 DEF Update
    <3> QED  BY <2>1, <2>2, <3>1, StartType DEF VerifierSynced
  <2>5. CASE UseVerifier /\ vr' # Update(cur.h)
    <3>1. vr' = vr /\ pc' = "drain"  BY <2>5 DEF Handle, CallReconnect
    <3>2. vr.next >= next  BY <2>5 DEF VerifierSynced, NotConnected, Handle
    <3> QED  BY <2>1, <2>5, <3>1, <3>2 DEF VerifierSynced, UseVerifier
  <2> QED  BY <2>3, <2>4, <2>5
<1>5. GapsSettled'
  <2>1. pc = "handle" /\ UNCHANGED <<next, taken, btpBlockRespCh>>  BY DEF Handle
  <2>2. CASE pc' # "moreResp"
    <3>1. pc' \in {"drain", "error"} /\ seq' = seq
      BY <2>2 DEF Handle, Callback, CallReconnect
    <3> QED  BY <2>1, <3>1, GapsKeep
  <2>3. CASE pc' = "moreResp"
    <3>0. PICK c : c = cur.h  OBVIOUS
    <3>1. Callback(c)  BY <2>3, <3>0 DEF Handle, CallReconnect
    <3>2. c \in Nat /\ next \in Nat /\ c >= next
      BY <2>1, <3>0, ResponseHeight DEF WithinChain, TypeOK, ResponsesInOrder
    <3>3. /\ seq' >= seq
          /\ c \in EventHeights => SeqOf(c) < seq'
      <4>1. SeqOf(c) \in Nat /\ seq \in Nat
        <5>1. c \in Int  BY <3>2
        <5>2. SeqOf(c) \in 0 .. MaxHeight  BY <5>1, SeqOfType
        <5>3. seq \in Nat  BY DEF TypeOK
        <5> QED  BY <5>2, <5>3
      <4> QED  BY <2>3, <3>1, <4>1 DEF Callback
    <3>4. c \in EventHeights => Settled(c)'  BY <3>3 DEF Settled, SeqOf
    <3>5. \A h \in EventHeights : Settled(h) => Settled(h)'
      BY <1>1, <2>1, <3>3, SettledStays
    <3>6. Waiting' = {btpBlockRespCh[i].h : i \in 1 .. Len(btpBlockRespCh)}
          /\ Waiting = Waiting' \cup {c}
      BY <2>1, <2>3, <3>0 DEF Waiting
    <3>7. \A w \in Waiting' : w \in Nat /\ c < w
      <4>1. \A i \in 1 .. Len(btpBlockRespCh) :
               btpBlockRespCh[i].h \in Nat /\ cur.h < btpBlockRespCh[i].h
        <5>1. \A i \in 1 .. Len(btpBlockRespCh) : btpBlockRespCh[i] \in Response
          BY DEF TypeOK
        <5> QED  BY <2>1, <5>1, ResponseHeight DEF ResponsesInOrder
      <4> QED  BY <3>0, <3>6, <4>1
    <3>8. OnlyTakenPassedOver'  BY <2>1, <3>5 DEF GapsSettled, OnlyTakenPassedOver
    <3>9. ASSUME NEW w \in Waiting', NEW h \in EventHeights, next <= h, h < w
          PROVE  h \in Waiting' \/ Settled(h)'
      <4>1. h \in Waiting \/ Settled(h)  BY <2>1, <3>6, <3>9 DEF GapsSettled
      <4>2. h \in Waiting => h \in Waiting' \/ h = c  BY <3>6
      <4>3. h = c => Settled(h)'  BY <3>4
      <4>4. Settled(h) => Settled(h)'  BY <3>5
      <4> QED  BY <4>1, <4>2, <4>3, <4>4
    <3>10. ASSUME NEW h \in EventHeights, h = next PROVE Settled(h)'
      <4>1. CASE h = c  BY <3>4, <4>1
      <4>2. CASE h # c
        <5>1. h < c  BY <3>2, <3>10, <4>2
        <5>2. h <= h  BY <3>2, <3>10
        <5>3. c \in Waiting  BY <3>6
        <5>4. h \in Waiting \/ Settled(h)
          BY <2>1, <3>10, <5>1, <5>2, <5>3 DEF GapsSettled
        <5>5. h \notin Waiting'
          <6>1. h \in Waiting' => c < h  BY <3>7
          <6>2. h \in Nat  BY <3>2, <3>10
          <6> QED  BY <3>2, <5>1, <6>1, <6>2
        <5>6. h \notin Waiting  BY <3>6, <4>2, <5>5
        <5> QED  BY <3>5, <5>4, <5>6
      <4> QED  BY <4>1, <4>2
    <3>11. next' \in EventHeights => Settled(next)'
      <4> SUFFICES ASSUME NEW h \in EventHeights, h = next' PROVE Settled(h)'
        BY DEF Settled, SeqOf
      <4> QED  BY <2>1, <3>10
    <3> QED  BY <2>1, <2>3, <3>8, <3>9, <3>11 DEF GapsSettled
  <2> QED  BY <2>2, <2>3
<1> QED  BY <1>1, <1>2, <1>3, <1>4, <1>5

\* The main loop looks for another response.
LEMMA MoreRespKeeps == IconInv /\ MoreResp => IconInv'
<1> SUFFICES ASSUME IconInv, MoreResp PROVE IconInv'  OBVIOUS
<1> USE DEF IconInv
<1>1. TypeOK'
  <2>1. next' \in 1 .. MaxHeight + 1  BY StartType DEF MoreResp, TypeOK, WithinChain
  <2> QED  BY <2>1 DEF MoreResp, TypeOK, channels
<1>2. WithinChain'
  <2>1. requests = 0 /\ next' + 0 <= MaxHeight + 1
    BY StartType DEF MoreResp, TypeOK, WithinChain
  <2> QED  BY <2>1 DEF MoreResp, WithinChain
<1>3. ResponsesInOrder'
  <2>1. CASE btpBlockRespCh = <<>>
    <3>1. btpBlockRespCh' = <<>> /\ Len(btpBlockRespCh') = 0 /\ pc' = "clear"
      BY <2>1 DEF MoreResp, channels
    <3> QED  BY <3>1 DEF ResponsesInOrder
  <2>2. CASE btpBlockRespCh # <<>>  BY <2>2 DEF MoreResp, ResponsesInOrder, channels
  <2> QED  BY <2>1, <2>2
<1>4. VerifierSynced'
  <2>1. UseVerifier => vr.next > next  BY DEF MoreResp, VerifierSynced
  <2>2. UseVerifier => vr.next >= next'  BY <2>1 DEF MoreResp, TypeOK
  <2>3. pc' \in {"takeResp", "clear"} /\ vr' = vr /\ (pc' = "takeResp" => next' = next)
    BY DEF MoreResp
  <2> QED  BY <2>1, <2>2, <2>3 DEF VerifierSynced, UseVerifier
<1>5. GapsSettled'
  <2>1. pc = "moreResp" /\ UNCHANGED <<seq, taken, btpBlockRespCh>>
    BY DEF MoreResp, channels
  <2>2. pc' \in {"takeResp", "clear"}  BY DEF MoreResp
  <2>3. Waiting' = Waiting  BY <2>1, <2>2, WaitingSame
  <2>4. CASE btpBlockRespCh = <<>>
    <3>1. next' = next + 1 /\ pc' = "clear"  BY <2>4 DEF MoreResp
    <3> QED  BY <2>1, <2>3, <3>1, CountKeeps
  <2>5. CASE btpBlockRespCh # <<>>
    <3>1. next' = next /\ pc' = "takeResp"  BY <2>5 DEF MoreResp
    <3>2. \A h : Settled(h)' <=> Settled(h)  BY <2>1 DEF Settled, SeqOf
    <3>3. OnlyTakenPassedOver'  BY <3>1, <3>2 DEF GapsSettled, OnlyTakenPassedOver
    <3> QED  BY <2>1, <2>3, <3>1, <3>2, <3>3 DEF GapsSettled
  <2> QED  BY <2>4, <2>5
<1> QED  BY <1>1, <1>2, <1>3, <1>4, <1>5

\* No response is left.
LEMMA ClearKeeps == IconInv /\ Clear => IconInv'
<1> SUFFICES ASSUME IconInv, Clear PROVE IconInv'  OBVIOUS
<1> USE DEF IconInv
<1>1. TypeOK'  BY DEF Clear, TypeOK, channels
<1>2. WithinChain'  BY DEF Clear, WithinChain
<1>3. ResponsesInOrder'  BY DEF Clear, ResponsesInOrder, channels
<1>4. VerifierSynced'  BY DEF Clear, VerifierSynced, NotConnected, UseVerifier, channels
<1>5. GapsSettled'
  <2>1. /\ pc \notin {"handle", "forward", "drain", "takeDrain", "error"}
        /\ pc' \notin {"handle", "forward", "moreResp", "takeResp"}
        /\ UNCHANGED <<seq, taken, next, btpBlockRespCh>>
    BY DEF Clear, channels
  <2> QED  BY <2>1, WaitingSame, GapsKeep
<1> QED  BY <1>1, <1>2, <1>3, <1>4, <1>5

\* Nor does the invariant depend on the head of the chain.
LEMMA SameKeeps ==
    ASSUME IconInv, TypeOK', UNCHANGED <<mainVars, channels, monitor, taken>>
    PROVE  IconInv'
<1>1. WithinChain'  BY DEF IconInv, WithinChain, mainVars
<1>2. ResponsesInOrder'  BY DEF IconInv, ResponsesInOrder, mainVars, channels
<1>3. VerifierSynced'
  BY DEF IconInv, VerifierSynced, NotConnected, UseVerifier, mainVars, channels
<1>4. GapsSettled'
  <2>1. Waiting' = Waiting  BY DEF Waiting, mainVars, channels
  <2>2. UNCHANGED <<pc, next, seq, taken>>  BY DEF mainVars
  <2>3. \A h : Settled(h)' <=> Settled(h)  BY <2>2 DEF Settled, SeqOf
  <2>4. OnlyTakenPassedOver'
    BY <2>2, <2>3 DEF IconInv, GapsSettled, OnlyTakenPassedOver
  <2>5. next' \in EventHeights /\ pc' \in {"moreResp", "takeResp"} => Settled(next)'
    BY <2>2 DEF IconInv, GapsSettled, Settled, SeqOf
  <2> QED  BY <2>1, <2>2, <2>3, <2>4, <2>5 DEF IconInv, GapsSettled
<1> QED  BY <1>1, <1>2, <1>3, <1>4 DEF IconInv

\* Every step keeps the invariant.
LEMMA IconInvNext == IconInv /\ [Next]_vars => IconInv'
<1> SUFFICES ASSUME IconInv, [Next]_vars PROVE IconInv'  OBVIOUS
<1>1. CASE NewBlock
  <2>1. TypeOK'
    <3>1. head' \in Heights
      BY <1>1, StartType DEF NewBlock, IconInv, TypeOK, Heights
    <3> QED  BY <1>1, <3>1 DEF NewBlock, IconInv, TypeOK, mainVars, channels
  <2>2. UNCHANGED <<mainVars, channels, monitor, taken>>  BY <1>1 DEF NewBlock
  <2> QED  BY <2>1, <2>2, SameKeeps
<1>2. CASE MainStep
  BY <1>2, MainDrainKeeps, MainTakeKeeps, ReconnectKeeps, SyncDoneKeeps,
    SyncRequestKeeps, SyncApplyKeeps, DefaultKeeps, TakeFirstNotifKeeps, CollectKeeps,
    MoreNotifKeeps, TakeNotifKeeps, FetchKeeps, ForwardKeeps, TakeFirstRespKeeps,
    HandleKeeps, MoreRespKeeps, TakeRespKeeps, ClearKeeps DEF MainStep
<1>3. CASE \E m \in Monitors : MonitorStep(m) \/ MonitorFail(m)
  BY <1>3, MonitorKeepsInv
<1>4. CASE UNCHANGED vars
  <2>1. TypeOK'  BY <1>4 DEF IconInv, TypeOK, vars, mainVars, channels
  <2>2. UNCHANGED <<mainVars, channels, monitor, taken>>  BY <1>4 DEF vars
  <2> QED  BY <2>1, <2>2, SameKeeps
<1> QED  BY <1>1, <1>2, <1>3, <1>4 DEF Next

-----------------------------------------------------------------------------
(* Theorems.                                                               *)

\* The inductive invariant: responses wait in order and not below next, the
\* verifier holds the validators of a height that is not below next, and the
\* blocks with an event that next has passed were given to the relay or taken
\* by a failed monitor, whatever the monitors send late and take away.
THEOREM IconInvariant == Spec => []IconInv
<1>1. Init => IconInv  BY IconInvInit
<1>2. IconInv /\ [Next]_vars => IconInv'  BY IconInvNext
<1> QED  BY <1>1, <1>2, PTL DEF Spec

\* The state of the receiver has its type: no height leaves the chain and no
\* channel holds more than its capacity.
THEOREM IconTypeCorrect == Spec => []TypeOK
<1>1. IconInv => TypeOK  BY DEF IconInv
<1> QED  BY <1>1, IconInvariant, PTL

\* No block with an event is passed over but one whose response the reconnect()
\* of a failed monitor took, whichever requests fail and blocks are refused.
THEOREM NonePassedOver == Spec => []OnlyTakenPassedOver
<1>1. IconInv => OnlyTakenPassedOver  BY DEF IconInv, GapsSettled
<1> QED  BY <1>1, IconInvariant, PTL

\* next never runs ahead of a response that waits.
THEOREM NextNotAhead == Spec => []ResponsesAhead
<1>1. IconInv => ResponsesAhead
  <2> SUFFICES ASSUME IconInv PROVE ResponsesAhead  OBVIOUS
  <2>1. btpBlockRespCh \in Seq(Response)  BY DEF IconInv, TypeOK
  <2>2. CASE pc = "handle"
    <3> DEFINE w == <<cur>> \o btpBlockRespCh
    <3>1. <<cur>> \in Seq(Response)  BY <2>2 DEF IconInv, WithinChain
    <3>2. /\ Len(w) = Len(btpBlockRespCh) + 1 /\ w[1] = cur
          /\ \A i \in 1 .. Len(w) : i # 1 => w[i] = btpBlockRespCh[i - 1]
                                          /\ i - 1 \in 1 .. Len(btpBlockRespCh)
          /\ Len(btpBlockRespCh) \in Nat
      BY <2>1, <3>1
    <3>3. /\ \A i \in 1 .. Len(btpBlockRespCh) :
                cur.h < btpBlockRespCh[i].h /\ btpBlockRespCh[i].h >= next
          /\ cur.h >= next
          /\ \A i, j \in 1 .. Len(btpBlockRespCh) :
                i < j => btpBlockRespCh[i].h < btpBlockRespCh[j].h
      BY <2>2 DEF IconInv, ResponsesInOrder
    <3> HIDE DEF w
    <3>4. \A i, j \in 1 .. Len(w) : i < j => w[i].h < w[j].h
      <4> SUFFICES ASSUME NEW i \in 1 .. Len(w), NEW j \in 1 .. Len(w), i < j
                   PROVE  w[i].h < w[j].h
        OBVIOUS
      <4>1. j # 1  BY <3>2
      <4>2. CASE i = 1  BY <3>2, <3>3, <4>1, <4>2
      <4>3. CASE i # 1
        <5>1. i - 1 < j - 1  BY <3>2
        <5> QED  BY <3>2, <3>3, <4>1, <4>3, <5>1
      <4> QED  BY <4>2, <4>3
    <3>5. \A i \in 1 .. Len(w) : w[i].h >= next  BY <3>2, <3>3
    <3> QED  BY <2>2, <3>4, <3>5 DEF w, ResponsesAhead
  <2>3. CASE pc # "handle"
    <3>1. <<>> \o btpBlockRespCh = btpBlockRespCh  BY <2>1
    <3> QED  BY <2>3, <3>1 DEF IconInv, ResponsesInOrder, ResponsesAhead
  <2> QED  BY <2>2, <2>3
<1> QED  BY <1>1, IconInvariant, PTL

\* The verifier is at next or above it once it was synchronised, with the
\* validators of its height.
THEOREM VerifierNotBehind == Spec => []VerifierAhead
<1>1. IconInv => VerifierAhead
  BY DEF IconInv, VerifierSynced, VerifierAhead, NotConnected
<1> QED  BY <1>1, IconInvariant, PTL

=============================================================================
