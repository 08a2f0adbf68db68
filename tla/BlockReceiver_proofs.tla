------------------------ MODULE BlockReceiver_proofs ------------------------
(***************************************************************************)
(* Proofs about BlockReceiver: the inductive invariant ReceiverInv, for    *)
(* any start height, fork, concurrency and number of confirmations, and    *)
(* from it the order and the verification of the blocks delivered.         *)
(***************************************************************************)
EXTENDS BlockReceiver, SequenceTheorems, TLAPS

\* The verifier newVerifier sets up is a verifier.
LEMMA NewVerifierType == NewVerifier \in Verifier
<1>1. VerifierHeight - 1 \in Nat  BY HeightAssumption
<1> QED  BY <1>1, HeightAssumption DEF NewVerifier, Verifier, Block

\* Before the first block everything is as the invariant says.
LEMMA ReceiverInvInit == Init => ReceiverInv
<1> SUFFICES ASSUME Init PROVE ReceiverInv  OBVIOUS
<1>1. TypeOK
  <2>1. vr \in Verifier \cup {NoVerifier}  BY NewVerifierType DEF Init
  <2>2. <<>> \in Seq(Block)  OBVIOUS
  <2> QED  BY <2>1, <2>2, HeightAssumption DEF Init, TypeOK
<1>2. QueueInOrder  BY DEF Init, QueueInOrder
<1>3. NothingYet /\ LastIsNext /\ OnlyInLoop
  BY DEF Init, NothingYet, LastIsNext, OnlyInLoop
<1>4. NotificationsInOrder  BY DEF Init, NotificationsInOrder
<1>5. DeliveredLinked  BY DEF Init, DeliveredLinked
<1>6. DeliveredOnMain  BY DEF Init, DeliveredOnMain, OnMain
<1> QED  BY <1>1, <1>2, <1>3, <1>4, <1>5, <1>6 DEF ReceiverInv

\* While the verifier walks to the start height nothing is delivered.
LEMMA SyncKeepsInv == ReceiverInv /\ Sync => ReceiverInv'
<1> SUFFICES ASSUME ReceiverInv, Sync PROVE ReceiverInv'  OBVIOUS
<1> USE DEF ReceiverInv
<1>0. TypeOK  OBVIOUS
<1>1. /\ pc \in {"new", "sync"} /\ pc' \in {"sync", "begin", "stopped"}
      /\ UNCHANGED <<chainVars, loopVars>>
  BY DEF Sync, CreateVerifier, VerifierError, SyncFetch, SyncFirst, SyncVerify, SyncError, SyncDone
<1>2. lbn = NoBlock /\ delivered = <<>>
  BY <1>1 DEF OnlyInLoop, NothingYet
<1>3. vr' \in Verifier \cup {NoVerifier} /\ cursor' \in Nat
      /\ prevHeader' \in Block \cup {NoBlock} /\ sres' \in Seq(Block)
  <2>1. CASE SyncFetch
    <3>1. PICK n \in 1 .. SyncConcurrency :
            \E s \in [1 .. n -> [height : cursor .. (cursor + SyncConcurrency - 1),
                                 branch : {"main", "fork"}]] : sres' = s
      BY <2>1 DEF SyncFetch
    <3>2. cursor .. (cursor + SyncConcurrency - 1) \subseteq Nat
      BY <1>0, ReceiverAssumption DEF TypeOK
    <3>3. [height : cursor .. (cursor + SyncConcurrency - 1),
           branch : {"main", "fork"}] \subseteq Block
      BY <3>2 DEF Block
    <3>4. sres' \in [1 .. n -> Block]  BY <3>1, <3>3
    <3>5. sres' \in Seq(Block)
      BY <3>4, ReceiverAssumption, SeqDef
    <3> QED  BY <2>1, <3>5, <1>0 DEF SyncFetch, TypeOK
  <2>2. ASSUME sres # <<>>
        PROVE  Head(sres) \in Block /\ Tail(sres) \in Seq(Block)
    BY <2>2, <1>0, HeadTailProperties DEF TypeOK
  <2>3. CASE SyncFirst  BY <2>2, <2>3, <1>0 DEF SyncFirst, TypeOK
  <2>4. CASE SyncVerify
    <3>1. prevHeader \in Block  BY <2>4, <1>0 DEF SyncVerify, TypeOK
    <3>2. prevHeader.height + 1 \in Nat  BY <3>1 DEF Block
    <3>3. Updated(prevHeader) \in Verifier  BY <3>1, <3>2 DEF Updated, Verifier
    <3> QED  BY <2>2, <2>4, <3>3, <1>0 DEF SyncVerify, TypeOK
  <2>5. CASE SyncError  BY <2>5, <1>0 DEF SyncError, TypeOK, syncVars
  <2>6. CASE SyncDone
    <3>1. <<>> \in Seq(Block)  OBVIOUS
    <3> QED  BY <2>6, <3>1, <1>0 DEF SyncDone, TypeOK
  <2>7. CASE CreateVerifier \/ VerifierError
    BY <2>7, <1>0 DEF CreateVerifier, VerifierError, TypeOK, syncVars
  <2> QED  BY <2>1, <2>3, <2>4, <2>5, <2>6, <2>7 DEF Sync
<1>4. TypeOK'  BY <1>0, <1>1, <1>3 DEF TypeOK, chainVars, loopVars
<1>5. QueueInOrder' /\ NothingYet' /\ LastIsNext' /\ OnlyInLoop'
  BY <1>1, <1>2 DEF QueueInOrder, NothingYet, LastIsNext, OnlyInLoop, loopVars
<1>6. NotificationsInOrder'  BY <1>1 DEF NotificationsInOrder
<1>7. DeliveredLinked' /\ DeliveredOnMain'
  BY <1>1, <1>2 DEF DeliveredLinked, DeliveredOnMain, OnMain, loopVars
<1> QED  BY <1>4, <1>5, <1>6, <1>7

\* A step that leaves lbn, what was delivered and the verifier as they were.
LEMMA LoopFrame ==
    ASSUME ReceiverInv, TypeOK', QueueInOrder', pc' = "select" \/ lbn = NoBlock,
           pc' # "refused", UNCHANGED <<forkSealed, vr, next, lbn, delivered>>
    PROVE  ReceiverInv'
<1> USE DEF ReceiverInv
<1>1. NothingYet' /\ LastIsNext'  BY DEF NothingYet, LastIsNext
<1>2. OnlyInLoop' /\ NotificationsInOrder'  BY DEF OnlyInLoop, NotificationsInOrder
<1>3. DeliveredLinked' /\ DeliveredOnMain'
  BY DEF DeliveredLinked, DeliveredOnMain, OnMain
<1> QED  BY <1>1, <1>2, <1>3

\* The height that has enough confirmations is a number.
LEMMA LatestHeightType == TypeOK => LatestHeight \in Nat
BY ReceiverAssumption, ReceiverBounds DEF TypeOK, LatestHeight

\* The chain, the clocks and the fetch touch neither lbn nor the verifier; what
\* is fetched continues at next.
LEMMA FetchKeepsInv ==
    ReceiverInv /\ (NewBlock \/ Begin \/ Tick \/ Poll \/ Fetch) => ReceiverInv'
<1> SUFFICES ASSUME ReceiverInv, NewBlock \/ Begin \/ Tick \/ Poll \/ Fetch
             PROVE  ReceiverInv'
  OBVIOUS
<1>0. TypeOK /\ QueueInOrder /\ OnlyInLoop /\ NotificationsInOrder  BY DEF ReceiverInv
<1>1. UNCHANGED <<forkSealed, vr, next, lbn, delivered, syncVars>>
  BY DEF NewBlock, Begin, Tick, Poll, Fetch, chainVars, loopVars
<1>2. pc' \in {pc, "select"} /\ pc' # "refused"
  BY <1>0 DEF NewBlock, Begin, Tick, Poll, Fetch, NotificationsInOrder
<1>3. pc' = "select" \/ lbn = NoBlock  BY <1>0, <1>2 DEF OnlyInLoop
<1>4. height' \in Nat
  BY <1>0 DEF NewBlock, Begin, Tick, Poll, Fetch, chainVars, TypeOK
<1>5. latest' \in Nat
  BY <1>0, LatestHeightType DEF NewBlock, Begin, Tick, Poll, Fetch, loopVars, TypeOK
<1>6. bnch' \in Seq(Block) /\ QueueInOrder'
  <2>1. CASE Fetch
    <3>1. PICK n \in 1 .. SyncConcurrency :
            \E s \in [1 .. n -> [height : Requested, branch : {"main", "fork"}]] :
                Forwarded(s) /\ bnch' = s
      BY <2>1 DEF Fetch
    <3>2. Requested \subseteq Nat
      BY <1>0, ReceiverAssumption DEF Requested, TypeOK
    <3>3. [height : Requested, branch : {"main", "fork"}] \subseteq Block
      BY <3>2 DEF Block
    <3>4. bnch' \in [1 .. n -> Block] /\ Forwarded(bnch')  BY <3>1, <3>3
    <3>5. bnch' \in Seq(Block)  BY <3>4, ReceiverAssumption, SeqDef
    <3>6. \A i \in DOMAIN bnch' : bnch'[i].height = next + i - 1
      BY <3>4 DEF Forwarded
    <3> QED  BY <1>1, <3>5, <3>6 DEF QueueInOrder
  <2>2. CASE UNCHANGED bnch  BY <1>0, <1>1, <2>2 DEF QueueInOrder, TypeOK
  <2> QED  BY <2>1, <2>2 DEF NewBlock, Begin, Tick, Poll, loopVars
<1>7. TypeOK'
  BY <1>0, <1>1, <1>2, <1>4, <1>5, <1>6 DEF TypeOK, syncVars
<1> QED  BY <1>1, <1>2, <1>3, <1>6, <1>7, LoopFrame

\* What is left of the notifications when the first one has been processed.
LEMMA QueueTail ==
    ASSUME TypeOK, QueueInOrder, bnch # <<>>
    PROVE  /\ Head(bnch) \in Block /\ Head(bnch).height = next
           /\ Tail(bnch) \in Seq(Block)
           /\ \A i \in DOMAIN Tail(bnch) : Tail(bnch)[i].height = (next + 1) + i - 1
<1>1. bnch \in Seq(Block) /\ next \in Nat  BY DEF TypeOK
<1>2. Head(bnch) \in Block /\ Head(bnch) = bnch[1] /\ 1 \in DOMAIN bnch
  BY <1>1, HeadTailProperties, LenProperties, EmptySeq
<1>3. Head(bnch).height = next  BY <1>1, <1>2 DEF QueueInOrder
<1>4. Tail(bnch) \in Seq(Block) /\ Len(Tail(bnch)) = Len(bnch) - 1
      /\ \A i \in 1 .. Len(Tail(bnch)) : Tail(bnch)[i] = bnch[i + 1]
  BY <1>1, HeadTailProperties
<1>5. ASSUME NEW i \in DOMAIN Tail(bnch)
      PROVE  Tail(bnch)[i].height = (next + 1) + i - 1
  <2>1. DOMAIN bnch = 1 .. Len(bnch) /\ DOMAIN Tail(bnch) = 1 .. Len(Tail(bnch))
        /\ Len(bnch) \in Nat
    BY <1>1, <1>4, LenProperties
  <2>2. i \in Nat /\ i + 1 \in DOMAIN bnch /\ Tail(bnch)[i] = bnch[i + 1]
    BY <1>4, <2>1
  <2>3. bnch[i + 1].height = next + (i + 1) - 1  BY <2>2 DEF QueueInOrder
  <2> QED  BY <1>1, <2>2, <2>3
<1> QED  BY <1>2, <1>3, <1>4, <1>5

\* A notification that becomes lbn without a delivery: the first one, or lbn
\* fetched again.
LEMMA ProcessFirstKeepsInv ==
    ASSUME ReceiverInv, NEW bn, ProcessFirst(bn)
    PROVE  ReceiverInv'
<1>0. /\ TypeOK /\ QueueInOrder /\ NothingYet /\ LastIsNext /\ OnlyInLoop
      /\ DeliveredLinked /\ DeliveredOnMain
  BY DEF ReceiverInv
<1>1. /\ pc = "select" /\ pc' = "select" /\ bnch # <<>> /\ bn = Head(bnch)
      /\ lbn # NoBlock => lbn.height = bn.height
      /\ lbn' = bn /\ next' = next + 1 /\ bnch' = Tail(bnch)
      /\ UNCHANGED <<chainVars, vr, syncVars, latest, delivered>>
  BY DEF ProcessFirst, Processes, Advance
<1>2. /\ bn \in Block /\ bn.height = next /\ bnch' \in Seq(Block)
      /\ \A i \in DOMAIN bnch' : bnch'[i].height = next' + i - 1
  BY <1>0, <1>1, QueueTail
<1>3. bn # NoBlock  BY <1>2, NilAssumption
<1>4. TypeOK'  BY <1>0, <1>1, <1>2 DEF TypeOK, chainVars, syncVars
<1>5. QueueInOrder'  BY <1>2 DEF QueueInOrder
<1>6. NothingYet' /\ OnlyInLoop'  BY <1>1, <1>3 DEF NothingYet, OnlyInLoop
<1>7. LastIsNext'
  <2>1. bn.height = StartHeight + Len(delivered)
    <3>1. CASE lbn = NoBlock
      <4>1. delivered = <<>> /\ next = StartHeight  BY <1>0, <3>1 DEF NothingYet
      <4>2. Len(delivered) = 0  BY <4>1
      <4> QED  BY <1>2, <4>1, <4>2, HeightAssumption
    <3>2. CASE lbn # NoBlock  BY <1>0, <1>1, <3>2 DEF LastIsNext
    <3> QED  BY <3>1, <3>2
  <2> QED  BY <1>1, <1>2, <2>1 DEF LastIsNext
<1>8. NotificationsInOrder'  BY <1>1 DEF NotificationsInOrder
<1>9. DeliveredLinked' /\ DeliveredOnMain'
  BY <1>0, <1>1 DEF DeliveredLinked, DeliveredOnMain, OnMain, chainVars
<1> QED  BY <1>4, <1>5, <1>6, <1>7, <1>8, <1>9 DEF ReceiverInv

\* lbn is delivered: its parent is the block delivered before, because the
\* verifier remembers that one, and it is on the main branch if its successor
\* is sealed there.
LEMMA DeliverKeepsInv ==
    ASSUME ReceiverInv, NEW bn, Deliver(bn)
    PROVE  ReceiverInv'
<1>0. /\ TypeOK /\ QueueInOrder /\ NothingYet /\ LastIsNext /\ OnlyInLoop
      /\ DeliveredLinked /\ DeliveredOnMain
  BY DEF ReceiverInv
<1>1. /\ pc = "select" /\ pc' = "select" /\ bnch # <<>> /\ bn = Head(bnch)
      /\ lbn # NoBlock /\ lbn.height # bn.height /\ Verified(bn)
      /\ vr' = IF vr = NoVerifier THEN NoVerifier ELSE Updated(lbn)
      /\ delivered' = Append(delivered, lbn)
      /\ lbn' = bn /\ next' = next + 1 /\ bnch' = Tail(bnch)
      /\ UNCHANGED <<chainVars, syncVars, latest>>
  BY DEF Deliver, Processes, Advance, UpdatedVerifier
<1>2. /\ bn \in Block /\ bn.height = next /\ bnch' \in Seq(Block)
      /\ \A i \in DOMAIN bnch' : bnch'[i].height = next' + i - 1
  BY <1>0, <1>1, QueueTail
<1>3. bn # NoBlock  BY <1>2, NilAssumption
<1>4. lbn \in Block /\ lbn.height \in Nat /\ next = lbn.height + 1
  BY <1>0, <1>1, <1>2 DEF TypeOK, LastIsNext, Block
<1>5. /\ delivered \in Seq(Block) /\ Len(delivered) \in Nat
      /\ delivered' \in Seq(Block) /\ Len(delivered') = Len(delivered) + 1
      /\ DOMAIN delivered' = 1 .. (Len(delivered) + 1)
      /\ DOMAIN delivered = 1 .. Len(delivered)
      /\ \A i \in 1 .. Len(delivered) : delivered'[i] = delivered[i]
      /\ delivered'[Len(delivered) + 1] = lbn
  <2>1. delivered \in Seq(Block)  BY <1>0 DEF TypeOK
  <2> QED  BY <1>1, <1>4, <2>1, AppendProperties, LenProperties
<1>6. vr' \in Verifier \cup {NoVerifier}
  BY <1>0, <1>1, <1>4 DEF TypeOK, Updated, Verifier
<1>7. TypeOK'  BY <1>0, <1>1, <1>2, <1>5, <1>6 DEF TypeOK, chainVars, syncVars
<1>8. QueueInOrder'  BY <1>2 DEF QueueInOrder
<1>9. NothingYet' /\ OnlyInLoop'  BY <1>1, <1>3 DEF NothingYet, OnlyInLoop
<1>10. LastIsNext'
  <2>1. lbn.height = StartHeight + Len(delivered)  BY <1>0, <1>1 DEF LastIsNext
  <2>2. bn.height = StartHeight + Len(delivered')
    BY <1>2, <1>4, <1>5, <2>1, HeightAssumption
  <2> QED  BY <1>1, <1>2, <2>2 DEF LastIsNext
<1>11. NotificationsInOrder'  BY <1>1 DEF NotificationsInOrder
<1>12. ASSUME vr' # NoVerifier
       PROVE  /\ vr # NoVerifier /\ Parent(bn) = lbn /\ vr.parent = Parent(lbn)
              /\ Sealed(bn) /\ vr'.parent = lbn
  BY <1>1, <1>12 DEF Verified, Verify, Updated
<1>13. DeliveredLinked'
  <2> SUFFICES ASSUME vr' # NoVerifier, NEW i \in DOMAIN delivered'
               PROVE  /\ i > 1 => Parent(delivered'[i]) = delivered'[i - 1]
                      /\ i = Len(delivered') => vr'.parent = delivered'[i]
    BY DEF DeliveredLinked, Parent
  <2>1. CASE i = Len(delivered) + 1
    <3>1. i > 1 => i - 1 = Len(delivered) /\ i - 1 \in DOMAIN delivered
                   /\ delivered'[i - 1] = delivered[i - 1]
      BY <1>5, <2>1
    <3>2. i > 1 => vr.parent = delivered[i - 1]
      BY <1>0, <1>12, <3>1 DEF DeliveredLinked
    <3> QED  BY <1>5, <1>12, <2>1, <3>1, <3>2
  <2>2. CASE i \in DOMAIN delivered
    <3>1. i > 1 => Parent(delivered[i]) = delivered[i - 1]
      BY <1>0, <1>12, <2>2 DEF DeliveredLinked
    <3>2. delivered'[i] = delivered[i] /\ i # Len(delivered')
          /\ (i > 1 => delivered'[i - 1] = delivered[i - 1])
      BY <1>5, <2>2
    <3> QED  BY <3>1, <3>2
  <2> QED  BY <1>5, <2>1, <2>2
<1>14. DeliveredOnMain'
  <2> SUFFICES ASSUME vr' # NoVerifier, ~ forkSealed', NEW i \in DOMAIN delivered'
               PROVE  delivered'[i].branch = "main"
    BY DEF DeliveredOnMain, OnMain
  <2>1. ~ forkSealed  BY <1>1 DEF chainVars
  <2>2. bn.branch = "main"  BY <1>12, <2>1 DEF Sealed
  <2>3. lbn.branch = "main"  BY <1>12, <2>2 DEF Parent
  <2>4. CASE i = Len(delivered) + 1  BY <1>5, <2>3, <2>4
  <2>5. CASE i \in DOMAIN delivered
    BY <1>0, <1>5, <1>12, <2>1, <2>5 DEF DeliveredOnMain, OnMain
  <2> QED  BY <1>5, <2>4, <2>5
<1> QED  BY <1>7, <1>8, <1>9, <1>10, <1>11, <1>13, <1>14 DEF ReceiverInv

\* The notifications are dropped; next is that of lbn, or as it was.
LEMMA DropKeepsInv ==
    ASSUME ReceiverInv, NEW bn, RefuseRetry(bn) \/ Refetch(bn)
    PROVE  ReceiverInv'
<1>0. /\ TypeOK /\ QueueInOrder /\ NothingYet /\ LastIsNext /\ OnlyInLoop
      /\ DeliveredLinked /\ DeliveredOnMain
  BY DEF ReceiverInv
<1>1. /\ pc = "select" /\ pc' = "select" /\ bnch # <<>> /\ bn = Head(bnch)
      /\ lbn # NoBlock /\ bnch' = <<>>
      /\ UNCHANGED <<chainVars, vr, syncVars, latest, lbn, delivered>>
  BY DEF RefuseRetry, Refetch, Processes
<1>2. bn \in Block /\ bn.height = next  BY <1>0, <1>1, QueueTail
<1>3. next' \in Nat /\ next' = lbn.height
  <2>1. lbn.height \in Nat /\ next \in Nat  BY <1>0, <1>1 DEF TypeOK, Block
  <2>2. CASE RefuseRetry(bn)  BY <1>2, <2>1, <2>2 DEF RefuseRetry
  <2>3. CASE Refetch(bn)
    <3>1. lbn.height # next /\ next' = next - 1  BY <1>2, <2>3 DEF Refetch
    <3>2. next = lbn.height + 1  BY <1>0, <1>1, <3>1 DEF LastIsNext
    <3> QED  BY <2>1, <3>1, <3>2
  <2> QED  BY <2>2, <2>3
<1>4. TypeOK'
  <2>1. <<>> \in Seq(Block)  OBVIOUS
  <2> QED  BY <1>0, <1>1, <1>3, <2>1 DEF TypeOK, chainVars, syncVars
<1>5. QueueInOrder'  BY <1>1 DEF QueueInOrder
<1>6. NothingYet' /\ OnlyInLoop'  BY <1>1 DEF NothingYet, OnlyInLoop
<1>7. LastIsNext'  BY <1>0, <1>1, <1>3 DEF LastIsNext
<1>8. NotificationsInOrder'  BY <1>1 DEF NotificationsInOrder
<1>9. DeliveredLinked' /\ DeliveredOnMain'
  BY <1>0, <1>1 DEF DeliveredLinked, DeliveredOnMain, OnMain, chainVars
<1> QED  BY <1>4, <1>5, <1>6, <1>7, <1>8, <1>9 DEF ReceiverInv

\* The callback of Subscribe has no reason to refuse lbn.
LEMMA NeverRefused ==
    ASSUME ReceiverInv, NEW bn
    PROVE  ~ DeliverRefused(bn)
BY DEF ReceiverInv, LastIsNext, DeliverRefused, Expected

\* A new subscription begins as the first one did.
LEMMA ResubscribeKeepsInv ==
    ASSUME ReceiverInv, Resubscribe
    PROVE  ReceiverInv'
<1>0. TypeOK  BY DEF ReceiverInv
<1>1. vr' \in Verifier \cup {NoVerifier}  BY NewVerifierType DEF Resubscribe
<1>2. <<>> \in Seq(Block)  OBVIOUS
<1>3. TypeOK'
  BY <1>0, <1>1, <1>2, HeightAssumption DEF Resubscribe, TypeOK, chainVars
<1>4. QueueInOrder'  BY DEF Resubscribe, QueueInOrder
<1>5. NothingYet' /\ LastIsNext' /\ OnlyInLoop'
  BY DEF Resubscribe, NothingYet, LastIsNext, OnlyInLoop
<1>6. NotificationsInOrder'  BY DEF Resubscribe, NotificationsInOrder
<1>7. DeliveredLinked' /\ DeliveredOnMain'
  BY DEF Resubscribe, DeliveredLinked, DeliveredOnMain, OnMain
<1> QED  BY <1>3, <1>4, <1>5, <1>6, <1>7 DEF ReceiverInv

\* Every step of the chain and of the receiver keeps the invariant.
LEMMA ReceiverInvStep == ReceiverInv /\ [Next]_vars => ReceiverInv'
<1> SUFFICES ASSUME ReceiverInv, [Next]_vars PROVE ReceiverInv'  OBVIOUS
<1>1. CASE NewBlock \/ Begin \/ Tick \/ Poll \/ Fetch  BY <1>1, FetchKeepsInv
<1>2. CASE Sync  BY <1>2, SyncKeepsInv
<1>3. CASE bnch # <<>> /\ Process(Head(bnch))
  <2>1. CASE ProcessFirst(Head(bnch))  BY <2>1, ProcessFirstKeepsInv
  <2>2. CASE Deliver(Head(bnch))  BY <2>2, DeliverKeepsInv
  <2>3. CASE RefuseRetry(Head(bnch)) \/ Refetch(Head(bnch))  BY <2>3, DropKeepsInv
  <2>4. CASE DeliverRefused(Head(bnch))  BY <2>4, NeverRefused
  <2> QED  BY <1>3, <2>1, <2>2, <2>3, <2>4 DEF Process
<1>4. CASE Resubscribe  BY <1>4, ResubscribeKeepsInv
<1>5. CASE UNCHANGED vars
  BY <1>5 DEF vars, chainVars, syncVars, loopVars, ReceiverInv, TypeOK, QueueInOrder,
              NothingYet, LastIsNext, OnlyInLoop, NotificationsInOrder,
              DeliveredLinked, DeliveredOnMain, OnMain
<1> QED  BY <1>1, <1>2, <1>3, <1>4, <1>5 DEF Next

-----------------------------------------------------------------------------
\* The notifications continue at next and lbn is the block after those
\* delivered, whatever the nodes answer and however often a block is fetched.
THEOREM ReceiverInvariant == Spec => []ReceiverInv
BY ReceiverInvInit, ReceiverInvStep, PTL DEF Spec

\* The variables of receiveLoop and syncVerifier keep their types; next and
\* latest, which are unsigned, never become negative.
THEOREM ReceiverTypeCorrect == Spec => []TypeOK
<1>1. ReceiverInv => TypeOK  BY DEF ReceiverInv
<1> QED  BY <1>1, ReceiverInvariant, PTL

\* The callback of Subscribe never refuses a block for its height.
THEOREM BlocksInOrder == Spec => []NotificationsInOrder
<1>1. ReceiverInv => NotificationsInOrder  BY DEF ReceiverInv
<1> QED  BY <1>1, ReceiverInvariant, PTL

\* With a verifier the blocks delivered form a chain.
THEOREM BlocksLinked == Spec => []DeliveredLinked
<1>1. ReceiverInv => DeliveredLinked  BY DEF ReceiverInv
<1> QED  BY <1>1, ReceiverInvariant, PTL

\* With a verifier only blocks of the branch the validators seal are delivered.
THEOREM BlocksOnMain == Spec => []DeliveredOnMain
<1>1. ReceiverInv => DeliveredOnMain  BY DEF ReceiverInv
<1> QED  BY <1>1, ReceiverInvariant, PTL
=============================================================================
