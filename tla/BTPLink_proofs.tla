--------------------------- MODULE BTPLink_proofs ---------------------------
(***************************************************************************)
(* Proofs about BTPLink: type correctness and the inductive invariants     *)
(* LinkInv and RelayInv, for any set of relays, any limits and any number  *)
(* of messages, blocks and crashes; from them the safety properties of the *)
(* link, and that it implements the safety part of BTPChannel.             *)
(***************************************************************************)
EXTENDS BTPLink, FiniteSetTheorems, SequenceTheorems, WellFoundedInduction, TLAPS

-----------------------------------------------------------------------------
\* Sequences of receipts.

\* How many positions of a sequence have a property is a number up to its
\* length: what Filter and BlockReceipts count.
LEMMA CountPositions ==
    ASSUME NEW T, NEW b \in Seq(T), NEW S, S \subseteq DOMAIN b
    PROVE  Cardinality(S) \in Nat /\ Cardinality(S) <= Len(b)
<1>1. DOMAIN b = 1 .. Len(b) /\ Len(b) \in Nat
  BY LenProperties
<1>2. IsFiniteSet(1 .. Len(b))
  BY <1>1, FS_Interval
<1>3. Cardinality(1 .. Len(b)) = Len(b)
  <2>1. Cardinality(1 .. Len(b)) = IF 1 > Len(b) THEN 0 ELSE Len(b) - 1 + 1
    BY <1>1, FS_Interval
  <2> QED  BY <1>1, <2>1
<1>4. IsFiniteSet(S) /\ Cardinality(S) <= Cardinality(1 .. Len(b))
  BY <1>1, <1>2, FS_Subset
<1> QED  BY <1>3, <1>4, FS_CardinalityType

\* filterSrcMsg returns receipts of the buffer, cut at the front.
LEMMA FilterProperties ==
    ASSUME NEW b \in Batch, NEW h \in Nat, NEW q \in Nat
    PROVE  /\ Filter(b, h, q) \in Batch
           /\ \A i \in DOMAIN Filter(b, h, q) : \E k \in DOMAIN b :
                /\ Filter(b, h, q)[i].height = b[k].height
                /\ Filter(b, h, q)[i].last = b[k].last
                /\ Filter(b, h, q)[i].first >= b[k].first
<1> DEFINE n == Cardinality({i \in DOMAIN b : b[i].height < h \/ b[i].last <= q})
           C(rc) == [rc EXCEPT !.first = IF @ > q THEN @ ELSE q + 1]
           F == [i \in 1 .. (Len(b) - n) |-> C(b[i + n])]
<1>0. b \in Seq(Receipt)  BY DEF Batch
<1>1. n \in Nat /\ n <= Len(b)  BY <1>0, CountPositions
<1>2. Filter(b, h, q) = F  BY DEF Filter
<1>3. DOMAIN b = 1 .. Len(b) /\ Len(b) \in Nat  BY <1>0, LenProperties
<1> HIDE DEF n
<1>4. \A i \in 1 .. (Len(b) - n) : i + n \in 1 .. Len(b)
  BY <1>1, <1>3
<1>5. \A i \in 1 .. (Len(b) - n) : b[i + n] \in Receipt
  BY <1>0, <1>4, ElementOfSeq
<1>6. \A rc \in Receipt : /\ C(rc) \in Receipt
                          /\ C(rc).height = rc.height
                          /\ C(rc).last = rc.last
                          /\ C(rc).first >= rc.first
  BY DEF Receipt
<1> HIDE DEF C
<1>7. Len(b) - n \in Nat  BY <1>1, <1>3
<1>8. \A i \in 1 .. (Len(b) - n) : C(b[i + n]) \in Receipt
  BY <1>5, <1>6
<1>9. F \in Batch
  BY <1>7, <1>8 DEF Batch
<1>10. ASSUME NEW i \in DOMAIN F
       PROVE  \E k \in DOMAIN b : /\ F[i].height = b[k].height
                                  /\ F[i].last = b[k].last
                                  /\ F[i].first >= b[k].first
  <2>1. i \in 1 .. (Len(b) - n) /\ F[i] = C(b[i + n])  OBVIOUS
  <2>2. i + n \in DOMAIN b /\ b[i + n] \in Receipt  BY <2>1, <1>3, <1>4, <1>5
  <2> QED  BY <2>1, <2>2, <1>6
<1> QED  BY <1>2, <1>9, <1>10

\* The receipts of a block are receipts of the source.
LEMMA BlockProperties ==
    ASSUME receipts \in Batch, NEW h \in Nat
    PROVE  /\ BlockReceipts(h) \in Batch
           /\ \A i \in DOMAIN BlockReceipts(h) : \E j \in DOMAIN receipts :
                BlockReceipts(h)[i] = receipts[j]
<1> DEFINE lo == Cardinality({i \in DOMAIN receipts : receipts[i].height < h})
           hi == Cardinality({i \in DOMAIN receipts : receipts[i].height <= h})
<1>0. receipts \in Seq(Receipt)  BY DEF Batch
<1>1. lo \in Nat /\ hi \in Nat /\ hi <= Len(receipts)  BY <1>0, CountPositions
<1>2. BlockReceipts(h) = SubSeq(receipts, lo + 1, hi)  BY DEF BlockReceipts
<1> HIDE DEF lo, hi
<1>3. Len(receipts) \in Nat /\ DOMAIN receipts = 1 .. Len(receipts)  BY <1>0, LenProperties
<1>4. /\ SubSeq(receipts, lo + 1, hi) \in Batch
      /\ \A i \in DOMAIN SubSeq(receipts, lo + 1, hi) :
            /\ lo + i \in DOMAIN receipts
            /\ SubSeq(receipts, lo + 1, hi)[i] = receipts[lo + i]
  BY <1>0, <1>1, <1>3 DEF Batch
<1> QED  BY <1>2, <1>4

-----------------------------------------------------------------------------
\* Type correctness.

\* The latest state of the link is a link state.
LEMMA CurrentLinkType ==
    ASSUME hist \in Seq(Link), hist # <<>>
    PROVE  /\ CurrentHeight \in Nat /\ CurrentHeight >= 1
           /\ \A h \in 1 .. CurrentHeight : hist[h] \in Link
           /\ CurrentLink \in Link
<1>1. Len(hist) \in Nat \ {0}  BY EmptySeq
<1>2. \A h \in 1 .. Len(hist) : hist[h] \in Link  BY ElementOfSeq
<1>3. Len(hist) \in 1 .. Len(hist)  BY <1>1
<1> QED  BY <1>1, <1>2, <1>3 DEF CurrentLink, CurrentHeight

\* txSeq is a number.
LEMMA TxSeqType ==
    ASSUME receipts \in Batch
    PROVE  TxSeq \in Nat
<1>1. CASE receipts = <<>>  BY <1>1 DEF TxSeq
<1>2. CASE receipts # <<>>
  <2>1. Len(receipts) \in 1 .. Len(receipts)  BY <1>2, EmptySeq DEF Batch
  <2>2. receipts[Len(receipts)] \in Receipt  BY <2>1, ElementOfSeq DEF Batch
  <2> QED  BY <1>2, <2>2 DEF TxSeq, Receipt
<1> QED  BY <1>1, <1>2

\* What one subscription step hands to the relay is a batch of receipts.
LEMMA NextReceiptsType ==
    ASSUME TypeOK, NEW r \in Relays
    PROVE  NextReceipts(r) \in Batch
<1>0. nextBlock \in [Relays -> Nat] /\ optsSeq \in [Relays -> Nat \ {0}]  BY DEF TypeOK
<1>1. nextBlock[r] \in Nat /\ optsSeq[r] - 1 \in Nat  BY <1>0
<1>2. BlockReceipts(nextBlock[r]) \in Batch  BY <1>1, BlockProperties DEF TypeOK
<1> QED  BY <1>1, <1>2, FilterProperties DEF NextReceipts

\* Sequences of numbers and their concatenation.
LEMMA IntervalType ==
    ASSUME NEW a \in Nat, NEW b \in Nat, a >= 1
    PROVE  Interval(a, b) \in Seq(Nat)
<1>1. \A k \in 1 .. ((b + 1) - a) : (a + k) - 1 \in Nat  OBVIOUS
<1>2. CASE (b + 1) - a \in Nat  BY <1>1, <1>2 DEF Interval
<1>3. CASE ~ ((b + 1) - a \in Nat)
  <2>1. 1 .. ((b + 1) - a) = {}  BY <1>3
  <2>2. Interval(a, b) = [k \in 1 .. 0 |-> (a + k) - 1]  BY <2>1 DEF Interval
  <2> QED  BY <2>2
<1> QED  BY <1>2, <1>3

\* Every step of the source, the relays and the destination keeps the types.
LEMMA TypeStep == TypeOK /\ [Next]_vars => TypeOK'
<1> SUFFICES ASSUME TypeOK, [Next]_vars PROVE TypeOK'  OBVIOUS
<1> USE DEF vars, srcVars, relayVars, subVars, bufVars, txVars, sentVars, dstVars
<1>s. receipts \in Seq(Receipt) /\ srcHeight \in Nat /\ crashes \in Nat  BY DEF TypeOK, Batch
<1>n. /\ nextBlock \in [Relays -> Nat]
      /\ retryCount \in [Relays -> Nat]
      /\ optsSeq \in [Relays -> Nat \ {0}]
      /\ srcMsg \in [Relays -> Seq(Receipt)]
  BY DEF TypeOK, Batch
<1>x. /\ exec.todo \in Seq(Receipt) /\ exec.link \in Link /\ exec.out \in Seq(Nat)
  BY DEF TypeOK, Batch
<1>h. /\ hist \in Seq(Link) /\ hist # <<>>
      /\ CurrentHeight \in Nat /\ CurrentHeight >= 1
      /\ \A h \in 1 .. CurrentHeight : hist[h] \in Link
      /\ CurrentLink \in Link
  BY CurrentLinkType DEF TypeOK
<1>e. <<>> \in Batch /\ <<>> \in Seq(Nat)  BY EmptySeq DEF Batch
<1>i. IdleExec \in [state : {"idle", "running"}, by : Relays \cup {NoRelay},
                    todo : Batch, link : Link, out : Seq(Nat)]
  BY <1>e DEF IdleExec, Link
<1>1. CASE SendMessage
  <2>1. TxSeq \in Nat  BY TxSeqType DEF TypeOK
  <2>2. [height |-> srcHeight, first |-> TxSeq + 1, last |-> TxSeq + 1] \in Receipt
    BY <1>s, <2>1 DEF Receipt
  <2>3. receipts' \in Batch  BY <1>1, <1>s, <2>2, AppendProperties DEF SendMessage, Batch
  <2> QED  BY <1>1, <2>3 DEF SendMessage, TypeOK
<1>2. CASE SendMessageAgain
  <2>1. Len(receipts) \in 1 .. Len(receipts)  BY <1>2, <1>s, EmptySeq DEF SendMessageAgain
  <2>2. receipts[Len(receipts)] \in Receipt  BY <1>s, <2>1, ElementOfSeq
  <2>3. [receipts[Len(receipts)] EXCEPT !.last = @ + 1] \in Receipt  BY <2>2 DEF Receipt
  <2>4. receipts' = [receipts EXCEPT ![Len(receipts)] =
                        [receipts[Len(receipts)] EXCEPT !.last = @ + 1]]
    BY <1>2 DEF SendMessageAgain
  <2>5. receipts' \in Batch  BY <1>s, <2>1, <2>3, <2>4, ExceptSeq DEF Batch
  <2> QED  BY <1>2, <2>5 DEF SendMessageAgain, TypeOK
<1>3. CASE NewBlock
  <2>1. srcHeight' \in Nat  BY <1>3, <1>s DEF NewBlock
  <2> QED  BY <1>3, <2>1 DEF NewBlock, TypeOK
<1>4. ASSUME NEW r \in Relays, Start(r)  PROVE TypeOK'
  <2>1. PICK h \in 1 .. CurrentHeight :
          /\ optsSeq' = [optsSeq EXCEPT ![r] = hist[h].rxSeq + 1]
          /\ nextBlock' = [nextBlock EXCEPT ![r] = SubscribeHeight(hist[h].rxHeight)]
          /\ txBlockHeight' = [txBlockHeight EXCEPT ![r] = h]
    BY <1>4 DEF Start
  <2>2. hist[h].rxSeq \in Nat /\ hist[h].rxHeight \in Nat  BY <1>h DEF Link
  <2>3. SubscribeHeight(hist[h].rxHeight) \in Nat  BY <2>2, OffsetAssumption DEF SubscribeHeight
  <2>4. hist[h].rxSeq + 1 \in Nat \ {0}  BY <2>2
  <2>5. h \in Nat  BY <1>h
  <2> QED  BY <1>4, <2>1, <2>3, <2>4, <2>5 DEF Start, TypeOK
<1>5. ASSUME NEW r \in Relays, ReceiveBlock(r)  PROVE TypeOK'
  <2> DEFINE b == NextReceipts(r)
  <2>1. b \in Seq(Receipt)  BY NextReceiptsType DEF Batch
  <2> HIDE DEF b
  <2>2. srcMsg[r] \o b \in Batch  BY <1>n, <2>1, ConcatProperties DEF Batch
  <2>3. b # <<>> => b[Len(b)].last + 1 \in Nat \ {0}
    <3>1. b # <<>> => Len(b) \in 1 .. Len(b)  BY <2>1, EmptySeq
    <3>2. b # <<>> => b[Len(b)] \in Receipt  BY <2>1, <3>1, ElementOfSeq
    <3>3. b # <<>> => b[Len(b)].last \in Nat  BY <3>2 DEF Receipt
    <3> QED  BY <3>3
  <2>4. /\ srcMsg' = [srcMsg EXCEPT ![r] = srcMsg[r] \o b]
        /\ optsSeq' = [optsSeq EXCEPT ![r] = IF b = <<>> THEN optsSeq[r] ELSE b[Len(b)].last + 1]
        /\ nextBlock' = [nextBlock EXCEPT ![r] = nextBlock[r] + 1]
    BY <1>5 DEF ReceiveBlock, b
  <2>5. srcMsg' \in [Relays -> Batch]  BY <1>n, <2>2, <2>4 DEF Batch
  <2>6. optsSeq' \in [Relays -> Nat \ {0}]  BY <1>n, <2>3, <2>4
  <2>7. nextBlock' \in [Relays -> Nat]  BY <1>n, <2>4
  <2> QED  BY <1>5, <2>5, <2>6, <2>7 DEF ReceiveBlock, TypeOK
<1>6. ASSUME NEW r \in Relays, Stop(r)
      PROVE  /\ pc' \in [Relays -> {"down", "select", "send", "wait"}]
             /\ optsSeq' \in [Relays -> Nat \ {0}]
             /\ nextBlock' \in [Relays -> Nat]
             /\ srcMsg' \in [Relays -> Batch]
             /\ txBlockHeight' \in [Relays -> Nat]
             /\ confirmed' \in [Relays -> Nat]
  <2>1. 1 \in Nat \ {0} /\ 0 \in Nat  OBVIOUS
  <2>2. optsSeq' \in [Relays -> Nat \ {0}]  BY <1>6, <1>n, <2>1 DEF Stop
  <2>3. srcMsg' \in [Relays -> Batch]  BY <1>6, <1>n, <1>e DEF Stop, Batch
  <2> QED  BY <1>6, <2>1, <2>2, <2>3 DEF Stop, TypeOK
<1>7. ASSUME NEW r \in Relays, ReceiveGap(r)  PROVE TypeOK'
  <2>1. Stop(r)  BY <1>7 DEF ReceiveGap
  <2> QED  BY <1>7, <2>1, <1>6 DEF ReceiveGap, TypeOK
<1>8. ASSUME NEW r \in Relays, Relay(r)  PROVE TypeOK'
  <2>1. PICK h \in 1 .. CurrentHeight :
          LET b == Filter(srcMsg[r], hist[h].rxHeight, hist[h].rxSeq)
          IN  /\ srcMsg' = [srcMsg EXCEPT ![r] = b]
              /\ status' = [status EXCEPT ![r] = h]
              /\ \E n \in 0 .. Len(b) :
                    /\ tx' = [tx EXCEPT ![r] = SubSeq(b, 1, n)]
                    /\ newMsg' = [newMsg EXCEPT ![r] = Remaining(b, n)]
    BY <1>8 DEF Relay
  <2> DEFINE b == Filter(srcMsg[r], hist[h].rxHeight, hist[h].rxSeq)
  <2>2. hist[h].rxSeq \in Nat /\ hist[h].rxHeight \in Nat  BY <1>h DEF Link
  <2>3. b \in Seq(Receipt)  BY <1>n, <2>2, FilterProperties DEF Batch
  <2>4. PICK n \in 0 .. Len(b) :
          /\ tx' = [tx EXCEPT ![r] = SubSeq(b, 1, n)]
          /\ newMsg' = [newMsg EXCEPT ![r] = Remaining(b, n)]
    BY <2>1
  <2>5. srcMsg' = [srcMsg EXCEPT ![r] = b] /\ status' = [status EXCEPT ![r] = h]
    BY <2>1
  <2> HIDE DEF b
  <2>6. Len(b) \in Nat  BY <2>3, LenProperties
  <2>7. SubSeq(b, 1, n) \in Seq(Receipt)  BY <2>3, <2>6, SubSeqProperties
  <2>8. Remaining(b, n) \in Seq(Receipt)  BY <2>3, <2>6, SubSeqProperties DEF Remaining
  <2>9. h \in Nat  BY <1>h
  <2> QED  BY <1>8, <2>3, <2>4, <2>5, <2>7, <2>8, <2>9 DEF Relay, TypeOK, Batch
<1>9. ASSUME NEW r \in Relays, RelayNothing(r)  PROVE TypeOK'
  BY <1>9, <1>e DEF RelayNothing, TypeOK
<1>10. ASSUME NEW r \in Relays, RelayGap(r)  PROVE TypeOK'
  <2>1. Stop(r)  BY <1>10 DEF RelayGap
  <2> QED  BY <1>10, <2>1, <1>6 DEF RelayGap, TypeOK
<1>11. ASSUME NEW r \in Relays, Send(r)  PROVE TypeOK'
  BY <1>11 DEF Send, TypeOK
<1>12. ASSUME NEW r \in Relays, SendError(r)  PROVE TypeOK'
  BY <1>12 DEF SendError, TypeOK
<1>13. ASSUME NEW r \in Relays, EndRelay(r)
       PROVE  /\ tx' \in [Relays -> Batch]
              /\ newMsg' \in [Relays -> Batch]
              /\ status' \in [Relays -> Nat]
              /\ retryCount' \in [Relays -> Nat]
              /\ sent' \in [Relays -> {"none", "pending", "found", "failed"}]
              /\ minedAt' \in [Relays -> Nat]
  BY <1>13, <1>e DEF EndRelay, TypeOK
<1>14. ASSUME NEW r \in Relays, Abandon(r)  PROVE pool' \in SUBSET Batch
  BY <1>14 DEF Abandon, TypeOK
<1>15. ASSUME NEW r \in Relays, ReceiptFound(r)  PROVE TypeOK'
  <2>1. EndRelay(r)  BY <1>15 DEF ReceiptFound
  <2> QED  BY <1>15, <1>13, <2>1 DEF ReceiptFound, TypeOK
<1>16. ASSUME NEW r \in Relays, ReceiptRetry(r)  PROVE TypeOK'
  <2>1. retryCount' \in [Relays -> Nat]  BY <1>16, <1>n DEF ReceiptRetry
  <2> QED  BY <1>16, <2>1 DEF ReceiptRetry, TypeOK
<1>17. ASSUME NEW r \in Relays, ReceiptGiveUp(r)  PROVE TypeOK'
  <2>1. EndRelay(r) /\ Abandon(r)  BY <1>17 DEF ReceiptGiveUp
  <2> QED  BY <1>17, <1>13, <1>14, <2>1 DEF ReceiptGiveUp, TypeOK
<1>18. ASSUME NEW r \in Relays, Crash(r)  PROVE TypeOK'
  <2>1. EndRelay(r) /\ Abandon(r) /\ Stop(r)  BY <1>18 DEF Crash
  <2>2. crashes' \in Nat  BY <1>18, <1>s DEF Crash
  <2> QED  BY <1>18, <1>6, <1>13, <1>14, <2>1, <2>2 DEF Crash, TypeOK
<1>19. ASSUME NEW r \in Relays, LoseTx(r)  PROVE TypeOK'
  BY <1>19 DEF LoseTx, TypeOK
<1>f. ASSUME NEW r \in Relays, Failed(r)
      PROVE  /\ sent' \in [Relays -> {"none", "pending", "found", "failed"}]
             /\ minedAt' \in [Relays -> Nat]
  <2>1. CurrentHeight \in Nat  BY <1>h
  <2>2. CASE sent' = [sent EXCEPT ![r] = "failed"] /\ UNCHANGED minedAt  BY <2>2 DEF TypeOK
  <2>3. ASSUME NEW height \in {0, CurrentHeight}, Found(r, height)
        PROVE  /\ sent' \in [Relays -> {"none", "pending", "found", "failed"}]
               /\ minedAt' \in [Relays -> Nat]
    BY SMTT(30), <2>1, <2>3 DEF Found, TypeOK
  <2> QED  BY <1>f, <2>2, <2>3 DEF Failed
<1>28. ASSUME NEW r \in Relays, FailTx(r)  PROVE TypeOK'
  <2>1. Failed(r)  BY <1>28 DEF FailTx
  <2>2. /\ sent' \in [Relays -> {"none", "pending", "found", "failed"}]
        /\ minedAt' \in [Relays -> Nat]
    BY <1>f, <2>1
  <2> QED  BY <1>28, <2>2 DEF FailTx, TypeOK
<1>20. ASSUME NEW b \in pool, LosePooled(b)  PROVE TypeOK'
  BY <1>20 DEF LosePooled, TypeOK
<1>21. ASSUME NEW r \in Relays, ExecTx(r)  PROVE TypeOK'
  BY <1>21, <1>h DEF ExecTx, BeginExec, TypeOK
<1>22. ASSUME NEW b \in pool, ExecPooled(b)  PROVE TypeOK'
  BY <1>22, <1>h DEF ExecPooled, BeginExec, TypeOK
<1>23. CASE HandleOldReceipt
  <2>1. Tail(exec.todo) \in Batch  BY <1>23, <1>x, HeadTailProperties DEF HandleOldReceipt, Batch
  <2> QED  BY <1>23, <2>1 DEF HandleOldReceipt, TypeOK
<1>24. CASE HandleReceipt
  <2> DEFINE rc  == Head(exec.todo)
             seq == exec.link.rxSeq
             new == FirstNew(rc, seq)
             out == exec.out \o Interval(new, rc.last)
             lnk == [rxHeight |-> rc.height, rxSeq |-> IF rc.last > seq THEN rc.last ELSE seq]
  <2>1. rc \in Receipt /\ Tail(exec.todo) \in Batch
    BY <1>24, <1>x, HeadTailProperties DEF HandleReceipt, Batch
  <2>2. exec' = [exec EXCEPT !.todo = Tail(exec.todo), !.link = lnk, !.out = out]
    BY <1>24 DEF HandleReceipt
  <2>3. seq \in Nat  BY <1>x DEF Link
  <2>4. rc.last \in Nat /\ rc.first \in Nat /\ rc.height \in Nat  BY <2>1 DEF Receipt
  <2> HIDE DEF seq, rc
  <2>5. new \in Nat /\ new >= 1  BY <2>3, <2>4 DEF FirstNew
  <2>6. lnk \in Link  BY <2>3, <2>4 DEF Link
  <2> HIDE DEF new
  <2>7. Interval(new, rc.last) \in Seq(Nat)  BY <2>4, <2>5, IntervalType
  <2>8. out \in Seq(Nat)  BY <1>x, <2>7, ConcatProperties
  <2> HIDE DEF lnk, out
  <2> QED  BY <1>24, <2>1, <2>2, <2>6, <2>8 DEF HandleReceipt, TypeOK
<1>25. CASE HandleRevert
  <2>1. /\ sent' \in [Relays -> {"none", "pending", "found", "failed"}]
        /\ minedAt' \in [Relays -> Nat]
    <3>1. CASE exec.by \in Relays  BY <1>25, <1>f, <3>1 DEF HandleRevert
    <3>2. CASE exec.by \notin Relays  BY <1>25, <3>2 DEF HandleRevert, TypeOK
    <3> QED  BY <3>1, <3>2
  <2> QED  BY <1>25, <1>i, <2>1 DEF HandleRevert, TypeOK
<1>26. CASE Commit
  <2>1. hist' \in Seq(Link) /\ hist' # <<>>
    <3>1. CASE exec.link = CurrentLink  BY <1>26, <1>h, <3>1 DEF Commit
    <3>2. CASE exec.link # CurrentLink
      <4>1. hist' = Append(hist, exec.link)  BY <1>26, <3>2 DEF Commit
      <4> QED  BY <1>h, <1>x, <4>1, AppendProperties, EmptySeq
    <3> QED  BY <3>1, <3>2
  <2>2. Len(hist') \in Nat  BY <2>1, LenProperties
  <2>3. /\ sent' \in [Relays -> {"none", "pending", "found", "failed"}]
        /\ minedAt' \in [Relays -> Nat]
    <3>1. CASE exec.by \in Relays
      <4>1. Found(exec.by, Len(hist'))  BY <1>26, <3>1 DEF Commit
      <4> QED  BY <2>2, <4>1 DEF Found, TypeOK
    <3>2. CASE exec.by \notin Relays  BY <1>26, <3>2 DEF Commit, TypeOK
    <3> QED  BY <3>1, <3>2
  <2> QED  BY <1>26, <1>i, <1>x, <2>1, <2>3 DEF Commit, TypeOK
<1>27. CASE UNCHANGED vars  BY <1>27 DEF TypeOK
<1> QED  BY <1>1, <1>2, <1>3, <1>4, <1>5, <1>7, <1>8, <1>9, <1>10, <1>11, <1>12,
            <1>15, <1>16, <1>17, <1>18, <1>19, <1>20, <1>21, <1>22, <1>23, <1>24, <1>25,
            <1>26, <1>27, <1>28
         DEF Next, SourceStep, RelayStep, ExecStep

\* The initial state has the right types.
LEMMA TypeInit == Init => TypeOK
<1> SUFFICES ASSUME Init PROVE TypeOK  OBVIOUS
<1>1. <<>> \in Batch /\ <<>> \in Seq(Nat)  BY EmptySeq DEF Batch
<1>2. [rxSeq |-> 0, rxHeight |-> 0] \in Link  BY DEF Link
<1>3. hist \in Seq(Link) /\ hist # <<>>  BY <1>2 DEF Init
<1> QED  BY <1>1, <1>2, <1>3 DEF Init, TypeOK, IdleExec

\* Every variable of the link keeps its type, whatever the relays do.
THEOREM TypeCorrect == Spec => []TypeOK
  BY TypeInit, TypeStep, PTL DEF Spec

-----------------------------------------------------------------------------
\* What travels is cut out of the receipts of the source.

\* The fields of the receipts of a batch are numbers.
LEMMA BatchFields ==
    ASSUME NEW b \in Batch
    PROVE  /\ Len(b) \in Nat /\ DOMAIN b = 1 .. Len(b)
           /\ b # <<>> => Len(b) >= 1
           /\ \A i \in DOMAIN b : /\ b[i] \in Receipt
                                  /\ b[i].height \in Nat
                                  /\ b[i].first \in Nat
                                  /\ b[i].last \in Nat
<1>1. b \in Seq(Receipt)  BY DEF Batch
<1>2. Len(b) \in Nat /\ DOMAIN b = 1 .. Len(b)  BY <1>1, LenProperties
<1>3. b # <<>> => Len(b) \in Nat \ {0}  BY <1>1, EmptySeq
<1>4. \A i \in 1 .. Len(b) : b[i] \in Receipt  BY <1>1, ElementOfSeq
<1>5. \A rc \in Receipt : rc.height \in Nat /\ rc.first \in Nat /\ rc.last \in Nat
  BY DEF Receipt
<1>6. b # <<>> => Len(b) >= 1  BY <1>3
<1> QED  BY <1>2, <1>4, <1>5, <1>6

\* A part of a batch that comes from the source comes from the source.
LEMMA PartFromSource ==
    ASSUME NEW b, NEW c, FromSource(b),
           \A i \in DOMAIN c : \E k \in DOMAIN b : c[i] = b[k]
    PROVE  FromSource(c)
  BY DEF FromSource

\* filterSrcMsg keeps what comes from the source a part of it.
LEMMA FilterFromSource ==
    ASSUME receipts \in Batch, NEW b \in Batch, FromSource(b), NEW h \in Nat, NEW q \in Nat
    PROVE  FromSource(Filter(b, h, q))
<1> DEFINE F == Filter(b, h, q)
<1>1. F \in Batch  BY FilterProperties
<1>2. \A i \in DOMAIN F : \E k \in DOMAIN b :
        F[i].height = b[k].height /\ F[i].last = b[k].last /\ F[i].first >= b[k].first
  BY FilterProperties
<1> HIDE DEF F
<1>3. ASSUME NEW i \in DOMAIN F
      PROVE  \E j \in DOMAIN receipts : /\ F[i].height = receipts[j].height
                                        /\ receipts[j].first <= F[i].first
                                        /\ F[i].last <= receipts[j].last
  <2>1. PICK k \in DOMAIN b :
          F[i].height = b[k].height /\ F[i].last = b[k].last /\ F[i].first >= b[k].first
    BY <1>2
  <2>2. PICK j \in DOMAIN receipts : /\ b[k].height = receipts[j].height
                                     /\ receipts[j].first <= b[k].first
                                     /\ b[k].last <= receipts[j].last
    BY DEF FromSource
  <2>3. /\ b[k].first \in Nat /\ F[i].first \in Nat /\ receipts[j].first \in Nat
    BY <1>1, BatchFields
  <2> QED  BY <2>1, <2>2, <2>3
<1> QED  BY <1>3 DEF FromSource, F

\* What the callback of Subscribe hands over comes from the source.
LEMMA NextReceiptsFromSource ==
    ASSUME TypeOK, NEW r \in Relays
    PROVE  FromSource(NextReceipts(r))
<1>0. nextBlock \in [Relays -> Nat] /\ optsSeq \in [Relays -> Nat \ {0}] /\ receipts \in Batch
  BY DEF TypeOK
<1>1. nextBlock[r] \in Nat /\ optsSeq[r] - 1 \in Nat  BY <1>0
<1> DEFINE B == BlockReceipts(nextBlock[r])
<1>2. B \in Batch /\ \A i \in DOMAIN B : \E j \in DOMAIN receipts : B[i] = receipts[j]
  BY <1>0, <1>1, BlockProperties
<1> HIDE DEF B
<1>3. \A j \in DOMAIN receipts : receipts[j].first \in Nat /\ receipts[j].last \in Nat
  BY <1>0, BatchFields
<1>4. \A j \in DOMAIN receipts : /\ receipts[j].first <= receipts[j].first
                                 /\ receipts[j].last <= receipts[j].last
  BY <1>3
<1>5. FromSource(B)  BY <1>2, <1>4 DEF FromSource
<1> QED  BY <1>0, <1>1, <1>2, <1>5, FilterFromSource DEF NextReceipts, B

\* The buffer still comes from the source when a block is appended to it.
LEMMA ConcatFromSource ==
    ASSUME NEW b \in Batch, NEW c \in Batch, FromSource(b), FromSource(c)
    PROVE  FromSource(b \o c)
<1>0. b \in Seq(Receipt) /\ c \in Seq(Receipt)  BY DEF Batch
<1>1. /\ DOMAIN (b \o c) = 1 .. (Len(b) + Len(c))
      /\ \A i \in 1 .. (Len(b) + Len(c)) :
            (b \o c)[i] = IF i <= Len(b) THEN b[i] ELSE c[i - Len(b)]
  BY <1>0, ConcatProperties, LenProperties
<1>2. Len(b) \in Nat /\ Len(c) \in Nat /\ DOMAIN b = 1 .. Len(b) /\ DOMAIN c = 1 .. Len(c)
  BY BatchFields
<1>3. ASSUME NEW i \in DOMAIN (b \o c)
      PROVE  \/ \E k \in DOMAIN b : (b \o c)[i] = b[k]
             \/ \E k \in DOMAIN c : (b \o c)[i] = c[k]
  <2>1. CASE i <= Len(b)  BY <1>1, <1>2, <2>1
  <2>2. CASE ~ (i <= Len(b))
    <3>1. i - Len(b) \in 1 .. Len(c)  BY <1>1, <1>2, <2>2
    <3>2. (b \o c)[i] = c[i - Len(b)]  BY <1>1, <2>2
    <3> QED  BY <1>2, <3>1, <3>2
  <2> QED  BY <2>1, <2>2
<1> QED  BY <1>3 DEF FromSource

\* A piece of a batch: what Segment puts in a transaction, what it leaves and
\* what handleRelayMessage has still to do.
LEMMA SubSeqPiece ==
    ASSUME NEW b \in Batch, NEW m \in Nat, NEW n \in Nat, m >= 1, n <= Len(b)
    PROVE  /\ SubSeq(b, m, n) \in Batch
           /\ Len(SubSeq(b, m, n)) = IF m <= n THEN n - m + 1 ELSE 0
           /\ \A i \in DOMAIN SubSeq(b, m, n) :
                /\ i \in Nat /\ i >= 1 /\ m + i - 1 \in DOMAIN b
                /\ SubSeq(b, m, n)[i] = b[m + i - 1]
<1>1. Len(b) \in Nat /\ DOMAIN b = 1 .. Len(b) /\ \A i \in DOMAIN b : b[i] \in Receipt
  BY BatchFields
<1>2. \A i \in m .. n : b[i] \in Receipt  BY <1>1
<1>3. /\ SubSeq(b, m, n) \in Seq(Receipt)
      /\ Len(SubSeq(b, m, n)) = IF m <= n THEN n - m + 1 ELSE 0
      /\ \A i \in 1 .. n - m + 1 : SubSeq(b, m, n)[i] = b[m + i - 1]
  BY <1>2, SubSeqProperties
<1>4. DOMAIN SubSeq(b, m, n) = 1 .. Len(SubSeq(b, m, n))  BY <1>3, LenProperties
<1> DEFINE S == SubSeq(b, m, n)
<1> HIDE DEF S
<1>5. ASSUME NEW i \in DOMAIN S
      PROVE  i \in Nat /\ i >= 1 /\ i \in 1 .. n - m + 1 /\ m + i - 1 \in DOMAIN b
  BY <1>1, <1>3, <1>4 DEF S
<1> QED  BY <1>3, <1>5 DEF S, Batch

\* What Segment cuts out of a buffer comes from the source as the buffer does.
LEMMA SubSeqFromSource ==
    ASSUME NEW b \in Batch, FromSource(b), NEW m \in Nat, NEW n \in Nat, m >= 1, n <= Len(b)
    PROVE  FromSource(SubSeq(b, m, n))
<1>1. \A i \in DOMAIN SubSeq(b, m, n) : \E k \in DOMAIN b : SubSeq(b, m, n)[i] = b[k]
  BY SubSeqPiece
<1> QED  BY <1>1, PartFromSource

\* The first receipts of a batch continue the link when the batch does.
LEMMA SubSeqContinues ==
    ASSUME NEW b \in Batch, NEW q \in Nat, Continues(b, q), NEW n \in 0 .. Len(b)
    PROVE  Continues(SubSeq(b, 1, n), q)
<1> DEFINE S == SubSeq(b, 1, n)
<1>1. Len(b) \in Nat /\ DOMAIN b = 1 .. Len(b) /\ (b # <<>> => Len(b) >= 1)  BY BatchFields
<1>2. /\ S \in Batch
      /\ Len(S) = IF 1 <= n THEN n - 1 + 1 ELSE 0
      /\ \A i \in DOMAIN S : i \in Nat /\ 1 + i - 1 \in DOMAIN b /\ S[i] = b[1 + i - 1]
  BY <1>1, SubSeqPiece
<1>3. Len(S) \in Nat /\ DOMAIN S = 1 .. Len(S) /\ (S # <<>> => Len(S) >= 1)  BY <1>2, BatchFields
<1> HIDE DEF S
<1>4. \A i \in DOMAIN S : i \in DOMAIN b /\ S[i] = b[i]  BY <1>2
<1>5. S # <<>> => S[1].first <= q + 1
  <2> SUFFICES ASSUME S # <<>> PROVE S[1].first <= q + 1  OBVIOUS
  <2>1. 1 \in DOMAIN S  BY <1>3
  <2>2. 1 \in DOMAIN b /\ S[1] = b[1]  BY <2>1, <1>4
  <2>3. b # <<>>  BY <2>2, <1>1
  <2> QED  BY <2>2, <2>3 DEF Continues
<1>6. \A i \in DOMAIN S : i > 1 => S[i].first = S[i - 1].last + 1
  <2> SUFFICES ASSUME NEW i \in DOMAIN S, i > 1 PROVE S[i].first = S[i - 1].last + 1  OBVIOUS
  <2>1. i - 1 \in DOMAIN S  BY <1>3
  <2>2. b[i].first = b[i - 1].last + 1  BY <1>4 DEF Continues
  <2> QED  BY <1>4, <2>1, <2>2
<1> QED  BY <1>5, <1>6 DEF Continues, S

\* filterSrcMsg found no gap after a status that is no newer than the link.
LEMMA NoGapContinues ==
    ASSUME NEW b \in Batch, NEW q \in Nat, ~ Gap(b, q), NEW p \in Nat, q <= p
    PROVE  Continues(b, p)
<1>1. Len(b) \in Nat /\ DOMAIN b = 1 .. Len(b) /\ (b # <<>> => Len(b) >= 1)  BY BatchFields
<1>2. \A i \in DOMAIN b : b[i].first = (IF i = 1 THEN q ELSE b[i - 1].last) + 1
  BY DEF Gap
<1>3. b # <<>> => 1 \in DOMAIN b  BY <1>1
<1>4. b # <<>> => b[1].first = q + 1  BY <1>2, <1>3
<1>5. b # <<>> => b[1].first <= p + 1  BY <1>4
<1>6. \A i \in DOMAIN b : i > 1 => b[i].first = b[i - 1].last + 1  BY <1>1, <1>2
<1> QED  BY <1>5, <1>6 DEF Continues

-----------------------------------------------------------------------------
\* The inductive invariant.

\* Nothing to relay is relayable, whatever the link expects.
LEMMA EmptyRelayable ==
    ASSUME NEW q
    PROVE  FromSource(<<>>) /\ Relayable(<<>>, q)
  BY DEF FromSource, Relayable, Continues

\* What continues the link still continues it after it has advanced.
LEMMA ContinuesLater ==
    ASSUME NEW b \in Batch, NEW p \in Nat, NEW q \in Nat, p <= q, Relayable(b, p)
    PROVE  Relayable(b, q)
<1>1. b # <<>> => 1 \in DOMAIN b /\ b[1].first \in Nat  BY BatchFields
<1>2. b # <<>> => b[1].first <= p + 1  BY DEF Relayable, Continues
<1>3. b # <<>> => b[1].first <= q + 1  BY <1>1, <1>2
<1> QED  BY <1>3 DEF Relayable, Continues

\* The typing facts the proofs below compute with.
LEMMA LinkInvTypes ==
    ASSUME LinkInv
    PROVE  /\ receipts \in Batch /\ srcHeight \in Nat
           /\ srcMsg \in [Relays -> Batch]
           /\ newMsg \in [Relays -> Batch]
           /\ tx \in [Relays -> Batch]
           /\ pool \in SUBSET Batch
           /\ hist \in Seq(Link) /\ hist # <<>>
           /\ CurrentHeight \in Nat /\ CurrentHeight >= 1
           /\ \A h \in 1 .. CurrentHeight : /\ hist[h].rxSeq \in Nat
                                            /\ hist[h].rxHeight \in Nat
           /\ CurrentLink.rxSeq \in Nat /\ CurrentLink.rxHeight \in Nat
           /\ exec.todo \in Batch
           /\ exec.link.rxSeq \in Nat /\ exec.link.rxHeight \in Nat
<1>1. TypeOK  BY DEF LinkInv
<1>2. \A l \in Link : l.rxSeq \in Nat /\ l.rxHeight \in Nat  BY DEF Link
<1>3. hist \in Seq(Link) /\ hist # <<>> /\ exec.link \in Link  BY <1>1 DEF TypeOK
<1>4. /\ CurrentHeight \in Nat /\ CurrentHeight >= 1
      /\ \A h \in 1 .. CurrentHeight : hist[h] \in Link
      /\ CurrentLink \in Link
  BY <1>3, CurrentLinkType
<1>5. /\ receipts \in Batch /\ srcHeight \in Nat
      /\ srcMsg \in [Relays -> Batch]
      /\ newMsg \in [Relays -> Batch]
      /\ tx \in [Relays -> Batch]
      /\ pool \in SUBSET Batch
      /\ exec.todo \in Batch
  BY <1>1 DEF TypeOK
<1> QED  BY <1>2, <1>3, <1>4, <1>5

\* A new event leaves the receipts there are where they are: the last one may
\* get longer and one may follow it.
Extends(rs) ==
    \A j \in DOMAIN receipts : /\ j \in DOMAIN rs
                               /\ rs[j].height = receipts[j].height
                               /\ rs[j].first = receipts[j].first
                               /\ receipts[j].last <= rs[j].last

\* What came from the source still does when the source emits more events.
LEMMA ExtendsFromSource ==
    ASSUME receipts \in Batch, NEW rs \in Batch, Extends(rs), NEW b \in Batch, FromSource(b)
    PROVE  \A i \in DOMAIN b : \E j \in DOMAIN rs :
                /\ b[i].height = rs[j].height
                /\ rs[j].first <= b[i].first
                /\ b[i].last <= rs[j].last
<1> SUFFICES ASSUME NEW i \in DOMAIN b
             PROVE  \E j \in DOMAIN rs : /\ b[i].height = rs[j].height
                                         /\ rs[j].first <= b[i].first
                                         /\ b[i].last <= rs[j].last
  OBVIOUS
<1>1. PICK j \in DOMAIN receipts : /\ b[i].height = receipts[j].height
                                   /\ receipts[j].first <= b[i].first
                                   /\ b[i].last <= receipts[j].last
  BY DEF FromSource
<1>2. /\ j \in DOMAIN rs /\ rs[j].height = receipts[j].height
      /\ rs[j].first = receipts[j].first /\ receipts[j].last <= rs[j].last
  BY DEF Extends
<1>3. b[i].last \in Nat /\ receipts[j].last \in Nat /\ rs[j].last \in Nat
  BY <1>2, BatchFields
<1>4. b[i].last <= rs[j].last  BY <1>1, <1>2, <1>3
<1> QED  BY <1>1, <1>2, <1>4

\* Emitting messages and closing blocks keeps the invariant: the new events
\* are in the block being produced, which the link has not passed.
LEMMA SourceKeepsInv ==
    ASSUME LinkInv, SourceStep, exec.state = "idle", TypeOK'
    PROVE  LinkInv'
<1> USE DEF srcVars, relayVars, subVars, bufVars, txVars, sentVars, dstVars
<1>t. /\ receipts \in Batch /\ srcHeight \in Nat
      /\ srcMsg \in [Relays -> Batch]
      /\ newMsg \in [Relays -> Batch]
      /\ tx \in [Relays -> Batch]
      /\ pool \in SUBSET Batch
      /\ CurrentLink.rxSeq \in Nat /\ CurrentLink.rxHeight \in Nat
  BY LinkInvTypes
<1>p. receipts' \in Batch  BY DEF TypeOK
<1>i. SourceInOrder /\ LinkSound(CurrentLink)  BY DEF LinkInv
<1> DEFINE n == Len(receipts)
<1>n. /\ n \in Nat /\ DOMAIN receipts = 1 .. n /\ (receipts # <<>> => n >= 1)
      /\ \A i \in 1 .. n : /\ receipts[i] \in Receipt
                            /\ receipts[i].first \in Nat
                            /\ receipts[i].last \in Nat
                            /\ receipts[i].height \in Nat
  BY <1>t, BatchFields
<1> HIDE DEF n
<1>o. /\ \A i \in 1 .. n : /\ 1 <= receipts[i].first
                            /\ receipts[i].first <= receipts[i].last
                            /\ receipts[i].height <= srcHeight
      /\ \A i, j \in 1 .. n : i < j => /\ receipts[i].last < receipts[j].first
                                        /\ receipts[i].height <= receipts[j].height
  BY <1>i, <1>n DEF SourceInOrder
<1>l. /\ CurrentLink.rxHeight <= srcHeight
      /\ \A i \in 1 .. n : receipts[i].last > CurrentLink.rxSeq
                            => receipts[i].height >= CurrentLink.rxHeight
  BY <1>i, <1>n DEF LinkSound
<1>u. UNCHANGED <<relayVars, pool, dstVars>>
  BY DEF SourceStep, SendMessage, SendMessageAgain, NewBlock
<1>c. CurrentLink' = CurrentLink /\ CurrentHeight' = CurrentHeight
  BY <1>u DEF CurrentLink, CurrentHeight
<1>1. ASSUME SendMessage
      PROVE  Extends(receipts') /\ SourceInOrder' /\ LinkSound(CurrentLink)'
  <2> DEFINE rc == [height |-> srcHeight, first |-> TxSeq + 1, last |-> TxSeq + 1]
  <2>1. TxSeq \in Nat /\ \A i \in 1 .. n : receipts[i].last <= TxSeq
    <3>1. CASE receipts = <<>>
      <4>1. n = 0  BY <3>1, <1>t, EmptySeq DEF n
      <4> QED  BY <3>1, <4>1 DEF TxSeq
    <3>2. CASE receipts # <<>>
      <4>1. TxSeq = receipts[n].last /\ n \in 1 .. n  BY <3>2, <1>n DEF TxSeq, n
      <4>2. ASSUME NEW i \in 1 .. n  PROVE receipts[i].last <= receipts[n].last
        <5>1. CASE i = n  BY <5>1, <1>n, <4>1
        <5>2. CASE i # n
          <6>1. i < n  BY <5>2, <1>n
          <6>2. receipts[i].last < receipts[n].first /\ receipts[n].first <= receipts[n].last
            BY <6>1, <4>1, <1>o
          <6> QED  BY <6>2, <1>n, <4>1
        <5> QED  BY <5>1, <5>2
      <4> QED  BY <4>1, <4>2, <1>n
    <3> QED  BY <3>1, <3>2
  <2>2. receipts' = Append(receipts, rc) /\ srcHeight' = srcHeight  BY <1>1 DEF SendMessage
  <2>3. rc \in Receipt /\ rc.height = srcHeight /\ rc.first = TxSeq + 1 /\ rc.last = TxSeq + 1
    BY <1>t, <2>1 DEF Receipt
  <2> HIDE DEF rc
  <2>4. /\ DOMAIN receipts' = 1 .. (n + 1)
        /\ receipts'[n + 1] = rc
        /\ \A i \in 1 .. n : receipts'[i] = receipts[i]
    <3>1. receipts \in Seq(Receipt)  BY <1>t DEF Batch
    <3>2. Len(Append(receipts, rc)) = n + 1  BY <3>1, <2>3, AppendProperties DEF n
    <3>3. Append(receipts, rc)[n + 1] = rc  BY <3>1, <2>3, AppendProperties DEF n
    <3>4. \A i \in 1 .. n : Append(receipts, rc)[i] = receipts[i]
      BY <3>1, <2>3, AppendProperties DEF n
    <3>5. DOMAIN receipts' = 1 .. Len(receipts')  BY <1>p, BatchFields
    <3> QED  BY <2>2, <3>2, <3>3, <3>4, <3>5
  <2>d. \A i \in 1 .. (n + 1) : i \in 1 .. n \/ i = n + 1  BY <1>n
  <2>5. Extends(receipts')
    <3>1. \A i \in 1 .. n : i \in 1 .. (n + 1) /\ receipts[i].last <= receipts[i].last  BY <1>n
    <3> QED  BY <1>n, <2>4, <3>1 DEF Extends
  <2>6. SourceInOrder'
    <3>1. \A i \in 1 .. (n + 1) : /\ 1 <= receipts'[i].first
                                  /\ receipts'[i].first <= receipts'[i].last
                                  /\ receipts'[i].height <= srcHeight
      <4>1. 1 <= rc.first /\ rc.first <= rc.last /\ rc.height <= srcHeight  BY <1>t, <2>1, <2>3
      <4> QED  BY <2>d, <2>4, <4>1, <1>o
    <3>2. ASSUME NEW i \in 1 .. (n + 1), NEW j \in 1 .. (n + 1), i < j
          PROVE  /\ receipts'[i].last < receipts'[j].first
                 /\ receipts'[i].height <= receipts'[j].height
      <4>1. i \in 1 .. n  BY <1>n, <3>2
      <4>2. CASE j \in 1 .. n  BY <4>1, <4>2, <3>2, <2>4, <1>o
      <4>3. CASE j = n + 1
        <5>1. receipts[i].last <= TxSeq /\ receipts[i].last \in Nat  BY <4>1, <2>1, <1>n
        <5>2. receipts[i].last < TxSeq + 1  BY <5>1, <2>1
        <5> QED  BY <4>1, <4>3, <5>2, <2>3, <2>4, <1>o
      <4> QED  BY <4>2, <4>3, <2>d
    <3> QED  BY <2>2, <2>4, <3>1, <3>2 DEF SourceInOrder
  <2>7. LinkSound(CurrentLink)'
    <3>1. \A i \in 1 .. (n + 1) : receipts'[i].last > CurrentLink.rxSeq
                                  => receipts'[i].height >= CurrentLink.rxHeight
      <4>1. rc.height >= CurrentLink.rxHeight  BY <2>3, <1>l, <1>t
      <4> QED  BY <2>d, <2>4, <4>1, <1>l
    <3> QED  BY <1>c, <1>l, <2>2, <2>4, <3>1 DEF LinkSound
  <2> QED  BY <2>5, <2>6, <2>7
<1>2. ASSUME SendMessageAgain
      PROVE  Extends(receipts') /\ SourceInOrder' /\ LinkSound(CurrentLink)'
  <2> DEFINE rc == [receipts[n] EXCEPT !.last = @ + 1]
  <2>1. n \in 1 .. n  BY <1>2, <1>n DEF SendMessageAgain
  <2>2. receipts' = [receipts EXCEPT ![n] = rc] /\ srcHeight' = srcHeight
    BY <1>2 DEF SendMessageAgain, n
  <2>3. /\ rc.height = receipts[n].height /\ rc.first = receipts[n].first
        /\ rc.last = receipts[n].last + 1
    BY <1>n, <2>1 DEF Receipt
  <2>4. receipts[n].height = srcHeight  BY <1>2 DEF SendMessageAgain, n
  <2> HIDE DEF rc
  <2>5. /\ DOMAIN receipts' = 1 .. n
        /\ receipts'[n] = rc
        /\ \A i \in 1 .. n : i # n => receipts'[i] = receipts[i]
    BY <1>n, <2>1, <2>2
  <2>6. rc.last >= receipts[n].last /\ rc.last \in Nat  BY <1>n, <2>1, <2>3
  <2>7. Extends(receipts')
    <3>1. ASSUME NEW i \in 1 .. n
          PROVE  /\ receipts'[i].height = receipts[i].height
                 /\ receipts'[i].first = receipts[i].first
                 /\ receipts[i].last <= receipts'[i].last
      <4>1. CASE i = n  BY <4>1, <2>3, <2>5, <2>6, <1>n, <2>1
      <4>2. CASE i # n  BY <4>2, <2>5, <1>n
      <4> QED  BY <4>1, <4>2
    <3> QED  BY <1>n, <2>5, <3>1 DEF Extends
  <2>8. SourceInOrder'
    <3>1. ASSUME NEW i \in 1 .. n
          PROVE  /\ 1 <= receipts'[i].first
                 /\ receipts'[i].first <= receipts'[i].last
                 /\ receipts'[i].height <= srcHeight
      <4>1. CASE i = n
        <5>1. 1 <= rc.first /\ rc.height <= srcHeight  BY <2>1, <2>3, <1>o
        <5>2. rc.first <= rc.last  BY <2>1, <2>3, <1>o, <1>n
        <5> QED  BY <4>1, <5>1, <5>2, <2>5
      <4>2. CASE i # n  BY <4>2, <2>5, <1>o
      <4> QED  BY <4>1, <4>2
    <3>2. ASSUME NEW i \in 1 .. n, NEW j \in 1 .. n, i < j
          PROVE  /\ receipts'[i].last < receipts'[j].first
                 /\ receipts'[i].height <= receipts'[j].height
      <4>1. i # n  BY <1>n, <3>2
      <4>2. receipts'[i] = receipts[i]  BY <4>1, <2>5
      <4>3. receipts'[j].first = receipts[j].first /\ receipts'[j].height = receipts[j].height
        BY <2>3, <2>5
      <4> QED  BY <3>2, <4>2, <4>3, <1>o
    <3> QED  BY <2>2, <2>5, <3>1, <3>2 DEF SourceInOrder
  <2>9. LinkSound(CurrentLink)'
    <3>1. ASSUME NEW i \in 1 .. n, receipts'[i].last > CurrentLink.rxSeq
          PROVE  receipts'[i].height >= CurrentLink.rxHeight
      <4>1. CASE i = n  BY <4>1, <2>3, <2>4, <2>5, <1>l, <1>t
      <4>2. CASE i # n  BY <4>2, <3>1, <2>5, <1>l
      <4> QED  BY <4>1, <4>2
    <3> QED  BY <1>c, <1>l, <2>2, <2>5, <3>1 DEF LinkSound
  <2> QED  BY <2>7, <2>8, <2>9
<1>3. ASSUME NewBlock
      PROVE  Extends(receipts') /\ SourceInOrder' /\ LinkSound(CurrentLink)'
  <2>1. receipts' = receipts /\ srcHeight' = srcHeight + 1  BY <1>3 DEF NewBlock
  <2>2. \A i \in 1 .. n : receipts[i].height <= srcHeight + 1 /\ receipts[i].last <= receipts[i].last
    BY <1>n, <1>o, <1>t
  <2>3. CurrentLink.rxHeight <= srcHeight + 1  BY <1>l, <1>t
  <2>4. Extends(receipts')  BY <2>1, <2>2, <1>n DEF Extends
  <2>5. SourceInOrder'  BY <2>1, <2>2, <1>o, <1>n DEF SourceInOrder
  <2>6. LinkSound(CurrentLink)'  BY <2>1, <2>3, <1>c, <1>l, <1>n DEF LinkSound
  <2> QED  BY <2>4, <2>5, <2>6
<1>4. Extends(receipts') /\ SourceInOrder' /\ LinkSound(CurrentLink)'
  BY <1>1, <1>2, <1>3 DEF SourceStep
<1>5. ASSUME NEW b \in Batch, FromSource(b)
      PROVE  \A i \in DOMAIN b : \E j \in DOMAIN receipts' :
                /\ b[i].height = receipts'[j].height
                /\ receipts'[j].first <= b[i].first
                /\ b[i].last <= receipts'[j].last
  BY <1>4, <1>5, <1>t, <1>p, ExtendsFromSource
<1>6. BuffersFromSource'
  <2>1. ASSUME NEW r \in Relays
        PROVE  /\ srcMsg[r] \in Batch /\ FromSource(srcMsg[r])
               /\ newMsg[r] \in Batch /\ FromSource(newMsg[r])
    BY <1>t DEF LinkInv, BuffersFromSource
  <2>2. srcMsg' = srcMsg /\ newMsg' = newMsg  BY <1>u
  <2> QED  BY <1>5, <2>1, <2>2 DEF BuffersFromSource, FromSource
<1>7. TxsRelayable'
  <2>1. ASSUME NEW r \in Relays
        PROVE  tx[r] \in Batch /\ FromSource(tx[r]) /\ Continues(tx[r], CurrentLink.rxSeq)
    BY <1>t DEF LinkInv, TxsRelayable, Relayable
  <2>2. ASSUME NEW b \in pool
        PROVE  b \in Batch /\ FromSource(b) /\ Continues(b, CurrentLink.rxSeq)
    BY <1>t DEF LinkInv, TxsRelayable, Relayable
  <2>3. tx' = tx /\ pool' = pool  BY <1>u
  <2>4. \A r \in Relays : Relayable(tx[r], CurrentLink.rxSeq)'
    BY <1>5, <1>c, <2>1, <2>3 DEF Relayable, FromSource, Continues
  <2>5. \A b \in pool' : Relayable(b, CurrentLink.rxSeq)'
    BY <1>5, <1>c, <2>2, <2>3 DEF Relayable, FromSource, Continues
  <2> QED  BY <2>4, <2>5 DEF TxsRelayable
<1>8. HistInOrder' /\ ExactlyOnceInOrder' /\ ExecSound'
  BY <1>u, <1>c DEF LinkInv, HistInOrder, ExactlyOnceInOrder, ExecSound
<1> QED  BY <1>4, <1>6, <1>7, <1>8 DEF LinkInv

\* A step that leaves both chains alone keeps the invariant if what it puts in
\* the buffers and on the way is as the invariant says.
LEMMA RelayFrame ==
    ASSUME LinkInv, TypeOK', exec.state = "idle", UNCHANGED <<srcVars, dstVars>>,
           \A r \in Relays : /\ FromSource(srcMsg'[r])
                             /\ FromSource(newMsg'[r])
                             /\ Relayable(tx'[r], CurrentLink.rxSeq),
           \A b \in pool' : Relayable(b, CurrentLink.rxSeq)
    PROVE  LinkInv'
<1>1. receipts' = receipts /\ srcHeight' = srcHeight /\ hist' = hist
      /\ exec' = exec /\ dispatched' = dispatched
  BY DEF srcVars, dstVars
<1>2. CurrentLink' = CurrentLink /\ CurrentHeight' = CurrentHeight
  BY <1>1 DEF CurrentLink, CurrentHeight
<1>3. SourceInOrder' /\ LinkSound(CurrentLink)'
  BY <1>1, <1>2 DEF LinkInv, SourceInOrder, LinkSound
<1>4. HistInOrder' /\ ExactlyOnceInOrder' /\ ExecSound'
  BY <1>1, <1>2 DEF LinkInv, HistInOrder, ExactlyOnceInOrder, ExecSound
<1>5. BuffersFromSource'  BY <1>1 DEF BuffersFromSource, FromSource
<1>6. TxsRelayable'  BY <1>1, <1>2 DEF TxsRelayable, Relayable, FromSource, Continues
<1> QED  BY <1>3, <1>4, <1>5, <1>6 DEF LinkInv

\* The relay keeps the invariant: what it buffers comes from the source, and
\* what it sends continues a link state the destination has had.
LEMMA RelayKeepsInv ==
    ASSUME LinkInv, TypeOK', exec.state = "idle", NEW r \in Relays,
           RelayStep(r) \/ LoseTx(r) \/ FailTx(r)
    PROVE  LinkInv'
<1> USE DEF srcVars, relayVars, subVars, bufVars, txVars, sentVars, dstVars
<1>t. /\ receipts \in Batch
      /\ srcMsg \in [Relays -> Batch]
      /\ newMsg \in [Relays -> Batch]
      /\ tx \in [Relays -> Batch]
      /\ CurrentHeight \in Nat
      /\ \A h \in 1 .. CurrentHeight : hist[h].rxSeq \in Nat /\ hist[h].rxHeight \in Nat
      /\ CurrentLink.rxSeq \in Nat /\ hist \in Seq(Link)
  BY LinkInvTypes
<1>b. \A q \in Relays : FromSource(srcMsg[q]) /\ FromSource(newMsg[q])
  BY DEF LinkInv, BuffersFromSource
<1>x. /\ \A q \in Relays : Relayable(tx[q], CurrentLink.rxSeq)
      /\ \A b \in pool : Relayable(b, CurrentLink.rxSeq)
  BY DEF LinkInv, TxsRelayable
<1>e. FromSource(<<>>) /\ Relayable(<<>>, CurrentLink.rxSeq)  BY EmptyRelayable
<1>u. UNCHANGED <<srcVars, dstVars>>
  BY DEF RelayStep, Start, ReceiveBlock, ReceiveGap, Relay, RelayNothing, RelayGap, Send,
         SendError, ReceiptFound, ReceiptRetry, ReceiptGiveUp, Crash, LoseTx, FailTx
<1> DEFINE Buffers == \A q \in Relays : FromSource(srcMsg'[q]) /\ FromSource(newMsg'[q])
           Txs == \A q \in Relays : Relayable(tx'[q], CurrentLink.rxSeq)
           Pool == \A b \in pool' : Relayable(b, CurrentLink.rxSeq)
<1>1. ASSUME UNCHANGED <<srcMsg, newMsg, tx, pool>>  PROVE Buffers /\ Txs /\ Pool
  BY <1>1, <1>b, <1>x
<1>2. ASSUME Stop(r), UNCHANGED <<newMsg, tx, pool>>  PROVE Buffers /\ Txs /\ Pool
  <2>1. srcMsg' = [srcMsg EXCEPT ![r] = <<>>]  BY <1>2 DEF Stop
  <2> QED  BY <1>2, <2>1, <1>t, <1>b, <1>x, <1>e
<1>3. ASSUME EndRelay(r)  PROVE Txs /\ \A q \in Relays : FromSource(newMsg'[q])
  <2>1. newMsg' = [newMsg EXCEPT ![r] = <<>>] /\ tx' = [tx EXCEPT ![r] = <<>>]
    BY <1>3 DEF EndRelay
  <2> QED  BY <2>1, <1>t, <1>b, <1>x, <1>e
<1>4. ASSUME Abandon(r) \/ SendError(r)  PROVE Pool
  BY <1>4, <1>x DEF Abandon, SendError
<1>5. ASSUME ReceiveBlock(r)  PROVE Buffers /\ Txs /\ Pool
  <2>1. FromSource(NextReceipts(r)) /\ NextReceipts(r) \in Batch
    BY NextReceiptsFromSource, NextReceiptsType DEF LinkInv
  <2>2. FromSource(srcMsg[r] \o NextReceipts(r))  BY <2>1, <1>t, <1>b, ConcatFromSource
  <2>3. srcMsg' = [srcMsg EXCEPT ![r] = srcMsg[r] \o NextReceipts(r)]
    BY <1>5 DEF ReceiveBlock
  <2>4. UNCHANGED <<newMsg, tx, pool>>  BY <1>5 DEF ReceiveBlock
  <2> QED  BY <2>2, <2>3, <2>4, <1>t, <1>b, <1>x
<1>6. ASSUME Relay(r)  PROVE Buffers /\ Txs /\ Pool
  <2>1. PICK h \in 1 .. CurrentHeight :
          LET b == Filter(srcMsg[r], hist[h].rxHeight, hist[h].rxSeq)
          IN  /\ ~ Gap(b, hist[h].rxSeq)
              /\ srcMsg' = [srcMsg EXCEPT ![r] = b]
              /\ \E n \in 0 .. Len(b) :
                    /\ tx' = [tx EXCEPT ![r] = SubSeq(b, 1, n)]
                    /\ newMsg' = [newMsg EXCEPT ![r] = Remaining(b, n)]
    BY <1>6 DEF Relay
  <2> DEFINE b == Filter(srcMsg[r], hist[h].rxHeight, hist[h].rxSeq)
  <2>2. b \in Batch /\ FromSource(b)
    BY <1>t, <1>b, FilterProperties, FilterFromSource
  <2>3. hist[h].rxSeq \in Nat /\ hist[h].rxSeq <= CurrentLink.rxSeq
    <3>1. DOMAIN hist = 1 .. CurrentHeight  BY <1>t, LenProperties DEF CurrentHeight
    <3> QED  BY <1>t, <3>1 DEF LinkInv, HistInOrder
  <2>4. Continues(b, CurrentLink.rxSeq)  BY <1>t, <2>1, <2>2, <2>3, NoGapContinues
  <2>5. PICK n \in 0 .. Len(b) :
          /\ tx' = [tx EXCEPT ![r] = SubSeq(b, 1, n)]
          /\ newMsg' = [newMsg EXCEPT ![r] = Remaining(b, n)]
    BY <2>1
  <2>6. srcMsg' = [srcMsg EXCEPT ![r] = b]  BY <2>1
  <2> HIDE DEF b
  <2>7. Len(b) \in Nat /\ n \in Nat /\ n <= Len(b)  BY <2>2, BatchFields
  <2>8. Relayable(SubSeq(b, 1, n), CurrentLink.rxSeq)
    <3>1. FromSource(SubSeq(b, 1, n))  BY <2>2, <2>7, SubSeqFromSource
    <3>2. Continues(SubSeq(b, 1, n), CurrentLink.rxSeq)  BY <1>t, <2>2, <2>4, <2>7, SubSeqContinues
    <3> QED  BY <3>1, <3>2 DEF Relayable
  <2>9. FromSource(Remaining(b, n))
    BY <2>2, <2>7, SubSeqFromSource DEF Remaining
  <2>10. pool' = pool  BY <1>6 DEF Relay
  <2> QED  BY <2>2, <2>5, <2>6, <2>8, <2>9, <2>10, <1>t, <1>b, <1>x
<1>7. ASSUME RelayNothing(r)  PROVE Buffers /\ Txs /\ Pool
  <2>1. srcMsg' = [srcMsg EXCEPT ![r] = <<>>] /\ UNCHANGED <<newMsg, tx, pool>>
    BY <1>7 DEF RelayNothing
  <2> QED  BY <2>1, <1>t, <1>b, <1>x, <1>e
<1>8. ASSUME ReceiptFound(r)  PROVE Buffers /\ Txs /\ Pool
  <2>1. srcMsg' = [srcMsg EXCEPT ![r] = newMsg[r]] /\ EndRelay(r) /\ pool' = pool
    BY <1>8 DEF ReceiptFound
  <2>2. \A q \in Relays : FromSource(srcMsg'[q])  BY <2>1, <1>t, <1>b
  <2> QED  BY <2>1, <2>2, <1>3, <1>x
<1>9. ASSUME ReceiptGiveUp(r)  PROVE Buffers /\ Txs /\ Pool
  <2>1. srcMsg' = srcMsg /\ EndRelay(r) /\ Abandon(r)  BY <1>9 DEF ReceiptGiveUp
  <2> QED  BY <2>1, <1>3, <1>4, <1>b
<1>10. ASSUME Crash(r)  PROVE Buffers /\ Txs /\ Pool
  <2>1. srcMsg' = [srcMsg EXCEPT ![r] = <<>>] /\ EndRelay(r) /\ Abandon(r)
    BY <1>10 DEF Crash, Stop
  <2>2. \A q \in Relays : FromSource(srcMsg'[q])  BY <2>1, <1>t, <1>b, <1>e
  <2> QED  BY <2>1, <2>2, <1>3, <1>4
<1>11. ASSUME SendError(r)  PROVE Buffers /\ Txs /\ Pool
  <2>1. UNCHANGED <<srcMsg, newMsg, tx>>  BY <1>11 DEF SendError
  <2> QED  BY <2>1, <1>4, <1>11, <1>b, <1>x
<1>12. Buffers /\ Txs /\ Pool
  <2> HIDE DEF Buffers, Txs, Pool
  <2>1. CASE Start(r) \/ Send(r) \/ ReceiptRetry(r) \/ LoseTx(r) \/ FailTx(r)
    BY <2>1, <1>1 DEF Start, Send, ReceiptRetry, LoseTx, FailTx
  <2>2. CASE ReceiveGap(r) \/ RelayGap(r)
    BY <2>2, <1>2 DEF ReceiveGap, RelayGap
  <2> QED  BY <2>1, <2>2, <1>5, <1>6, <1>7, <1>8, <1>9, <1>10, <1>11 DEF RelayStep
<1> QED  BY <1>u, <1>12, RelayFrame

\* The numbers up to q followed by those from q + 1 to l.
LEMMA IntervalConcat ==
    ASSUME NEW q \in Nat, NEW l \in Nat
    PROVE  Interval(1, q) \o Interval(q + 1, l) = Interval(1, IF l > q THEN l ELSE q)
<1> DEFINE m == IF l > q THEN l ELSE q
           A == Interval(1, q)
           B == Interval(q + 1, l)
           C == Interval(1, m)
<1>0. m \in Nat /\ m >= q  OBVIOUS
<1>1. A \in Seq(Nat) /\ B \in Seq(Nat) /\ C \in Seq(Nat)
  BY <1>0, IntervalType
<1>2. /\ DOMAIN A = 1 .. q /\ DOMAIN C = 1 .. m /\ DOMAIN B = 1 .. (l - q)
      /\ \A k \in 1 .. q : A[k] = k
      /\ \A k \in 1 .. m : C[k] = k
      /\ \A k \in 1 .. (l - q) : B[k] = q + k
  <2>1. (q + 1) - 1 = q /\ (m + 1) - 1 = m /\ (l + 1) - (q + 1) = l - q  BY <1>0
  <2>2. A = [k \in 1 .. q |-> (1 + k) - 1] /\ C = [k \in 1 .. m |-> (1 + k) - 1]
        /\ B = [k \in 1 .. (l - q) |-> ((q + 1) + k) - 1]
    BY <2>1 DEF Interval
  <2> HIDE DEF A, B, C, m
  <2> QED  BY <1>0, <2>2
<1> HIDE DEF A, B, C
<1>3. Len(A) = q /\ Len(C) = m /\ Len(B) = m - q
  <2>1. Len(A) \in Nat /\ Len(B) \in Nat /\ Len(C) \in Nat
        /\ DOMAIN A = 1 .. Len(A) /\ DOMAIN B = 1 .. Len(B) /\ DOMAIN C = 1 .. Len(C)
    BY <1>1, LenProperties
  <2>2. \A x, y \in Nat : 1 .. x = 1 .. y => x = y  OBVIOUS
  <2>3. 1 .. (l - q) = 1 .. (m - q) /\ m - q \in Nat  OBVIOUS
  <2> HIDE DEF m
  <2> QED  BY <1>0, <1>2, <2>1, <2>2, <2>3
<1>4. \A k \in 1 .. (m - q) : B[k] = q + k  BY <1>2
<1> HIDE DEF m
<1>5. A \o B \in Seq(Nat) /\ Len(A \o B) = m  BY <1>0, <1>1, <1>3, ConcatProperties
<1>6. ASSUME NEW k \in 1 .. m  PROVE (A \o B)[k] = C[k]
  <2>1. (A \o B)[k] = IF k <= q THEN A[k] ELSE B[k - q]
    <3>1. k \in 1 .. (Len(A) + Len(B))  BY <1>0, <1>3
    <3> QED  BY <1>1, <1>3, <3>1, ConcatProperties
  <2>2. CASE k <= q  BY <2>1, <2>2, <1>0, <1>2
  <2>3. CASE ~ (k <= q)
    <3>1. k - q \in 1 .. (m - q)  BY <1>0, <2>3
    <3>2. B[k - q] = k  BY <1>4, <3>1
    <3> QED  BY <2>1, <2>3, <3>2, <1>2
  <2> QED  BY <2>2, <2>3
<1>7. A \o B = C  BY <1>0, <1>1, <1>3, <1>5, <1>6, SeqEqual
<1> QED  BY <1>7 DEF A, B, C, m

\* What is left of a transaction after its first receipt.
LEMMA TailContinues ==
    ASSUME NEW b \in Batch, b # <<>>, FromSource(b), NEW p, Continues(b, p),
           NEW q \in Nat, b[1].last <= q
    PROVE  Relayable(Tail(b), q)
<1>1. Len(b) \in Nat /\ Len(b) >= 1 /\ DOMAIN b = 1 .. Len(b) /\ 1 \in DOMAIN b
      /\ \A i \in DOMAIN b : b[i].last \in Nat
  BY BatchFields
<1> DEFINE S == Tail(b)
<1>2. S \in Batch /\ Len(S) = Len(b) - 1 /\ \A i \in 1 .. Len(S) : S[i] = b[i + 1]
  BY HeadTailProperties DEF Batch
<1>3. Len(S) \in Nat /\ DOMAIN S = 1 .. Len(S) /\ (S # <<>> => Len(S) >= 1)  BY <1>2, BatchFields
<1> HIDE DEF S
<1>4. \A i \in DOMAIN S : i + 1 \in DOMAIN b /\ S[i] = b[i + 1]  BY <1>1, <1>2, <1>3
<1>5. FromSource(S)  BY <1>4, PartFromSource
<1>6. \A i \in DOMAIN b : i > 1 => b[i].first = b[i - 1].last + 1  BY DEF Continues
<1>7. S # <<>> => S[1].first <= q + 1
  <2> SUFFICES ASSUME S # <<>> PROVE S[1].first <= q + 1  OBVIOUS
  <2>1. 1 \in DOMAIN S  BY <1>3
  <2>2. 2 \in DOMAIN b /\ S[1] = b[2]  BY <2>1, <1>4
  <2>3. b[2].first = b[1].last + 1  BY <2>2, <1>6
  <2> QED  BY <2>2, <2>3, <1>1
<1>8. ASSUME NEW i \in DOMAIN S, i > 1  PROVE S[i].first = S[i - 1].last + 1
  <2>1. i - 1 \in DOMAIN S /\ i \in Nat  BY <1>3, <1>8
  <2>2. S[i] = b[i + 1] /\ S[i - 1] = b[i] /\ i + 1 \in DOMAIN b  BY <1>4, <2>1
  <2>3. b[i + 1].first = b[i].last + 1  BY <1>6, <1>8, <2>1, <2>2
  <2> QED  BY <2>2, <2>3
<1> QED  BY <1>5, <1>7, <1>8 DEF Relayable, Continues, S

\* A step of the destination that leaves the link as it was.
LEMMA ExecFrame ==
    ASSUME LinkInv, TypeOK', ExecSound',
           UNCHANGED <<receipts, srcHeight, srcMsg, newMsg, tx, hist, dispatched>>,
           pool' \subseteq pool
    PROVE  LinkInv'
<1>1. /\ receipts' = receipts /\ srcHeight' = srcHeight /\ hist' = hist
      /\ dispatched' = dispatched
      /\ srcMsg' = srcMsg /\ newMsg' = newMsg /\ tx' = tx
  OBVIOUS
<1>2. CurrentLink' = CurrentLink /\ CurrentHeight' = CurrentHeight
  BY <1>1 DEF CurrentLink, CurrentHeight
<1>3. SourceInOrder' /\ LinkSound(CurrentLink)' /\ HistInOrder' /\ ExactlyOnceInOrder'
  BY <1>1, <1>2 DEF LinkInv, SourceInOrder, LinkSound, HistInOrder, ExactlyOnceInOrder
<1>4. BuffersFromSource'  BY <1>1 DEF LinkInv, BuffersFromSource, FromSource
<1>5. TxsRelayable'
  BY <1>1, <1>2 DEF LinkInv, TxsRelayable, Relayable, FromSource, Continues
<1> QED  BY <1>3, <1>4, <1>5 DEF LinkInv

\* handleRelayMessage keeps the invariant: it drops only receipts whose
\* messages are dispatched, dispatches the others in sequence, and when it
\* raises rxHeight to the height of a receipt, the messages of all receipts
\* before that one are dispatched.
LEMMA ExecKeepsInv ==
    ASSUME LinkInv, TypeOK',
           \/ ExecStep
           \/ exec.state = "idle" /\ \E r \in Relays : ExecTx(r)
           \/ exec.state = "idle" /\ \E b \in pool : LosePooled(b) \/ ExecPooled(b)
    PROVE  LinkInv'
<1> USE DEF srcVars, relayVars, subVars, bufVars, txVars, sentVars, dstVars
<1>t. /\ receipts \in Batch /\ srcHeight \in Nat
      /\ tx \in [Relays -> Batch]
      /\ pool \in SUBSET Batch
      /\ hist \in Seq(Link) /\ hist # <<>>
      /\ CurrentHeight \in Nat /\ CurrentHeight >= 1
      /\ \A h \in 1 .. CurrentHeight : hist[h].rxSeq \in Nat /\ hist[h].rxHeight \in Nat
      /\ CurrentLink.rxSeq \in Nat /\ CurrentLink.rxHeight \in Nat
      /\ exec.todo \in Batch
      /\ exec.link.rxSeq \in Nat /\ exec.link.rxHeight \in Nat
  BY LinkInvTypes
<1>f. exec \in [state : {"idle", "running"}, by : Relays \cup {NoRelay},
                todo : Batch, link : Link, out : Seq(Nat)]
  BY DEF LinkInv, TypeOK
<1>i. /\ LinkSound(CurrentLink) /\ ExactlyOnceInOrder /\ SourceInOrder
      /\ \A r \in Relays : Relayable(tx[r], CurrentLink.rxSeq)
      /\ \A b \in pool : Relayable(b, CurrentLink.rxSeq)
  BY DEF LinkInv, TxsRelayable
<1>0. ASSUME NEW by, NEW b, BeginExec(by, b), Relayable(b, CurrentLink.rxSeq),
             UNCHANGED <<receipts, srcHeight, hist>>
      PROVE  ExecSound'
  <2>1. /\ exec'.todo = b /\ exec'.link = CurrentLink /\ exec'.out = dispatched
    BY <1>0 DEF BeginExec
  <2>2. CurrentLink' = CurrentLink  BY <1>0 DEF CurrentLink, CurrentHeight
  <2>3. /\ Relayable(exec.todo, exec.link.rxSeq)' /\ LinkSound(exec.link)'
    BY <1>0, <2>1, <1>i DEF Relayable, FromSource, Continues, LinkSound
  <2>4. exec'.out = Interval(1, exec'.link.rxSeq)  BY <2>1, <1>i DEF ExactlyOnceInOrder
  <2>5. /\ exec'.link.rxSeq >= CurrentLink'.rxSeq
        /\ exec'.link.rxHeight >= CurrentLink'.rxHeight
    BY <2>1, <2>2, <1>t
  <2> QED  BY <2>3, <2>4, <2>5 DEF ExecSound
<1>1. ASSUME NEW r \in Relays, ExecTx(r)  PROVE LinkInv'
  <2>1. ExecSound'  BY <1>0, <1>1, <1>i DEF ExecTx
  <2> QED  BY <1>1, <2>1, ExecFrame DEF ExecTx
<1>2. ASSUME NEW b \in pool, ExecPooled(b)  PROVE LinkInv'
  <2>1. ExecSound'  BY <1>0, <1>2, <1>i DEF ExecPooled
  <2> QED  BY <1>2, <2>1, ExecFrame DEF ExecPooled
<1>3. ASSUME NEW b \in pool, LosePooled(b), exec.state = "idle"  PROVE LinkInv'
  <2>1. ExecSound'  BY <1>3 DEF LosePooled, ExecSound
  <2> QED  BY <1>3, <2>1, ExecFrame DEF LosePooled
<1>r. ASSUME exec.state = "running"
      PROVE  /\ FromSource(exec.todo) /\ Continues(exec.todo, exec.link.rxSeq)
             /\ LinkSound(exec.link)
             /\ exec.link.rxSeq >= CurrentLink.rxSeq
             /\ exec.link.rxHeight >= CurrentLink.rxHeight
             /\ exec.out = Interval(1, exec.link.rxSeq)
  BY <1>r DEF LinkInv, ExecSound, Relayable
<1> DEFINE rc == Head(exec.todo)
           seq == exec.link.rxSeq
<1>h. ASSUME exec.state = "running", exec.todo # <<>>
      PROVE  /\ rc = exec.todo[1]
             /\ rc.first \in Nat /\ rc.last \in Nat /\ rc.height \in Nat
             /\ \E j \in DOMAIN receipts : /\ rc.height = receipts[j].height
                                            /\ receipts[j].first <= rc.first
                                            /\ rc.last <= receipts[j].last
  <2>1. 1 \in DOMAIN exec.todo /\ rc = exec.todo[1]  BY <1>h, <1>t, BatchFields
  <2> QED  BY <1>h, <1>r, <1>t, <2>1, BatchFields DEF FromSource
<1>s. \A j \in DOMAIN receipts : /\ receipts[j].first \in Nat
                                 /\ receipts[j].last \in Nat
                                 /\ receipts[j].height \in Nat
                                 /\ j \in Nat
  BY <1>t, BatchFields
<1>4. ASSUME HandleOldReceipt  PROVE LinkInv'
  <2>1. /\ exec.state = "running" /\ exec.todo # <<>> /\ rc.height < exec.link.rxHeight
        /\ exec' = [exec EXCEPT !.todo = Tail(exec.todo)]
        /\ UNCHANGED <<receipts, srcHeight, srcMsg, newMsg, tx, pool, hist, dispatched>>
    BY <1>4 DEF HandleOldReceipt
  <2>2. PICK j \in DOMAIN receipts : rc.height = receipts[j].height /\ rc.last <= receipts[j].last
    BY <1>h, <2>1
  <2>3. receipts[j].last > seq => receipts[j].height >= exec.link.rxHeight
    BY <1>r, <2>1 DEF LinkSound
  <2>4. rc.last <= seq
    <3> HIDE DEF rc, seq
    <3>1. seq \in Nat /\ exec.link.rxHeight \in Nat  BY <1>t DEF seq
    <3>2. rc.last \in Nat /\ rc.height \in Nat  BY <1>h, <2>1
    <3>3. receipts[j].last \in Nat /\ receipts[j].height \in Nat  BY <1>s
    <3>4. rc.height < exec.link.rxHeight  BY <2>1
    <3>5. ~ (receipts[j].last > seq)  BY <2>2, <2>3, <3>1, <3>2, <3>3, <3>4
    <3> QED  BY <2>2, <3>1, <3>2, <3>3, <3>5
  <2>5. Relayable(Tail(exec.todo), seq)
    BY <1>t, <2>1, <2>4, <1>r, <1>h, TailContinues
  <2>6. exec'.todo = Tail(exec.todo) /\ exec'.link = exec.link /\ exec'.out = exec.out
    BY <1>f, <2>1
  <2>7. CurrentLink' = CurrentLink  BY <2>1 DEF CurrentLink, CurrentHeight
  <2>8. Relayable(exec.todo, exec.link.rxSeq)' /\ LinkSound(exec.link)'
    BY <2>1, <2>5, <2>6, <1>r DEF Relayable, FromSource, Continues, LinkSound
  <2>9. ExecSound'  BY <2>1, <2>6, <2>7, <2>8, <1>r DEF ExecSound
  <2> QED  BY <2>1, <2>9, ExecFrame
<1>5. ASSUME HandleReceipt  PROVE LinkInv'
  <2> DEFINE top == IF rc.last > seq THEN rc.last ELSE seq
             lnk == [rxHeight |-> rc.height, rxSeq |-> top]
  <2>1. /\ exec.state = "running" /\ exec.todo # <<>>
        /\ rc.height >= exec.link.rxHeight /\ rc.first <= seq + 1
        /\ exec' = [exec EXCEPT !.todo = Tail(exec.todo), !.link = lnk,
                                !.out = exec.out \o Interval(FirstNew(rc, seq), rc.last)]
        /\ UNCHANGED <<receipts, srcHeight, srcMsg, newMsg, tx, pool, hist, dispatched>>
    BY <1>5 DEF HandleReceipt
  <2>2. /\ exec'.todo = Tail(exec.todo) /\ exec'.link.rxHeight = rc.height
        /\ exec'.link.rxSeq = top
        /\ exec'.out = exec.out \o Interval(FirstNew(rc, seq), rc.last)
    BY <1>f, <2>1
  <2>3. PICK j \in DOMAIN receipts : /\ rc.height = receipts[j].height
                                     /\ receipts[j].first <= rc.first
                                     /\ rc.last <= receipts[j].last
    BY <1>h, <2>1
  <2>4. seq \in Nat /\ rc.first \in Nat /\ rc.last \in Nat /\ rc.height \in Nat
    BY <1>t, <1>h, <2>1
  <2>5. Relayable(Tail(exec.todo), top)
    <3>1. exec.todo[1].last <= top /\ top \in Nat
      <4>1. rc = exec.todo[1]  BY <1>h, <2>1
      <4> HIDE DEF rc, seq
      <4> QED  BY <4>1, <2>4
    <3> HIDE DEF top
    <3> QED  BY <1>t, <2>1, <3>1, <1>r, TailContinues
  <2> HIDE DEF rc, seq
  <2>6. FirstNew(rc, seq) = seq + 1  BY <2>1, <2>4 DEF FirstNew
  <2>7. exec'.out = Interval(1, top)
    <3>1. exec.out = Interval(1, seq)  BY <1>r, <2>1 DEF seq
    <3> QED  BY <3>1, <2>2, <2>4, <2>6, IntervalConcat
  <2>8. top >= seq /\ top \in Nat  BY <2>4
  <2> HIDE DEF top
  <2>9. rc.height <= srcHeight  BY <2>3, <1>i DEF SourceInOrder
  <2>10. ASSUME NEW i \in DOMAIN receipts, receipts[i].last > top
         PROVE  receipts[i].height >= rc.height
    <3>1. CASE i < j
      <4>1. receipts[i].last < receipts[j].first  BY <3>1, <1>i DEF SourceInOrder
      <4>2. receipts[i].last <= seq  BY <4>1, <2>1, <2>3, <2>4, <1>s
      <4> QED  BY <4>2, <2>8, <2>10, <2>4, <1>s
    <3>2. CASE i = j  BY <3>2, <2>3, <1>s
    <3>3. CASE j < i
      <4>1. receipts[j].height <= receipts[i].height  BY <3>3, <1>i DEF SourceInOrder
      <4> QED  BY <4>1, <2>3, <1>s
    <3> QED  BY <3>1, <3>2, <3>3, <1>s
  <2>11. CurrentLink' = CurrentLink  BY <2>1 DEF CurrentLink, CurrentHeight
  <2>12. Relayable(exec.todo, exec.link.rxSeq)'
    BY ZenonT(40), <2>1, <2>2, <2>5 DEF Relayable, FromSource, Continues
  <2>13. LinkSound(exec.link)'  BY <2>1, <2>2, <2>9, <2>10 DEF LinkSound
  <2>14. top >= CurrentLink.rxSeq /\ rc.height >= CurrentLink.rxHeight
    <3>1. seq >= CurrentLink.rxSeq /\ exec.link.rxHeight >= CurrentLink.rxHeight
      BY <2>1, <1>r DEF seq
    <3> QED  BY SMTT(20), <3>1, <2>1, <2>4, <2>8, <1>t
  <2>15. ExecSound'  BY <2>2, <2>7, <2>11, <2>12, <2>13, <2>14 DEF ExecSound
  <2> QED  BY <2>1, <2>15, ExecFrame
<1>6. ASSUME HandleRevert  PROVE LinkInv'
  <2>1. ExecSound'  BY <1>6 DEF HandleRevert, IdleExec, ExecSound
  <2> QED  BY <1>6, <2>1, ExecFrame DEF HandleRevert
<1>7. ASSUME Commit  PROVE LinkInv'
  <2> DEFINE L == exec.link
  <2>1. /\ exec.state = "running" /\ exec' = IdleExec
        /\ hist' = IF L = CurrentLink THEN hist ELSE Append(hist, L)
        /\ dispatched' = exec.out
        /\ UNCHANGED <<receipts, srcHeight, srcMsg, newMsg, tx, pool>>
    BY <1>7 DEF Commit
  <2>2. /\ LinkSound(L) /\ exec.out = Interval(1, L.rxSeq) /\ L \in Link
        /\ L.rxSeq >= CurrentLink.rxSeq /\ L.rxHeight >= CurrentLink.rxHeight
        /\ L.rxSeq \in Nat /\ L.rxHeight \in Nat
    BY <2>1, <1>r, <1>t, <1>f
  <2> HIDE DEF L
  <2>3. DOMAIN hist = 1 .. CurrentHeight /\ Len(hist) = CurrentHeight
    BY <1>t, LenProperties DEF CurrentHeight
  <2>4. /\ CurrentLink' = L
        /\ \A h \in DOMAIN hist' : hist'[h] = L \/ \E g \in DOMAIN hist : hist'[h] = hist[g]
    <3>1. CASE L = CurrentLink
      <4>1. hist' = hist  BY <2>1, <3>1
      <4> QED  BY <3>1, <4>1 DEF CurrentLink, CurrentHeight
    <3>2. CASE L # CurrentLink
      <4>1. hist' = Append(hist, L)  BY <2>1, <3>2
      <4>2. /\ Append(hist, L) \in Seq(Link)
            /\ Len(Append(hist, L)) = CurrentHeight + 1
            /\ Append(hist, L)[CurrentHeight + 1] = L
            /\ \A h \in 1 .. CurrentHeight : Append(hist, L)[h] = hist[h]
        BY <1>t, <2>2, <2>3, AppendProperties
      <4>3. DOMAIN hist' = 1 .. (CurrentHeight + 1)  BY <4>1, <4>2, LenProperties
      <4>4. \A h \in 1 .. (CurrentHeight + 1) : h \in 1 .. CurrentHeight \/ h = CurrentHeight + 1
        BY <1>t
      <4>5. CurrentLink' = L  BY <4>1, <4>2 DEF CurrentLink, CurrentHeight
      <4> QED  BY <2>3, <4>1, <4>2, <4>3, <4>4, <4>5
    <3> QED  BY <3>1, <3>2
  <2>5. HistInOrder'
    <3>1. ASSUME NEW g \in DOMAIN hist
          PROVE  hist[g].rxSeq <= L.rxSeq /\ hist[g].rxHeight <= L.rxHeight
      <4>1. hist[g].rxSeq <= CurrentLink.rxSeq /\ hist[g].rxHeight <= CurrentLink.rxHeight
        BY DEF LinkInv, HistInOrder
      <4> QED  BY <4>1, <1>t, <2>2, <2>3
    <3>2. L.rxSeq <= L.rxSeq /\ L.rxHeight <= L.rxHeight  BY <2>2
    <3> QED  BY <2>4, <3>1, <3>2 DEF HistInOrder
  <2>6. ASSUME NEW b \in Batch, Relayable(b, CurrentLink.rxSeq)  PROVE Relayable(b, L.rxSeq)
    BY <2>6, <1>t, <2>2, ContinuesLater
  <2>7. TxsRelayable'
    <3>1. /\ \A r \in Relays : Relayable(tx[r], L.rxSeq)
          /\ \A b \in pool : Relayable(b, L.rxSeq)
      BY <1>t, <1>i, <2>6
    <3> QED  BY <2>1, <2>4, <3>1 DEF TxsRelayable, Relayable, FromSource, Continues
  <2>8. BuffersFromSource'  BY <2>1 DEF LinkInv, BuffersFromSource, FromSource
  <2>9. SourceInOrder' /\ LinkSound(CurrentLink)'
    BY <1>i, <2>1, <2>2, <2>4 DEF SourceInOrder, LinkSound
  <2>10. ExactlyOnceInOrder'  BY <2>1, <2>2, <2>4 DEF ExactlyOnceInOrder
  <2>11. ExecSound'  BY <2>1 DEF ExecSound, IdleExec
  <2> QED  BY <2>5, <2>7, <2>8, <2>9, <2>10, <2>11 DEF LinkInv
<1> QED  BY <1>1, <1>2, <1>3, <1>4, <1>5, <1>6, <1>7 DEF ExecStep

\* A new link with no relay started satisfies the invariant.
LEMMA LinkInvInit == Init => LinkInv
<1> SUFFICES ASSUME Init PROVE LinkInv  OBVIOUS
<1>1. TypeOK  BY TypeInit
<1>2. receipts = <<>> /\ srcHeight = 1 /\ hist = <<[rxSeq |-> 0, rxHeight |-> 0]>>
      /\ exec = IdleExec /\ dispatched = <<>> /\ pool = {}
  BY DEF Init
<1>3. CurrentLink = [rxSeq |-> 0, rxHeight |-> 0]  BY <1>2 DEF CurrentLink, CurrentHeight
<1>4. SourceInOrder /\ LinkSound(CurrentLink)  BY <1>2, <1>3 DEF SourceInOrder, LinkSound
<1>5. HistInOrder  BY <1>2, <1>3 DEF HistInOrder
<1>6. ExecSound  BY <1>2 DEF ExecSound, IdleExec
<1>7. Interval(1, 0) = <<>>
  <2>1. (0 + 1) - 1 = 0  OBVIOUS
  <2>2. Interval(1, 0) = [k \in 1 .. 0 |-> (1 + k) - 1]  BY <2>1 DEF Interval
  <2> QED  BY <2>2
<1>8. ExactlyOnceInOrder  BY <1>2, <1>3, <1>7 DEF ExactlyOnceInOrder
<1>9. BuffersFromSource  BY EmptyRelayable DEF Init, BuffersFromSource
<1>10. TxsRelayable  BY EmptyRelayable DEF Init, TxsRelayable
<1> QED  BY <1>1, <1>4, <1>5, <1>6, <1>8, <1>9, <1>10 DEF LinkInv

\* Every step of the source, the relays and the destination keeps the invariant.
LEMMA LinkInvStep == LinkInv /\ [Next]_vars => LinkInv'
<1> SUFFICES ASSUME LinkInv, [Next]_vars PROVE LinkInv'  OBVIOUS
<1>1. TypeOK'  BY TypeStep DEF LinkInv
<1>2. CASE UNCHANGED vars
  <2>1. /\ UNCHANGED <<receipts, srcHeight, srcMsg, newMsg, tx, hist, dispatched>>
        /\ exec' = exec /\ pool' = pool
    BY <1>2 DEF vars, srcVars, relayVars, bufVars, txVars, dstVars
  <2>2. ExecSound'
    BY <2>1 DEF LinkInv, ExecSound, Relayable, FromSource, Continues, LinkSound,
                CurrentLink, CurrentHeight
  <2> QED  BY <1>1, <2>1, <2>2, ExecFrame
<1>3. CASE Next
  BY <1>1, <1>3, SourceKeepsInv, RelayKeepsInv, ExecKeepsInv DEF Next
<1> QED  BY <1>2, <1>3

\* The inductive invariant of the link: the receipts of the source are in
\* order, all that travels is cut out of them and continues the link, and the
\* link has not passed a message that is still to be dispatched.
THEOREM LinkInvariant == Spec => []LinkInv
  BY LinkInvInit, LinkInvStep, PTL DEF Spec

-----------------------------------------------------------------------------
\* What follows from the invariant.

\* handleRelayMessage dispatches every message once and in order, whatever
\* the relays send and however often and late.
THEOREM ExactlyOnce == Spec => []ExactlyOnceInOrder
<1>1. LinkInv => ExactlyOnceInOrder  BY DEF LinkInv
<1> QED  BY <1>1, LinkInvariant, PTL

\* rxHeight of the link never passes the block of a message that is still to
\* be dispatched.
THEOREM NoneSkipped == Spec => []NothingSkipped
<1>1. LinkInv => NothingSkipped  BY DEF LinkInv, LinkSound, NothingSkipped
<1> QED  BY <1>1, LinkInvariant, PTL

\* BMCRevertInvalidSeqNumber never happens to what relay.Start sends.
THEOREM SeqNumbersValid == Spec => []NoInvalidSeqNumber
<1>1. LinkInv => NoInvalidSeqNumber
  BY DEF LinkInv, ExecSound, Relayable, Continues, NoInvalidSeqNumber
<1> QED  BY <1>1, LinkInvariant, PTL

\* A step that changes the link is the end of a transaction, and it moves the
\* link forward.
LEMMA LinkMonotonicStep ==
    ASSUME LinkInv, [Next]_vars
    PROVE  /\ CurrentLink'.rxSeq >= CurrentLink.rxSeq
           /\ CurrentLink'.rxHeight >= CurrentLink.rxHeight
<1> USE DEF vars, dstVars
<1>t. CurrentLink.rxSeq \in Nat /\ CurrentLink.rxHeight \in Nat  BY LinkInvTypes
<1>1. CASE hist' = hist
  <2>1. CurrentLink' = CurrentLink  BY <1>1 DEF CurrentLink, CurrentHeight
  <2> QED  BY <2>1, <1>t
<1>2. CASE hist' # hist
  <2>1. Commit
    <3>1. Next  BY <1>2
    <3>2. ASSUME NEW r \in Relays  PROVE ~ RelayStep(r) /\ ~ LoseTx(r) /\ ~ FailTx(r) /\ ~ ExecTx(r)
      BY <1>2 DEF RelayStep, Start, ReceiveBlock, ReceiveGap, Relay, RelayNothing, RelayGap,
                  Send, SendError, ReceiptFound, ReceiptRetry, ReceiptGiveUp, Crash, LoseTx, FailTx, ExecTx
    <3>3. ASSUME NEW b \in pool  PROVE ~ LosePooled(b) /\ ~ ExecPooled(b)
      BY <1>2 DEF LosePooled, ExecPooled
    <3>4. ~ SourceStep  BY <1>2 DEF SourceStep, SendMessage, SendMessageAgain, NewBlock
    <3>5. ~ HandleOldReceipt /\ ~ HandleReceipt /\ ~ HandleRevert
      BY <1>2 DEF HandleOldReceipt, HandleReceipt, HandleRevert
    <3> QED  BY <3>1, <3>2, <3>3, <3>4, <3>5 DEF Next, ExecStep
  <2>2. exec.state = "running" /\ hist' = Append(hist, exec.link)  BY <1>2, <2>1 DEF Commit
  <2>3. hist \in Seq(Link) /\ exec.link \in Link  BY DEF LinkInv, TypeOK
  <2>4. CurrentLink' = exec.link
    BY <2>2, <2>3, AppendProperties DEF CurrentLink, CurrentHeight
  <2> QED  BY <2>2, <2>4 DEF LinkInv, ExecSound
<1> QED  BY <1>1, <1>2

\* A late, repeated or overtaken transaction never turns rxSeq or rxHeight of
\* the link back.
THEOREM LinkOnlyAdvances == Spec => LinkMonotonic
<1>1. LinkInv /\ [Next]_vars
        => [ /\ CurrentLink'.rxSeq >= CurrentLink.rxSeq
             /\ CurrentLink'.rxHeight >= CurrentLink.rxHeight ]_vars
  BY LinkMonotonicStep
<1> QED  BY <1>1, LinkInvariant, PTL DEF Spec, LinkMonotonic

-----------------------------------------------------------------------------
\* Buffers in order.

\* A set of positions with all the positions before each of them is an
\* interval, and as long as it has elements.
LEMMA PrefixCount ==
    ASSUME NEW N \in Nat, NEW D, D \subseteq 1 .. N,
           \A i \in D : \A k \in 1 .. N : k < i => k \in D
    PROVE  Cardinality(D) \in Nat /\ D = 1 .. Cardinality(D)
<1>1. ASSUME NEW u \in Nat, D = 1 .. u
      PROVE  Cardinality(D) = u
  <2>1. Cardinality(1 .. u) = IF 1 > u THEN 0 ELSE u - 1 + 1  BY FS_Interval
  <2> QED  BY <1>1, <2>1
<1>2. CASE D = 1 .. N  BY <1>1, <1>2
<1>3. CASE D # 1 .. N
  <2> DEFINE U == 1 .. N \ D
  <2>1. U # {} /\ U \subseteq Nat
    <3>1. \E k \in 1 .. N : k \notin D  BY <1>3
    <3> QED  BY <3>1
  <2>2. PICK x \in U : \A y \in U : <<y, x>> \notin OpToRel(<, Nat)
    <3> HIDE DEF U
    <3> QED  BY <2>1, NatLessThanWellFounded, WFMin
  <2>3. \A y \in U : ~ (y < x)  BY <2>1, <2>2 DEF OpToRel
  <2>4. x - 1 \in Nat /\ x \in Nat  OBVIOUS
  <2>5. ASSUME NEW k \in 1 .. (x - 1)  PROVE k \in D
    <3>1. k \in 1 .. N /\ k < x  OBVIOUS
    <3> QED  BY <2>3, <3>1
  <2>6. ASSUME NEW k \in D  PROVE k \in 1 .. (x - 1)
    <3>1. k \in 1 .. N /\ ~ (x < k) /\ k # x  OBVIOUS
    <3> QED  BY <2>4, <3>1
  <2>7. D = 1 .. (x - 1)  BY <2>5, <2>6
  <2> QED  BY <1>1, <2>4, <2>7
<1> QED  BY <1>2, <1>3

\* What filterSrcMsg drops of a buffer in order is its beginning, and of the
\* events above rxSeq only those of receipts below rxHeight.
LEMMA FilterInOrder ==
    ASSUME NEW b \in Batch, InOrder(b), NEW h \in Nat, NEW q \in Nat
    PROVE  /\ InOrder(Filter(b, h, q))
           /\ \A i \in DOMAIN Filter(b, h, q) : Filter(b, h, q)[i].first > q
           /\ \A s \in Nat : s > q /\ Holds(b, s) =>
                \/ Holds(Filter(b, h, q), s)
                \/ \E i \in DOMAIN b : b[i].height < h /\ s \in Events(b[i])
<1> DEFINE D == {i \in DOMAIN b : b[i].height < h \/ b[i].last <= q}
           n == Cardinality(D)
           C(rc) == [rc EXCEPT !.first = IF @ > q THEN @ ELSE q + 1]
           F == [i \in 1 .. (Len(b) - n) |-> C(b[i + n])]
<1>1. /\ Len(b) \in Nat /\ DOMAIN b = 1 .. Len(b)
      /\ \A i \in DOMAIN b : /\ b[i] \in Receipt /\ b[i].height \in Nat
                             /\ b[i].first \in Nat /\ b[i].last \in Nat
  BY BatchFields
<1>2. /\ \A i \in DOMAIN b : b[i].first <= b[i].last
      /\ \A i, j \in DOMAIN b : i < j => b[i].last < b[j].first /\ b[i].height <= b[j].height
  BY DEF InOrder
<1>3. n \in Nat /\ D = 1 .. n
  <2>1. ASSUME NEW i \in D, NEW k \in 1 .. Len(b), k < i  PROVE k \in D
    <3>1. i \in DOMAIN b /\ k \in DOMAIN b  BY <1>1
    <3>2. /\ b[k].last < b[i].first /\ b[k].height <= b[i].height /\ b[i].first <= b[i].last
      BY <2>1, <3>1, <1>2
    <3>3. /\ b[k].last \in Nat /\ b[i].first \in Nat /\ b[i].last \in Nat
          /\ b[k].height \in Nat /\ b[i].height \in Nat
      BY <3>1, <1>1
    <3>4. b[i].height < h \/ b[i].last <= q  OBVIOUS
    <3>5. b[k].height < h \/ b[k].last <= q  BY SMTT(20), <3>2, <3>3, <3>4
    <3> QED  BY <3>1, <3>5
  <2>2. D \subseteq 1 .. Len(b)  BY <1>1
  <2> HIDE DEF D
  <2> QED  BY <1>1, <2>1, <2>2, PrefixCount
<1>4. Filter(b, h, q) = F  BY DEF Filter
<1>5. \A rc \in Receipt : /\ C(rc).height = rc.height /\ C(rc).last = rc.last
                          /\ C(rc).first = IF rc.first > q THEN rc.first ELSE q + 1
  BY DEF Receipt
<1>6. \A i \in DOMAIN b : i <= n <=> b[i].height < h \/ b[i].last <= q
  BY <1>1, <1>3
<1> HIDE DEF n, C
<1>7. ASSUME NEW i \in DOMAIN F
      PROVE  /\ i \in Nat /\ i >= 1 /\ i + n \in DOMAIN b
             /\ F[i].height = b[i + n].height /\ F[i].last = b[i + n].last
             /\ F[i].first = IF b[i + n].first > q THEN b[i + n].first ELSE q + 1
             /\ b[i + n].last > q
  <2>1. i \in 1 .. (Len(b) - n) /\ F[i] = C(b[i + n])  OBVIOUS
  <2>2. i \in Nat /\ i >= 1 /\ i + n \in DOMAIN b /\ ~ (i + n <= n)  BY <2>1, <1>1, <1>3
  <2>3. b[i + n] \in Receipt /\ b[i + n].last \in Nat  BY <2>2, <1>1
  <2>4. ~ (b[i + n].last <= q)  BY <2>2, <1>6
  <2> QED  BY <2>1, <2>2, <2>3, <2>4, <1>5
<1>8. DOMAIN F = 1 .. (Len(b) - n)  OBVIOUS
<1> HIDE DEF F
<1>9. ASSUME NEW i \in DOMAIN F  PROVE F[i].first <= F[i].last /\ F[i].first > q
  <2>1. b[i + n].first \in Nat /\ b[i + n].last \in Nat /\ b[i + n].first <= b[i + n].last
    BY <1>1, <1>2, <1>7
  <2>2. /\ F[i].last = b[i + n].last /\ b[i + n].last > q
        /\ F[i].first = IF b[i + n].first > q THEN b[i + n].first ELSE q + 1
    BY <1>7
  <2> QED  BY <2>1, <2>2
<1>10. ASSUME NEW i \in DOMAIN F, NEW j \in DOMAIN F, i < j
       PROVE  F[i].last < F[j].first /\ F[i].height <= F[j].height
  <2>1. /\ i + n \in DOMAIN b /\ j + n \in DOMAIN b /\ i + n < j + n
    BY <1>3, <1>7, <1>10
  <2>2. b[i + n].last < b[j + n].first /\ b[i + n].height <= b[j + n].height  BY <2>1, <1>2
  <2>3. b[i + n].last \in Nat /\ b[j + n].first \in Nat  BY <2>1, <1>1
  <2>4. F[j].first >= b[j + n].first
    <3>1. F[j].first = IF b[j + n].first > q THEN b[j + n].first ELSE q + 1  BY <1>7
    <3> QED  BY <3>1, <2>3
  <2>5. F[j].first \in Nat
    <3>1. F[j].first = IF b[j + n].first > q THEN b[j + n].first ELSE q + 1  BY <1>7
    <3> QED  BY <3>1, <2>3
  <2>6. F[i].last = b[i + n].last /\ F[i].height = b[i + n].height /\ F[j].height = b[j + n].height
    BY <1>7
  <2> QED  BY <2>2, <2>3, <2>4, <2>5, <2>6
<1>11. ASSUME NEW s \in Nat, s > q, NEW k \in DOMAIN b, s \in Events(b[k]), ~ (b[k].height < h)
       PROVE  Holds(F, s)
  <2>1. b[k].first <= s /\ s <= b[k].last /\ b[k].first \in Nat /\ b[k].last \in Nat /\ k \in Nat
    BY <1>11, <1>1 DEF Events
  <2>2. ~ (b[k].last <= q)  BY <2>1, <1>11
  <2>3. ~ (k <= n)  BY <2>2, <1>6, <1>11
  <2>4. k - n \in 1 .. (Len(b) - n) /\ (k - n) + n = k  BY <2>1, <2>3, <1>1, <1>3
  <2>5. k - n \in DOMAIN F  BY <2>4, <1>8
  <2>6. /\ F[k - n].last = b[k].last
        /\ F[k - n].first = IF b[k].first > q THEN b[k].first ELSE q + 1
    BY <2>4, <2>5, <1>7
  <2>7. s \in F[k - n].first .. F[k - n].last  BY <2>1, <2>6, <1>11
  <2> QED  BY <2>5, <2>7 DEF Holds, Events
<1>12. ASSUME NEW s \in Nat, s > q, Holds(b, s)
       PROVE  Holds(F, s) \/ \E i \in DOMAIN b : b[i].height < h /\ s \in Events(b[i])
  <2>1. PICK k \in DOMAIN b : s \in Events(b[k])  BY <1>12 DEF Holds
  <2> QED  BY <2>1, <1>11, <1>12
<1>13. InOrder(F)  BY <1>9, <1>10 DEF InOrder
<1> QED  BY <1>4, <1>9, <1>12, <1>13

\* The receipts of block h are those of height h, in order.
LEMMA BlockInOrder ==
    ASSUME receipts \in Batch, SourceInOrder, NEW h \in Nat
    PROVE  /\ InOrder(BlockReceipts(h))
           /\ \A i \in DOMAIN BlockReceipts(h) : BlockReceipts(h)[i].height = h
<1> DEFINE L == {i \in DOMAIN receipts : receipts[i].height < h}
           H == {i \in DOMAIN receipts : receipts[i].height <= h}
           lo == Cardinality(L)
           hi == Cardinality(H)
           B == SubSeq(receipts, lo + 1, hi)
<1>1. /\ Len(receipts) \in Nat /\ DOMAIN receipts = 1 .. Len(receipts)
      /\ \A i \in DOMAIN receipts : /\ receipts[i].height \in Nat
                                     /\ receipts[i].first \in Nat /\ receipts[i].last \in Nat
  BY BatchFields
<1>2. /\ \A i \in DOMAIN receipts : receipts[i].first <= receipts[i].last
      /\ \A i, j \in DOMAIN receipts : i < j => /\ receipts[i].last < receipts[j].first
                                                 /\ receipts[i].height <= receipts[j].height
  BY DEF SourceInOrder
<1>3. lo \in Nat /\ L = 1 .. lo
  <2>1. ASSUME NEW i \in L, NEW k \in 1 .. Len(receipts), k < i  PROVE k \in L
    <3>1. receipts[k].height <= receipts[i].height  BY <2>1, <1>1, <1>2
    <3> QED  BY <3>1, <1>1
  <2>2. L \subseteq 1 .. Len(receipts)  BY <1>1
  <2> HIDE DEF L
  <2> QED  BY <1>1, <2>1, <2>2, PrefixCount
<1>4. hi \in Nat /\ H = 1 .. hi
  <2>1. ASSUME NEW i \in H, NEW k \in 1 .. Len(receipts), k < i  PROVE k \in H
    <3>1. receipts[k].height <= receipts[i].height  BY <2>1, <1>1, <1>2
    <3> QED  BY <3>1, <1>1
  <2>2. H \subseteq 1 .. Len(receipts)  BY <1>1
  <2> HIDE DEF H
  <2> QED  BY <1>1, <2>1, <2>2, PrefixCount
<1>5. BlockReceipts(h) = B  BY DEF BlockReceipts
<1>6. \A i \in DOMAIN receipts : /\ i <= lo <=> receipts[i].height < h
                                 /\ i <= hi <=> receipts[i].height <= h
  BY <1>1, <1>3, <1>4
<1>7. hi <= Len(receipts)
  <2>1. receipts \in Seq(Receipt) /\ H \subseteq DOMAIN receipts  BY DEF Batch
  <2> HIDE DEF H
  <2> QED  BY <2>1, CountPositions
<1> HIDE DEF lo, hi
<1>8. /\ B \in Batch
      /\ Len(B) = IF lo + 1 <= hi THEN hi - (lo + 1) + 1 ELSE 0
      /\ \A i \in DOMAIN B : /\ i \in Nat /\ i >= 1 /\ (lo + 1) + i - 1 \in DOMAIN receipts
                             /\ B[i] = receipts[(lo + 1) + i - 1]
  <2>1. lo + 1 \in Nat /\ lo + 1 >= 1  BY <1>3
  <2> QED  BY <2>1, <1>4, <1>7, SubSeqPiece
<1>9. Len(B) \in Nat /\ DOMAIN B = 1 .. Len(B)  BY <1>8, BatchFields
<1> HIDE DEF B
<1>10. ASSUME NEW i \in DOMAIN B
       PROVE  /\ i \in Nat /\ lo + i \in DOMAIN receipts /\ B[i] = receipts[lo + i]
              /\ B[i].height = h
  <2>1. i \in Nat /\ i >= 1 /\ (lo + 1) + i - 1 = lo + i /\ i <= Len(B)  BY <1>3, <1>8, <1>9
  <2>2. lo + i \in DOMAIN receipts /\ B[i] = receipts[lo + i]  BY <2>1, <1>8
  <2>3. lo + i <= hi /\ ~ (lo + i <= lo)  BY <2>1, <1>3, <1>4, <1>8
  <2>4. receipts[lo + i].height <= h /\ ~ (receipts[lo + i].height < h)  BY <2>2, <2>3, <1>6
  <2>5. receipts[lo + i].height \in Nat  BY <2>2, <1>1
  <2> QED  BY <2>1, <2>2, <2>4, <2>5
<1>11. InOrder(B)
  <2>1. \A i \in DOMAIN B : B[i].first <= B[i].last  BY <1>2, <1>10
  <2>2. ASSUME NEW i \in DOMAIN B, NEW j \in DOMAIN B, i < j
        PROVE  B[i].last < B[j].first /\ B[i].height <= B[j].height
    <3>1. lo + i < lo + j  BY <2>2, <1>3, <1>10
    <3> QED  BY <3>1, <1>2, <1>10
  <2> QED  BY <2>1, <2>2 DEF InOrder
<1> QED  BY <1>5, <1>10, <1>11

\* Receipts without a gap after rxSeq hold every event from rxSeq + 1 to
\* their last.
LEMMA NoGapHolds ==
    ASSUME NEW b \in Batch, NEW q \in Nat, ~ Gap(b, q), InOrder(b), b # <<>>,
           NEW s \in (q + 1) .. b[Len(b)].last
    PROVE  Holds(b, s)
<1>1. /\ Len(b) \in Nat /\ DOMAIN b = 1 .. Len(b) /\ Len(b) >= 1
      /\ \A i \in DOMAIN b : b[i].first \in Nat /\ b[i].last \in Nat
  BY BatchFields
<1>2. \A i \in DOMAIN b : b[i].first = (IF i = 1 THEN q ELSE b[i - 1].last) + 1
  BY DEF Gap
<1> DEFINE T == {i \in DOMAIN b : s <= b[i].last}
<1>3. Len(b) \in T /\ T \subseteq Nat  BY <1>1
<1>4. PICK k \in T : \A y \in T : <<y, k>> \notin OpToRel(<, Nat)
  <2> HIDE DEF T
  <2> QED  BY <1>3, NatLessThanWellFounded, WFMin
<1>5. \A y \in T : ~ (y < k)  BY <1>3, <1>4 DEF OpToRel
<1>6. k \in DOMAIN b /\ s <= b[k].last /\ k \in Nat /\ k >= 1 /\ s \in Nat  BY <1>1
<1>7. b[k].first <= s
  <2>1. CASE k = 1  BY <2>1, <1>2, <1>6
  <2>2. CASE k # 1
    <3>1. k - 1 \in DOMAIN b /\ k - 1 < k  BY <2>2, <1>1, <1>6
    <3>2. ~ (s <= b[k - 1].last)  BY <3>1, <1>5
    <3>3. b[k].first = b[k - 1].last + 1  BY <2>2, <1>2, <1>6
    <3>4. b[k - 1].last \in Nat  BY <3>1, <1>1
    <3> QED  BY <3>2, <3>3, <3>4, <1>6
  <2> QED  BY <2>1, <2>2
<1>8. s \in b[k].first .. b[k].last  BY <1>1, <1>6, <1>7
<1> QED  BY <1>6, <1>8 DEF Holds, Events

\* Growing bounds keep a buffer older than they are.
LEMMA OlderThanLater ==
    ASSUME NEW b \in Batch, NEW h \in Nat, NEW s \in Nat, NEW hh \in Nat, NEW ss \in Nat,
           OlderThan(b, h, s), h <= hh, s <= ss
    PROVE  OlderThan(b, hh, ss)
<1> SUFFICES ASSUME NEW i \in DOMAIN b  PROVE b[i].height < hh /\ b[i].last < ss
  BY DEF OlderThan
<1>1. b[i].height \in Nat /\ b[i].last \in Nat  BY BatchFields
<1>2. b[i].height < h /\ b[i].last < s  BY DEF OlderThan
<1> QED  BY <1>1, <1>2

\* filterSrcMsg drops no event the link still expects, whatever link status it
\* was given: the receipts it drops unread are below rxHeight, and the link
\* does not pass a message that is still to be dispatched.
LEMMA FilterKeeps ==
    ASSUME LinkInv, NEW b \in Batch, InOrder(b), FromSource(b), NEW h \in 1 .. CurrentHeight,
           NEW s \in Nat, s > CurrentLink.rxSeq, Holds(b, s)
    PROVE  Holds(Filter(b, hist[h].rxHeight, hist[h].rxSeq), s)
<1>t. /\ receipts \in Batch /\ hist \in Seq(Link)
      /\ hist[h].rxSeq \in Nat /\ hist[h].rxHeight \in Nat
      /\ CurrentLink.rxSeq \in Nat /\ CurrentLink.rxHeight \in Nat
  BY LinkInvTypes
<1>1. hist[h].rxSeq <= CurrentLink.rxSeq /\ hist[h].rxHeight <= CurrentLink.rxHeight
  <2>1. h \in DOMAIN hist  BY <1>t, LenProperties DEF CurrentHeight
  <2> QED  BY <2>1 DEF LinkInv, HistInOrder
<1>2. s > hist[h].rxSeq  BY <1>t, <1>1
<1>3. \/ Holds(Filter(b, hist[h].rxHeight, hist[h].rxSeq), s)
      \/ \E i \in DOMAIN b : b[i].height < hist[h].rxHeight /\ s \in Events(b[i])
  BY <1>t, <1>2, FilterInOrder
<1>4. ASSUME NEW i \in DOMAIN b, b[i].height < hist[h].rxHeight, s \in Events(b[i])
      PROVE  FALSE
  <2>1. PICK j \in DOMAIN receipts : /\ b[i].height = receipts[j].height
                                     /\ b[i].last <= receipts[j].last
    BY DEF FromSource
  <2>2. /\ receipts[j].height \in Nat /\ receipts[j].last \in Nat
        /\ b[i].height \in Nat /\ b[i].last \in Nat /\ b[i].first \in Nat
    BY <1>t, BatchFields
  <2>3. receipts[j].last > CurrentLink.rxSeq => receipts[j].height >= CurrentLink.rxHeight
    BY DEF LinkInv, LinkSound
  <2>4. s <= b[i].last  BY <1>4, <2>2 DEF Events
  <2> QED  BY <1>1, <1>t, <1>4, <2>1, <2>2, <2>3, <2>4
<1> QED  BY <1>3, <1>4

\* The next block the subscription delivers: its receipts are of that height,
\* in order, and have the events from opts.Seq on.
LEMMA NextReceiptsInOrder ==
    ASSUME LinkInv, NEW r \in Relays
    PROVE  /\ NextReceipts(r) \in Batch
           /\ InOrder(NextReceipts(r))
           /\ \A i \in DOMAIN NextReceipts(r) : /\ NextReceipts(r)[i].height = nextBlock[r]
                                                /\ NextReceipts(r)[i].first >= optsSeq[r]
<1>0. nextBlock \in [Relays -> Nat] /\ optsSeq \in [Relays -> Nat \ {0}] /\ TypeOK
  BY DEF LinkInv, TypeOK
<1>1. /\ nextBlock[r] \in Nat /\ optsSeq[r] \in Nat /\ optsSeq[r] - 1 \in Nat
      /\ receipts \in Batch /\ SourceInOrder
  BY <1>0, LinkInvTypes DEF LinkInv
<1> DEFINE B == BlockReceipts(nextBlock[r])
           F == Filter(B, 0, optsSeq[r] - 1)
<1>2. /\ B \in Batch /\ InOrder(B)
      /\ \A i \in DOMAIN B : B[i].height = nextBlock[r]
  BY <1>1, BlockProperties, BlockInOrder
<1> HIDE DEF B
<1>3. /\ F \in Batch /\ InOrder(F)
      /\ \A i \in DOMAIN F : F[i].first > optsSeq[r] - 1
      /\ \A i \in DOMAIN F : \E k \in DOMAIN B : F[i].height = B[k].height
  <2>1. 0 \in Nat  OBVIOUS
  <2>2. /\ F \in Batch
        /\ \A i \in DOMAIN F : \E k \in DOMAIN B : /\ F[i].height = B[k].height
                                                   /\ F[i].last = B[k].last
                                                   /\ F[i].first >= B[k].first
    BY <1>1, <1>2, <2>1, FilterProperties
  <2>3. InOrder(F) /\ \A i \in DOMAIN F : F[i].first > optsSeq[r] - 1
    BY <1>1, <1>2, <2>1, FilterInOrder
  <2> QED  BY <2>2, <2>3
<1>4. NextReceipts(r) = F  BY DEF NextReceipts, B
<1> HIDE DEF F
<1>5. \A i \in DOMAIN F : F[i].first \in Nat  BY <1>3, BatchFields
<1>6. \A i \in DOMAIN F : F[i].first >= optsSeq[r]  BY <1>1, <1>3, <1>5
<1> QED  BY <1>2, <1>3, <1>4, <1>6

\* The last receipt of a batch in order has its highest sequence number.
LEMMA LastIsHighest ==
    ASSUME NEW b \in Batch, InOrder(b), NEW i \in DOMAIN b
    PROVE  b[i].last <= b[Len(b)].last /\ Len(b) \in DOMAIN b
<1>1. /\ Len(b) \in Nat /\ DOMAIN b = 1 .. Len(b)
      /\ \A k \in DOMAIN b : b[k].first \in Nat /\ b[k].last \in Nat
  BY BatchFields
<1>2. Len(b) \in DOMAIN b /\ i <= Len(b)  BY <1>1
<1>3. CASE i = Len(b)  BY <1>1, <1>2, <1>3
<1>4. CASE i # Len(b)
  <2>1. i < Len(b)  BY <1>1, <1>2, <1>4
  <2>2. b[i].last < b[Len(b)].first /\ b[Len(b)].first <= b[Len(b)].last
    BY <1>2, <2>1 DEF InOrder
  <2> QED  BY <1>1, <1>2, <2>2
<1> QED  BY <1>3, <1>4

\* A buffer that ends with an event the link still expects does so after
\* filterSrcMsg.
LEMMA FilterEnds ==
    ASSUME LinkInv, NEW b \in Batch, InOrder(b), FromSource(b), NEW h \in 1 .. CurrentHeight,
           NEW s \in Nat, s > CurrentLink.rxSeq, EndsAt(b, s)
    PROVE  EndsAt(Filter(b, hist[h].rxHeight, hist[h].rxSeq), s)
<1> DEFINE F == Filter(b, hist[h].rxHeight, hist[h].rxSeq)
<1>t. hist[h].rxSeq \in Nat /\ hist[h].rxHeight \in Nat  BY LinkInvTypes
<1>0. /\ Len(b) \in Nat /\ Len(b) \in DOMAIN b /\ b[Len(b)].last = s
      /\ \A i \in DOMAIN b : b[i].first \in Nat /\ b[i].last \in Nat
  BY BatchFields DEF EndsAt
<1>1. Holds(b, s)
  <2>1. b[Len(b)].first <= b[Len(b)].last  BY <1>0 DEF InOrder
  <2>2. s \in Events(b[Len(b)])  BY <1>0, <2>1 DEF Events
  <2> QED  BY <1>0, <2>2 DEF Holds
<1>2. Holds(F, s)  BY <1>1, FilterKeeps
<1>3. /\ F \in Batch /\ InOrder(F)
      /\ \A i \in DOMAIN F : \E k \in DOMAIN b : F[i].last = b[k].last
  <2>1. InOrder(F)  BY <1>t, FilterInOrder
  <2>2. /\ F \in Batch
        /\ \A i \in DOMAIN F : \E k \in DOMAIN b :
              /\ F[i].height = b[k].height
              /\ F[i].last = b[k].last
              /\ F[i].first >= b[k].first
    BY <1>t, FilterProperties
  <2> HIDE DEF F
  <2> QED  BY <2>1, <2>2
<1> HIDE DEF F
<1>4. PICK i \in DOMAIN F : s \in Events(F[i])  BY <1>2 DEF Holds
<1>5. /\ Len(F) \in DOMAIN F /\ F[i].last <= F[Len(F)].last
      /\ F[i].first \in Nat /\ F[i].last \in Nat /\ F[Len(F)].last \in Nat
  BY <1>3, <1>4, LastIsHighest, BatchFields
<1>6. s <= F[Len(F)].last
  <2>1. s <= F[i].last  BY <1>4, <1>5 DEF Events
  <2> QED  BY <2>1, <1>5
<1>7. F[Len(F)].last <= s
  <2>1. PICK k \in DOMAIN b : F[Len(F)].last = b[k].last  BY <1>3, <1>5
  <2> QED  BY <2>1, <1>0, LastIsHighest
<1>8. F[Len(F)].last = s  BY <1>5, <1>6, <1>7
<1>9. F # <<>>  BY <1>5
<1> QED  BY <1>8, <1>9 DEF EndsAt, F

\* A buffer followed by newer receipts in order is in order.
LEMMA ConcatInOrder ==
    ASSUME NEW b \in Batch, NEW c \in Batch, InOrder(b), InOrder(c),
           NEW h \in Nat, NEW q \in Nat, OlderThan(b, h, q),
           \A i \in DOMAIN c : c[i].height = h /\ c[i].first >= q
    PROVE  /\ b \o c \in Batch
           /\ InOrder(b \o c)
           /\ \A s : EndsAt(c, s) => EndsAt(b \o c, s)
           /\ c = <<>> => b \o c = b
           /\ \A i \in DOMAIN (b \o c) : \/ \E k \in DOMAIN b : (b \o c)[i] = b[k]
                                         \/ \E k \in DOMAIN c : (b \o c)[i] = c[k]
<1> DEFINE S == b \o c
           m == Len(b)
<1>0. b \in Seq(Receipt) /\ c \in Seq(Receipt)  BY DEF Batch
<1>1. /\ S \in Batch /\ DOMAIN S = 1 .. (m + Len(c))
      /\ \A i \in 1 .. (m + Len(c)) : S[i] = IF i <= m THEN b[i] ELSE c[i - m]
  BY <1>0, ConcatProperties, LenProperties DEF Batch
<1>2. /\ m \in Nat /\ Len(c) \in Nat /\ DOMAIN b = 1 .. m /\ DOMAIN c = 1 .. Len(c)
      /\ \A i \in DOMAIN b : b[i].height \in Nat /\ b[i].first \in Nat /\ b[i].last \in Nat
      /\ \A i \in DOMAIN c : c[i].height \in Nat /\ c[i].first \in Nat /\ c[i].last \in Nat
  BY BatchFields
<1> HIDE DEF S, m
<1>3. ASSUME NEW i \in DOMAIN S
      PROVE  \/ i \in DOMAIN b /\ S[i] = b[i]
             \/ ~ (i <= m) /\ i - m \in DOMAIN c /\ S[i] = c[i - m]
  BY <1>1, <1>2
<1>4. \A i \in DOMAIN S : S[i].first <= S[i].last  BY <1>3 DEF InOrder
<1>5. ASSUME NEW i \in DOMAIN S, NEW j \in DOMAIN S, i < j
      PROVE  S[i].last < S[j].first /\ S[i].height <= S[j].height
  <2>0. i \in Nat /\ j \in Nat  BY <1>1
  <2>1. CASE i \in DOMAIN b /\ j \in DOMAIN b
    <3>1. S[i] = b[i] /\ S[j] = b[j]  BY <2>1, <1>1, <1>2
    <3> QED  BY <2>1, <3>1, <1>5 DEF InOrder
  <2>2. CASE i \in DOMAIN b /\ j \notin DOMAIN b
    <3>1. S[i] = b[i] /\ j - m \in DOMAIN c /\ S[j] = c[j - m]  BY <2>2, <1>1, <1>2, <1>3
    <3>2. b[i].height < h /\ b[i].last < q  BY <2>2 DEF OlderThan
    <3>3. c[j - m].height = h /\ c[j - m].first >= q  BY <3>1
    <3>4. /\ b[i].height \in Nat /\ b[i].last \in Nat /\ c[j - m].first \in Nat
      BY <2>2, <3>1, <1>2
    <3> QED  BY <3>1, <3>2, <3>3, <3>4
  <2>3. CASE i \notin DOMAIN b
    <3>1. i - m \in DOMAIN c /\ S[i] = c[i - m] /\ ~ (i <= m)  BY <2>3, <1>3
    <3>2. j - m \in DOMAIN c /\ S[j] = c[j - m]  BY <3>1, <2>0, <1>2, <1>3, <1>5
    <3>3. i - m < j - m  BY <2>0, <1>2, <1>5
    <3> QED  BY <3>1, <3>2, <3>3 DEF InOrder
  <2> QED  BY <2>1, <2>2, <2>3
<1>6. ASSUME NEW s, EndsAt(c, s)  PROVE EndsAt(S, s)
  <2>1. Len(c) >= 1  BY <1>6, BatchFields DEF EndsAt
  <2>2. m + Len(c) \in DOMAIN S /\ ~ (m + Len(c) <= m) /\ (m + Len(c)) - m = Len(c)
    BY <2>1, <1>1, <1>2
  <2>3. S[m + Len(c)] = c[Len(c)]  BY <1>1, <2>2
  <2>4. Len(S) = m + Len(c)
    <3>1. m + Len(c) \in Nat  BY <1>2
    <3>2. Len(S) \in Nat /\ DOMAIN S = 1 .. Len(S)  BY <1>1, BatchFields
    <3>3. \A x, y \in Nat : 1 .. x = 1 .. y /\ y \in 1 .. y => x = y
      <4> SUFFICES ASSUME NEW x \in Nat, NEW y \in Nat, 1 .. x = 1 .. y, y \in 1 .. y  PROVE x = y
        OBVIOUS
      <4>1. y \in 1 .. x  OBVIOUS
      <4>2. x \in 1 .. y  BY <4>1
      <4> QED  BY <4>1, <4>2
    <3> QED  BY <3>1, <3>2, <3>3, <2>2, <1>1
  <2>5. S # <<>>  BY <2>2
  <2> QED  BY <1>6, <2>3, <2>4, <2>5 DEF EndsAt
<1>7. c = <<>> => S = b  BY <1>0, ConcatEmptySeq DEF S
<1> QED  BY <1>1, <1>3, <1>4, <1>5, <1>6, <1>7 DEF InOrder, S

\* What Segment leaves is in order and ends where the buffer it was cut from
\* ends.
LEMMA SegmentEnds ==
    ASSUME NEW b \in Batch, InOrder(b), NEW n \in 0 .. Len(b)
    PROVE  /\ InOrder(Remaining(b, n))
           /\ \A i \in DOMAIN Remaining(b, n) : \E k \in DOMAIN b : Remaining(b, n)[i] = b[k]
           /\ \A s : EndsAt(b, s) => EndsAt(Remaining(b, n), s)
<1>1. /\ Len(b) \in Nat /\ DOMAIN b = 1 .. Len(b) /\ n \in Nat /\ n <= Len(b)
  BY BatchFields
<1>2. CASE n = Len(b)  BY <1>2 DEF Remaining
<1>3. CASE n # Len(b)
  <2> DEFINE R == SubSeq(b, n + 1, Len(b))
  <2>1. Remaining(b, n) = R  BY <1>3 DEF Remaining
  <2>3. /\ R \in Batch /\ Len(R) = IF n + 1 <= Len(b) THEN Len(b) - (n + 1) + 1 ELSE 0
        /\ \A i \in DOMAIN R : /\ i \in Nat /\ (n + 1) + i - 1 \in DOMAIN b
                               /\ R[i] = b[(n + 1) + i - 1]
    BY <1>1, SubSeqPiece
  <2>4. DOMAIN R = 1 .. Len(R)  BY <2>3, BatchFields
  <2> HIDE DEF R
  <2>5. Len(R) = Len(b) - n /\ Len(R) >= 1
    <3>0. \A x, y \in Nat : x <= y /\ x # y => x + 1 <= y /\ x + 1 \in Nat  OBVIOUS
    <3>1. n + 1 <= Len(b) /\ n + 1 \in Nat  BY <1>1, <1>3, <3>0
    <3>3. Len(R) = Len(b) - (n + 1) + 1  BY <2>3, <3>1
    <3>5. Len(R) = Len(b) - n  BY <3>3, <1>1
    <3> QED  BY <3>1, <3>5, <1>1
  <2>6. ASSUME NEW i \in DOMAIN R  PROVE i \in Nat /\ n + i \in DOMAIN b /\ R[i] = b[n + i]
    <3>0. i \in Nat  BY <2>3
    <3>1. (n + 1) + i - 1 = n + i  BY <1>1, <3>0
    <3> QED  BY <3>0, <3>1, <2>3
  <2>7. InOrder(R)
    <3>1. \A i \in DOMAIN R : R[i].first <= R[i].last  BY <2>6 DEF InOrder
    <3>2. ASSUME NEW i \in DOMAIN R, NEW j \in DOMAIN R, i < j
          PROVE  R[i].last < R[j].first /\ R[i].height <= R[j].height
      <4>1. n + i < n + j  BY <1>1, <2>6, <3>2
      <4> QED  BY <4>1, <2>6 DEF InOrder
    <3> QED  BY <3>1, <3>2 DEF InOrder
  <2>8. ASSUME NEW s, EndsAt(b, s)  PROVE EndsAt(R, s)
    <3>1. Len(R) \in DOMAIN R /\ n + Len(R) = Len(b)  BY <1>1, <2>4, <2>5
    <3>2. R[Len(R)] = b[Len(b)]  BY <3>1, <2>6
    <3>3. R # <<>>  BY <3>1
    <3> QED  BY <2>8, <3>2, <3>3 DEF EndsAt
  <2>10. \A i \in DOMAIN R : \E k \in DOMAIN b : R[i] = b[k]  BY <2>6
  <2> QED  BY <2>1, <2>7, <2>8, <2>10
<1> QED  BY <1>2, <1>3

-----------------------------------------------------------------------------
\* The relays keep what the link still expects.

\* The typing facts of one relay.
LEMMA RelayTypes ==
    ASSUME LinkInv, NEW r \in Relays
    PROVE  /\ nextBlock[r] \in Nat /\ optsSeq[r] \in Nat /\ optsSeq[r] >= 1
           /\ srcMsg[r] \in Batch /\ newMsg[r] \in Batch /\ tx[r] \in Batch
           /\ pc[r] \in {"down", "select", "send", "wait"}
           /\ CurrentLink.rxSeq \in Nat
<1>1. /\ nextBlock \in [Relays -> Nat] /\ optsSeq \in [Relays -> Nat \ {0}]
      /\ pc \in [Relays -> {"down", "select", "send", "wait"}]
  BY DEF LinkInv, TypeOK
<1>2. optsSeq[r] \in Nat \ {0}  BY <1>1
<1>3. optsSeq[r] \in Nat /\ optsSeq[r] >= 1  BY <1>2
<1> QED  BY <1>1, <1>3, LinkInvTypes

\* BufferSound of the next state, in the primed variables.
LEMMA BufferIntro ==
    ASSUME NEW r \in Relays,
           InOrder(srcMsg'[r]), OlderThan(srcMsg'[r], nextBlock'[r], optsSeq'[r]),
           InOrder(newMsg'[r]), OlderThan(newMsg'[r], nextBlock'[r], optsSeq'[r]),
           pc'[r] = "down" => srcMsg'[r] = <<>>,
           pc'[r] \in {"down", "select"} => newMsg'[r] = <<>>,
           (CurrentLink'.rxSeq + 1) .. (optsSeq'[r] - 1) # {} =>
                /\ EndsAt(srcMsg'[r], optsSeq'[r] - 1)
                /\ pc'[r] \in {"send", "wait"} => EndsAt(newMsg'[r], optsSeq'[r] - 1)
    PROVE  BufferSound(r)'
  BY DEF BufferSound, Undispatched, InOrder, OlderThan, EndsAt

\* The empty buffer.
LEMMA EmptyInOrder ==
    ASSUME NEW h, NEW s
    PROVE  InOrder(<<>>) /\ OlderThan(<<>>, h, s)
  BY DEF InOrder, OlderThan

\* A relay that does not move keeps what it holds, and the link expects no
\* more than before.
LEMMA BufferFrame ==
    ASSUME LinkInv, NEW r \in Relays, BufferSound(r),
           CurrentLink'.rxSeq \in Nat, CurrentLink'.rxSeq >= CurrentLink.rxSeq,
           pc'[r] = pc[r], srcMsg'[r] = srcMsg[r], newMsg'[r] = newMsg[r],
           nextBlock'[r] = nextBlock[r], optsSeq'[r] = optsSeq[r]
    PROVE  BufferSound(r)'
<1>t. CurrentLink.rxSeq \in Nat /\ optsSeq[r] \in Nat  BY RelayTypes
<1>1. \A s \in (CurrentLink'.rxSeq + 1) .. (optsSeq[r] - 1) :
          s \in (CurrentLink.rxSeq + 1) .. (optsSeq[r] - 1)
  BY <1>t
<1>2. /\ InOrder(srcMsg[r]) /\ OlderThan(srcMsg[r], nextBlock[r], optsSeq[r])
      /\ InOrder(newMsg[r]) /\ OlderThan(newMsg[r], nextBlock[r], optsSeq[r])
      /\ pc[r] = "down" => srcMsg[r] = <<>>
      /\ pc[r] \in {"down", "select"} => newMsg[r] = <<>>
      /\ (CurrentLink.rxSeq + 1) .. (optsSeq[r] - 1) # {} =>
            /\ EndsAt(srcMsg[r], optsSeq[r] - 1)
            /\ pc[r] \in {"send", "wait"} => EndsAt(newMsg[r], optsSeq[r] - 1)
  BY DEF BufferSound, Undispatched
<1>3. (CurrentLink'.rxSeq + 1) .. (optsSeq[r] - 1) # {}
        => (CurrentLink.rxSeq + 1) .. (optsSeq[r] - 1) # {}
  BY <1>1
<1> QED  BY <1>2, <1>3, BufferIntro

\* Steps of one relay leave the others alone.
LEMMA OtherRelays ==
    ASSUME LinkInv, NEW r \in Relays, RelayStep(r) \/ LoseTx(r) \/ FailTx(r),
           NEW q \in Relays, q # r
    PROVE  /\ pc'[q] = pc[q]
           /\ srcMsg'[q] = srcMsg[q] /\ newMsg'[q] = newMsg[q]
           /\ nextBlock'[q] = nextBlock[q] /\ optsSeq'[q] = optsSeq[q]
           /\ UNCHANGED <<srcVars, dstVars>>
<1> USE DEF relayVars, subVars, bufVars, txVars, sentVars
<1>1. CASE Start(r)  BY <1>1 DEF Start
<1>2. CASE ReceiveBlock(r)  BY <1>2 DEF ReceiveBlock
<1>3. CASE ReceiveGap(r)  BY <1>3 DEF ReceiveGap, Stop
<1>4. CASE Relay(r)  BY <1>4 DEF Relay
<1>5. CASE RelayNothing(r)  BY <1>5 DEF RelayNothing
<1>6. CASE RelayGap(r)  BY <1>6 DEF RelayGap, Stop
<1>7. CASE Send(r)  BY <1>7 DEF Send
<1>8. CASE SendError(r)  BY <1>8 DEF SendError
<1>9. CASE ReceiptFound(r)  BY <1>9 DEF ReceiptFound, EndRelay
<1>10. CASE ReceiptRetry(r)  BY <1>10 DEF ReceiptRetry
<1>11. CASE ReceiptGiveUp(r)  BY <1>11 DEF ReceiptGiveUp, EndRelay
<1>12. CASE Crash(r)  BY <1>12 DEF Crash, Stop, EndRelay
<1>13. CASE LoseTx(r) \/ FailTx(r)  BY <1>13 DEF LoseTx, FailTx
<1> QED  BY <1>1, <1>2, <1>3, <1>4, <1>5, <1>6, <1>7, <1>8, <1>9, <1>10, <1>11, <1>12, <1>13
         DEF RelayStep

\* The steps of the select loop: subscribing, receiving a block and cutting a
\* transaction out of the buffer.
LEMMA SelectKeepsBuffer ==
    ASSUME LinkInv, NEW r \in Relays, BufferSound(r),
           Start(r) \/ ReceiveBlock(r) \/ ReceiveGap(r) \/ Relay(r) \/ RelayNothing(r) \/ RelayGap(r)
    PROVE  BufferSound(r)'
<1> USE DEF srcVars, subVars, bufVars, txVars, sentVars, dstVars
<1>t. /\ nextBlock[r] \in Nat /\ optsSeq[r] \in Nat /\ optsSeq[r] >= 1
      /\ srcMsg[r] \in Batch /\ newMsg[r] \in Batch /\ tx[r] \in Batch
      /\ CurrentLink.rxSeq \in Nat
  BY RelayTypes
<1>f. /\ pc \in [Relays -> {"down", "select", "send", "wait"}]
      /\ optsSeq \in [Relays -> Nat \ {0}] /\ nextBlock \in [Relays -> Nat]
      /\ srcMsg \in [Relays -> Batch] /\ newMsg \in [Relays -> Batch] /\ tx \in [Relays -> Batch]
  BY DEF LinkInv, TypeOK
<1>b. /\ InOrder(srcMsg[r]) /\ OlderThan(srcMsg[r], nextBlock[r], optsSeq[r])
      /\ pc[r] = "down" => srcMsg[r] = <<>>
      /\ pc[r] \in {"down", "select"} => newMsg[r] = <<>>
      /\ (CurrentLink.rxSeq + 1) .. (optsSeq[r] - 1) # {} => EndsAt(srcMsg[r], optsSeq[r] - 1)
  BY DEF BufferSound, Undispatched
<1>s. /\ pc[r] \in {"down", "select"} /\ newMsg[r] = <<>>
  <2>1. pc[r] \in {"down", "select"}
    BY DEF Start, ReceiveBlock, ReceiveGap, Relay, RelayNothing, RelayGap
  <2> QED  BY <2>1, <1>b
<1>u. UNCHANGED hist
  BY DEF Start, ReceiveBlock, ReceiveGap, Relay, RelayNothing, RelayGap
<1>c. CurrentLink' = CurrentLink /\ CurrentHeight' = CurrentHeight  BY <1>u DEF CurrentLink, CurrentHeight
<1>h. \A h \in 1 .. CurrentHeight : /\ hist[h].rxSeq \in Nat /\ hist[h].rxHeight \in Nat
                                    /\ hist[h].rxSeq <= CurrentLink.rxSeq
  <2>1. hist \in Seq(Link)  BY LinkInvTypes
  <2>2. DOMAIN hist = 1 .. CurrentHeight  BY <2>1, LenProperties DEF CurrentHeight
  <2> QED  BY <2>2, LinkInvTypes DEF LinkInv, HistInOrder
<1>e. FromSource(srcMsg[r])  BY DEF LinkInv, BuffersFromSource
<1>w. ASSUME (CurrentLink.rxSeq + 1) .. (optsSeq[r] - 1) # {}
      PROVE  optsSeq[r] - 1 \in Nat /\ optsSeq[r] - 1 > CurrentLink.rxSeq
  BY <1>w, <1>t
<1>k. ASSUME NEW h \in 1 .. CurrentHeight, (CurrentLink.rxSeq + 1) .. (optsSeq[r] - 1) # {}
      PROVE  EndsAt(Filter(srcMsg[r], hist[h].rxHeight, hist[h].rxSeq), optsSeq[r] - 1)
  BY <1>k, <1>e, <1>w, <1>t, <1>b, FilterEnds
<1>1. ASSUME Start(r)  PROVE BufferSound(r)'
  <2>1. PICK h \in 1 .. CurrentHeight :
          /\ optsSeq' = [optsSeq EXCEPT ![r] = hist[h].rxSeq + 1]
          /\ nextBlock' = [nextBlock EXCEPT ![r] = SubscribeHeight(hist[h].rxHeight)]
    BY <1>1 DEF Start
  <2>2. optsSeq'[r] = hist[h].rxSeq + 1  BY <2>1, <1>f
  <2>3. srcMsg'[r] = <<>> /\ newMsg'[r] = <<>> /\ pc'[r] = "select"
    BY <1>1, <1>b, <1>s, <1>f DEF Start
  <2>4. (CurrentLink'.rxSeq + 1) .. (optsSeq'[r] - 1) = {}
    <3>1. hist[h].rxSeq \in Nat /\ hist[h].rxSeq <= CurrentLink.rxSeq  BY <1>h
    <3> QED  BY <3>1, <2>2, <1>c, <1>t
  <2> QED  BY <2>3, <2>4, EmptyInOrder, BufferIntro
<1>2. ASSUME Stop(r), newMsg' = newMsg  PROVE BufferSound(r)'
  <2>1. optsSeq'[r] = 1 /\ srcMsg'[r] = <<>> /\ pc'[r] = "down"  BY <1>2, <1>f DEF Stop
  <2>2. newMsg'[r] = <<>>  BY <1>2, <1>s
  <2>3. (CurrentLink'.rxSeq + 1) .. (optsSeq'[r] - 1) = {}  BY <2>1, <1>c, <1>t
  <2> QED  BY <2>1, <2>2, <2>3, EmptyInOrder, BufferIntro
<1>3. ASSUME ReceiveBlock(r)  PROVE BufferSound(r)'
  <2> DEFINE b == NextReceipts(r)
             q == IF b = <<>> THEN optsSeq[r] ELSE b[Len(b)].last + 1
             S == srcMsg[r] \o b
  <2>1. /\ b \in Batch /\ InOrder(b)
        /\ \A i \in DOMAIN b : b[i].height = nextBlock[r] /\ b[i].first >= optsSeq[r]
    BY NextReceiptsInOrder
  <2>2. ~ Gap(b, optsSeq[r] - 1)  BY <1>3 DEF ReceiveBlock
  <2>3. /\ srcMsg'[r] = S /\ optsSeq'[r] = q /\ nextBlock'[r] = nextBlock[r] + 1
        /\ newMsg'[r] = <<>> /\ pc'[r] = "select"
    BY <1>3, <1>f, <1>s DEF ReceiveBlock
  <2> HIDE DEF b
  <2>4. /\ S \in Batch /\ InOrder(S)
        /\ \A s : EndsAt(b, s) => EndsAt(S, s)
        /\ b = <<>> => S = srcMsg[r]
        /\ \A i \in DOMAIN S : \/ \E k \in DOMAIN srcMsg[r] : S[i] = srcMsg[r][k]
                               \/ \E k \in DOMAIN b : S[i] = b[k]
    <3>1. /\ srcMsg[r] \in Batch /\ InOrder(srcMsg[r]) /\ nextBlock[r] \in Nat /\ optsSeq[r] \in Nat
          /\ OlderThan(srcMsg[r], nextBlock[r], optsSeq[r])
      BY <1>t, <1>b
    <3> QED  BY ONLY SMTT(30), <3>1, <2>1, ConcatInOrder DEF S
  <2>5. /\ \A i \in DOMAIN b : /\ b[i].height \in Nat /\ b[i].first \in Nat /\ b[i].last \in Nat
                               /\ b[i].first <= b[i].last /\ b[i].last <= b[Len(b)].last
        /\ b # <<>> => Len(b) \in DOMAIN b
    <3>1. Len(b) \in Nat /\ DOMAIN b = 1 .. Len(b) /\ (b # <<>> => Len(b) >= 1)  BY <2>1, BatchFields
    <3>2. b # <<>> => Len(b) \in DOMAIN b  BY <3>1
    <3> QED  BY <3>2, <2>1, BatchFields, LastIsHighest DEF InOrder
  <2>6. q \in Nat /\ q >= optsSeq[r] /\ \A i \in DOMAIN b : b[i].last < q
    <3>1. CASE b = <<>>  BY <3>1, <1>t
    <3>2. CASE b # <<>>
      <4>1. /\ Len(b) \in DOMAIN b /\ b[Len(b)].last \in Nat /\ b[Len(b)].first \in Nat
            /\ b[Len(b)].first <= b[Len(b)].last /\ b[Len(b)].first >= optsSeq[r]
        BY <3>2, <2>1, <2>5
      <4>2. q = b[Len(b)].last + 1  BY <3>2
      <4> HIDE DEF q
      <4> QED  BY <4>1, <4>2, <2>5, <1>t
    <3> QED  BY <3>1, <3>2
  <2>9. (CurrentLink.rxSeq + 1) .. (q - 1) # {} => EndsAt(S, q - 1)
    <3>1. CASE b = <<>>  BY <3>1, <1>b, <2>4
    <3>2. CASE b # <<>>
      <4>1. q = b[Len(b)].last + 1 /\ b[Len(b)].last \in Nat  BY <3>2, <2>5
      <4>2. q - 1 = b[Len(b)].last
        <5> HIDE DEF q
        <5> QED  BY <4>1
      <4>3. EndsAt(b, q - 1)  BY <3>2, <4>2 DEF EndsAt
      <4> QED  BY <4>3, <2>4
    <3> QED  BY <3>1, <3>2
  <2> HIDE DEF q, S
  <2>8. OlderThan(S, nextBlock[r] + 1, q)
    <3> SUFFICES ASSUME NEW i \in DOMAIN S  PROVE S[i].height < nextBlock[r] + 1 /\ S[i].last < q
      BY DEF OlderThan
    <3>1. ASSUME NEW k \in DOMAIN srcMsg[r], S[i] = srcMsg[r][k]
          PROVE  S[i].height < nextBlock[r] + 1 /\ S[i].last < q
      <4>1. S[i].height < nextBlock[r] /\ S[i].last < optsSeq[r]  BY <1>b, <3>1 DEF OlderThan
      <4>2. S[i].height \in Nat /\ S[i].last \in Nat  BY <2>4, BatchFields
      <4> QED  BY <4>1, <4>2, <1>t, <2>6
    <3>2. ASSUME NEW k \in DOMAIN b, S[i] = b[k]
          PROVE  S[i].height < nextBlock[r] + 1 /\ S[i].last < q
      BY <3>2, <2>1, <2>6, <1>t
    <3> QED  BY <2>4, <3>1, <3>2
  <2> QED  BY <1>c, <2>3, <2>4, <2>8, <2>9, EmptyInOrder, BufferIntro
<1>4. ASSUME Relay(r)  PROVE BufferSound(r)'
  <2>1. PICK h \in 1 .. CurrentHeight :
          LET b == Filter(srcMsg[r], hist[h].rxHeight, hist[h].rxSeq)
          IN  /\ srcMsg' = [srcMsg EXCEPT ![r] = b]
              /\ \E n \in 0 .. Len(b) :
                    /\ tx' = [tx EXCEPT ![r] = SubSeq(b, 1, n)]
                    /\ newMsg' = [newMsg EXCEPT ![r] = Remaining(b, n)]
    BY <1>4 DEF Relay
  <2> DEFINE b == Filter(srcMsg[r], hist[h].rxHeight, hist[h].rxSeq)
  <2>2. PICK n \in 0 .. Len(b) :
          /\ tx' = [tx EXCEPT ![r] = SubSeq(b, 1, n)]
          /\ newMsg' = [newMsg EXCEPT ![r] = Remaining(b, n)]
    BY <2>1
  <2>3. srcMsg'[r] = b  BY <2>1, <1>f
  <2>4. /\ tx'[r] = SubSeq(b, 1, n) /\ newMsg'[r] = Remaining(b, n)
        /\ pc'[r] = "send" /\ optsSeq' = optsSeq /\ nextBlock' = nextBlock
    BY <1>4, <2>2, <1>f DEF Relay
  <2>5. /\ b \in Batch
        /\ \A i \in DOMAIN b : \E k \in DOMAIN srcMsg[r] :
              /\ b[i].height = srcMsg[r][k].height
              /\ b[i].last = srcMsg[r][k].last
              /\ b[i].first >= srcMsg[r][k].first
    BY <1>t, <1>h, FilterProperties
  <2>6. InOrder(b)  BY <1>t, <1>b, <1>h, FilterInOrder
  <2>7. (CurrentLink.rxSeq + 1) .. (optsSeq[r] - 1) # {} => EndsAt(b, optsSeq[r] - 1)  BY <1>k
  <2> HIDE DEF b
  <2>8. OlderThan(b, nextBlock[r], optsSeq[r])
    BY <1>b, <2>5 DEF OlderThan
  <2>9. /\ InOrder(Remaining(b, n))
        /\ \A i \in DOMAIN Remaining(b, n) : \E k \in DOMAIN b : Remaining(b, n)[i] = b[k]
        /\ \A s : EndsAt(b, s) => EndsAt(Remaining(b, n), s)
    BY <2>5, <2>6, SegmentEnds
  <2>10. OlderThan(Remaining(b, n), nextBlock[r], optsSeq[r])
    BY <2>8, <2>9 DEF OlderThan
  <2> QED  BY <1>c, <2>3, <2>4, <2>6, <2>7, <2>8, <2>9, <2>10, BufferIntro
<1>5. ASSUME RelayNothing(r)  PROVE BufferSound(r)'
  <2>1. PICK h \in 1 .. CurrentHeight :
            Filter(srcMsg[r], hist[h].rxHeight, hist[h].rxSeq) = <<>>
    BY <1>5 DEF RelayNothing
  <2>2. srcMsg'[r] = <<>> /\ newMsg'[r] = <<>> /\ pc'[r] = "select" /\ optsSeq' = optsSeq
    BY <1>5, <1>f, <1>s DEF RelayNothing
  <2>3. (CurrentLink.rxSeq + 1) .. (optsSeq[r] - 1) = {}  BY <2>1, <1>k DEF EndsAt
  <2> QED  BY <1>c, <2>2, <2>3, EmptyInOrder, BufferIntro
<1>6. ReceiveGap(r) \/ RelayGap(r) => Stop(r) /\ newMsg' = newMsg  BY DEF ReceiveGap, RelayGap
<1> QED  BY <1>1, <1>2, <1>3, <1>4, <1>5, <1>6

\* The steps of the sendLoop and the waitLoop, and a crash.
LEMMA WaitKeepsBuffer ==
    ASSUME LinkInv, NEW r \in Relays, BufferSound(r),
           \/ Send(r) \/ SendError(r) \/ ReceiptFound(r) \/ ReceiptRetry(r)
           \/ ReceiptGiveUp(r) \/ Crash(r) \/ LoseTx(r) \/ FailTx(r)
    PROVE  BufferSound(r)'
<1> USE DEF srcVars, relayVars, subVars, bufVars, txVars, sentVars, dstVars
<1>t. /\ optsSeq[r] \in Nat /\ CurrentLink.rxSeq \in Nat
      /\ pc[r] \in {"down", "select", "send", "wait"}
  BY RelayTypes
<1>f. /\ pc \in [Relays -> {"down", "select", "send", "wait"}]
      /\ optsSeq \in [Relays -> Nat \ {0}] /\ nextBlock \in [Relays -> Nat]
      /\ srcMsg \in [Relays -> Batch] /\ newMsg \in [Relays -> Batch]
  BY DEF LinkInv, TypeOK
<1>b. /\ InOrder(srcMsg[r]) /\ OlderThan(srcMsg[r], nextBlock[r], optsSeq[r])
      /\ InOrder(newMsg[r]) /\ OlderThan(newMsg[r], nextBlock[r], optsSeq[r])
      /\ pc[r] = "down" => srcMsg[r] = <<>>
      /\ pc[r] \in {"down", "select"} => newMsg[r] = <<>>
      /\ (CurrentLink.rxSeq + 1) .. (optsSeq[r] - 1) # {} =>
            /\ EndsAt(srcMsg[r], optsSeq[r] - 1)
            /\ pc[r] \in {"send", "wait"} => EndsAt(newMsg[r], optsSeq[r] - 1)
  BY DEF BufferSound, Undispatched
<1>u. UNCHANGED hist
  BY DEF Send, SendError, ReceiptFound, ReceiptRetry, ReceiptGiveUp, Crash, LoseTx, FailTx
<1>c. CurrentLink' = CurrentLink  BY <1>u DEF CurrentLink, CurrentHeight
<1>1. ASSUME EndRelay(r)  PROVE newMsg'[r] = <<>>
  BY <1>1, <1>f DEF EndRelay
<1>2. ASSUME Send(r)  PROVE BufferSound(r)'
  <2>1. /\ pc[r] = "send" /\ pc'[r] = "wait"
        /\ UNCHANGED <<srcMsg, newMsg, nextBlock, optsSeq>>
    BY <1>2, <1>f DEF Send
  <2> QED  BY <2>1, <1>b, <1>c, BufferIntro
<1>3. ASSUME SendError(r) \/ ReceiptRetry(r) \/ LoseTx(r) \/ FailTx(r)  PROVE BufferSound(r)'
  <2>1. UNCHANGED <<pc, srcMsg, newMsg, nextBlock, optsSeq>>
    BY <1>3 DEF SendError, ReceiptRetry, LoseTx, FailTx
  <2> QED  BY <2>1, <1>b, <1>c, BufferIntro
<1>4. ASSUME ReceiptFound(r)  PROVE BufferSound(r)'
  <2>1. /\ pc[r] = "wait" /\ pc'[r] = "select" /\ EndRelay(r)
        /\ srcMsg'[r] = newMsg[r] /\ UNCHANGED <<nextBlock, optsSeq>>
    BY <1>4, <1>f DEF ReceiptFound
  <2> QED  BY <2>1, <1>1, <1>b, <1>c, EmptyInOrder, BufferIntro
<1>5. ASSUME ReceiptGiveUp(r)  PROVE BufferSound(r)'
  <2>1. /\ pc'[r] = "select" /\ EndRelay(r) /\ UNCHANGED <<srcMsg, nextBlock, optsSeq>>
    BY <1>5, <1>f DEF ReceiptGiveUp
  <2> QED  BY <2>1, <1>1, <1>b, <1>c, EmptyInOrder, BufferIntro
<1>6. ASSUME Crash(r)  PROVE BufferSound(r)'
  <2>1. /\ pc'[r] = "down" /\ EndRelay(r) /\ srcMsg'[r] = <<>> /\ optsSeq'[r] = 1
    BY <1>6, <1>f DEF Crash, Stop
  <2>2. (CurrentLink'.rxSeq + 1) .. (optsSeq'[r] - 1) = {}  BY <2>1, <1>c, <1>t
  <2> QED  BY <2>1, <2>2, <1>1, EmptyInOrder, BufferIntro
<1> QED  BY <1>2, <1>3, <1>4, <1>5, <1>6

\* rxSeq of the next state is a number.
LEMMA RxSeqTypeNext ==
    ASSUME LinkInv'
    PROVE  CurrentLink'.rxSeq \in Nat
<1>1. hist' \in Seq(Link) /\ hist' # <<>>  BY DEF LinkInv, TypeOK
<1>2. Len(hist') \in 1 .. Len(hist')  BY <1>1, EmptySeq
<1>3. hist'[Len(hist')] \in Link  BY <1>1, <1>2, ElementOfSeq
<1> QED  BY <1>3 DEF CurrentLink, CurrentHeight, Link

\* A new link with no relay started.
LEMMA RelayInvInit == Init => RelayInv
<1> SUFFICES ASSUME Init PROVE RelayInv  OBVIOUS
<1>1. LinkInv  BY LinkInvInit
<1>2. ASSUME NEW r \in Relays  PROVE BufferSound(r)
  <2>1. pc[r] = "down" /\ srcMsg[r] = <<>> /\ newMsg[r] = <<>> /\ optsSeq[r] = 1
    BY DEF Init
  <2>2. CurrentLink.rxSeq \in Nat  BY <1>1, LinkInvTypes
  <2>3. Undispatched(r) = {}  BY <2>1, <2>2 DEF Undispatched
  <2> QED  BY <2>1, <2>3, EmptyInOrder DEF BufferSound
<1> QED  BY <1>1, <1>2 DEF RelayInv

\* Every step keeps RelayInv.
LEMMA RelayInvStep == RelayInv /\ [Next]_vars => RelayInv'
<1> SUFFICES ASSUME RelayInv, [Next]_vars PROVE RelayInv'  OBVIOUS
<1>0. LinkInv /\ \A r \in Relays : BufferSound(r)  BY DEF RelayInv
<1>1. LinkInv'  BY <1>0, LinkInvStep
<1>t. CurrentLink.rxSeq \in Nat /\ CurrentLink'.rxSeq \in Nat
  <2>1. CurrentLink'.rxSeq \in Nat  BY <1>1, RxSeqTypeNext
  <2> QED  BY <1>0, <1>1, <2>1, LinkInvTypes
<1>m. CurrentLink'.rxSeq >= CurrentLink.rxSeq  BY <1>0, LinkMonotonicStep
<1>2. ASSUME NEW r \in Relays  PROVE BufferSound(r)'
  <2> USE DEF srcVars, relayVars, subVars, bufVars, txVars, sentVars, dstVars
  <2>1. ASSUME UNCHANGED <<pc, srcMsg, newMsg, nextBlock, optsSeq>>  PROVE BufferSound(r)'
    BY <1>0, <1>t, <1>m, <2>1, BufferFrame
  <2>2. CASE UNCHANGED vars  BY <2>1, <2>2 DEF vars
  <2>3. CASE SourceStep
    BY <2>1, <2>3 DEF SourceStep, SendMessage, SendMessageAgain, NewBlock
  <2>4. ASSUME NEW q \in Relays, RelayStep(q) \/ LoseTx(q) \/ FailTx(q)  PROVE BufferSound(r)'
    <3>1. CASE q = r
      BY <1>0, <2>4, <3>1, SelectKeepsBuffer, WaitKeepsBuffer DEF RelayStep
    <3>2. CASE q # r
      <4>1. /\ pc'[r] = pc[r] /\ srcMsg'[r] = srcMsg[r] /\ newMsg'[r] = newMsg[r]
            /\ nextBlock'[r] = nextBlock[r] /\ optsSeq'[r] = optsSeq[r]
        BY <1>0, <2>4, <3>2, OtherRelays
      <4> QED  BY <1>0, <1>t, <1>m, <4>1, BufferFrame
    <3> QED  BY <3>1, <3>2
  <2>5. CASE ExecStep
    BY <2>1, <2>5 DEF ExecStep, HandleOldReceipt, HandleReceipt, HandleRevert, Commit
  <2>6. CASE \E q \in Relays : ExecTx(q)  BY <2>1, <2>6 DEF ExecTx
  <2>7. CASE \E b \in pool : LosePooled(b) \/ ExecPooled(b)
    BY <2>1, <2>7 DEF LosePooled, ExecPooled
  <2> QED  BY <2>2, <2>3, <2>4, <2>5, <2>6, <2>7 DEF Next
<1> QED  BY <1>1, <1>2 DEF RelayInv

\* The inductive invariant of the relays: buffers are in order, and as long as
\* an event is still to be dispatched, buffer and rest end with the last event
\* the subscription delivered.
THEOREM RelayInvariant == Spec => []RelayInv
  BY RelayInvInit, RelayInvStep, PTL DEF Spec

\* A buffer without a gap at the link status h holds what the link expects.
LEMMA NoGapKeeps ==
    ASSUME LinkInv, NEW r \in Relays, BufferSound(r), NEW s \in Undispatched(r),
           NEW h \in DOMAIN hist,
           ~ Gap(Filter(srcMsg[r], hist[h].rxHeight, hist[h].rxSeq), hist[h].rxSeq)
    PROVE  Holds(srcMsg[r], s)
<1> DEFINE b == srcMsg[r]
           F == Filter(b, hist[h].rxHeight, hist[h].rxSeq)
<1>t. /\ optsSeq[r] \in Nat /\ b \in Batch /\ CurrentLink.rxSeq \in Nat /\ hist \in Seq(Link)
  BY RelayTypes, LinkInvTypes
<1>h. h \in 1 .. CurrentHeight  BY <1>t, LenProperties DEF CurrentHeight
<1>r. /\ hist[h].rxSeq \in Nat /\ hist[h].rxHeight \in Nat
      /\ hist[h].rxSeq <= CurrentLink.rxSeq
  BY <1>h, LinkInvTypes DEF LinkInv, HistInOrder
<1>1. /\ optsSeq[r] - 1 \in Nat /\ optsSeq[r] - 1 > CurrentLink.rxSeq
      /\ s \in Nat /\ s > CurrentLink.rxSeq /\ s <= optsSeq[r] - 1
  BY <1>t DEF Undispatched
<1>2. InOrder(b) /\ FromSource(b) /\ EndsAt(b, optsSeq[r] - 1)
  <2>1. Undispatched(r) # {}  OBVIOUS
  <2> QED  BY <2>1 DEF BufferSound, LinkInv, BuffersFromSource
<1>3. EndsAt(F, optsSeq[r] - 1)  BY <1>t, <1>h, <1>1, <1>2, FilterEnds
<1>4. /\ F \in Batch /\ InOrder(F)
      /\ \A i \in DOMAIN F : \E k \in DOMAIN b : /\ F[i].last = b[k].last
                                                 /\ F[i].first >= b[k].first
  BY <1>t, <1>r, <1>2, FilterProperties, FilterInOrder
<1> HIDE DEF F, b
<1>5. F # <<>> /\ F[Len(F)].last = optsSeq[r] - 1  BY <1>3 DEF EndsAt
<1>6. s \in (hist[h].rxSeq + 1) .. F[Len(F)].last  BY <1>1, <1>5, <1>r, <1>t
<1>7. ~ Gap(F, hist[h].rxSeq)  BY DEF F, b
<1>8. Holds(F, s)  BY <1>4, <1>5, <1>6, <1>7, <1>r, NoGapHolds
<1>9. PICK i \in DOMAIN F : s \in Events(F[i])  BY <1>8 DEF Holds
<1>10. PICK k \in DOMAIN b : F[i].last = b[k].last /\ F[i].first >= b[k].first  BY <1>4
<1>11. /\ F[i].first \in Nat /\ F[i].last \in Nat /\ b[k].first \in Nat
  BY <1>t, <1>4, BatchFields
<1>12. s \in Events(b[k])  BY <1>9, <1>10, <1>11, <1>1 DEF Events
<1> QED  BY <1>12 DEF Holds, b

\* An event that is still to be dispatched is in the buffer of the relay it was
\* delivered to, or filterSrcMsg reports a missing event at the next signal.
THEOREM NoneLost == Spec => []NothingLost
<1>1. RelayInv => NothingLost  BY NoGapKeeps DEF RelayInv, NothingLost
<1> QED  BY <1>1, RelayInvariant, PTL

-----------------------------------------------------------------------------
\* The link implements the channel.

\* The link has dispatched no message that was not emitted.
NotAhead ==
    /\ CurrentLink.rxSeq <= TxSeq
    /\ exec.state = "running" => exec.link.rxSeq <= TxSeq

\* txSeq is the highest sequence number of the receipts there are.
LEMMA TxSeqIsHighest ==
    ASSUME LinkInv
    PROVE  TxSeq \in Nat /\ \A j \in DOMAIN receipts : receipts[j].last <= TxSeq
<1>1. receipts \in Batch  BY LinkInvTypes
<1>2. InOrder(receipts)  BY DEF LinkInv, SourceInOrder, InOrder
<1>3. TxSeq \in Nat  BY <1>1, TxSeqType
<1>4. ASSUME NEW j \in DOMAIN receipts  PROVE receipts[j].last <= TxSeq
  <2>1. receipts # <<>>
    <3>1. receipts = <<>> => DOMAIN receipts = {}  OBVIOUS
    <3> QED  BY <3>1
  <2>2. TxSeq = receipts[Len(receipts)].last  BY <2>1 DEF TxSeq
  <2> QED  BY <1>1, <1>2, <2>2, LastIsHighest
<1> QED  BY <1>3, <1>4

\* Only the source counts txSeq, by one.
LEMMA TxSeqStep ==
    ASSUME LinkInv, [Next]_vars
    PROVE  \/ TxSeq' = TxSeq
           \/ TxSeq' = TxSeq + 1 /\ UNCHANGED <<hist, exec>>
<1> USE DEF vars, srcVars, relayVars, subVars, bufVars, txVars, sentVars, dstVars
<1>t. receipts \in Batch /\ srcHeight \in Nat /\ TxSeq \in Nat  BY LinkInvTypes, TxSeqIsHighest
<1>0. receipts \in Seq(Receipt) /\ Len(receipts) \in Nat  BY <1>t, BatchFields DEF Batch
<1>1. CASE receipts' = receipts  BY <1>1 DEF TxSeq
<1>2. CASE SendMessage
  <2> DEFINE rc == [height |-> srcHeight, first |-> TxSeq + 1, last |-> TxSeq + 1]
  <2>1. rc \in Receipt /\ rc.last = TxSeq + 1  BY <1>t DEF Receipt
  <2>2. receipts' = Append(receipts, rc) /\ UNCHANGED <<hist, exec>>  BY <1>2 DEF SendMessage
  <2> HIDE DEF rc
  <2>3. /\ receipts' # <<>> /\ Len(receipts') = Len(receipts) + 1
        /\ receipts'[Len(receipts')] = rc
    BY <1>0, <2>1, <2>2, AppendProperties
  <2>4. TxSeq' = rc.last  BY <2>3 DEF TxSeq
  <2> QED  BY <2>1, <2>2, <2>4
<1>3. CASE SendMessageAgain
  <2> DEFINE n == Len(receipts)
             rc == [receipts[n] EXCEPT !.last = @ + 1]
  <2>1. receipts # <<>> /\ n \in DOMAIN receipts /\ receipts[n] \in Receipt
    BY <1>3, <1>t, BatchFields DEF SendMessageAgain
  <2>2. receipts' = [receipts EXCEPT ![n] = rc] /\ UNCHANGED <<hist, exec>>
    BY <1>3 DEF SendMessageAgain
  <2>3. rc.last = receipts[n].last + 1 /\ rc \in Receipt  BY <2>1 DEF Receipt
  <2> HIDE DEF rc
  <2>4. receipts' \in Seq(Receipt) /\ Len(receipts') = n /\ receipts'[n] = rc
    BY <1>0, <2>1, <2>2, <2>3, ExceptSeq
  <2>5. receipts' # <<>>
    <3>1. n # 0  BY <1>0, <2>1, EmptySeq
    <3> QED  BY <2>4, <3>1, EmptySeq
  <2>6. TxSeq' = rc.last  BY <2>4, <2>5 DEF TxSeq
  <2>7. TxSeq = receipts[n].last  BY <2>1 DEF TxSeq
  <2> QED  BY <2>2, <2>3, <2>6, <2>7
<1>4. CASE UNCHANGED vars  BY <1>1, <1>4
<1>5. CASE NewBlock  BY <1>1, <1>5 DEF NewBlock
<1>6. ASSUME NEW r \in Relays, RelayStep(r) \/ LoseTx(r) \/ FailTx(r) \/ ExecTx(r)
      PROVE  receipts' = receipts
  BY <1>6 DEF RelayStep, Start, ReceiveBlock, ReceiveGap, Relay, RelayNothing, RelayGap, Send,
              SendError, ReceiptFound, ReceiptRetry, ReceiptGiveUp, Crash, LoseTx, FailTx, ExecTx
<1>7. ASSUME NEW b \in pool, LosePooled(b) \/ ExecPooled(b)  PROVE receipts' = receipts
  BY <1>7 DEF LosePooled, ExecPooled
<1>8. CASE ExecStep
  BY <1>1, <1>8 DEF ExecStep, HandleOldReceipt, HandleReceipt, HandleRevert, Commit
<1> QED  BY <1>1, <1>2, <1>3, <1>4, <1>5, <1>6, <1>7, <1>8 DEF Next, SourceStep

\* The steps that change the state of the link, or of the transaction that
\* runs on it.
LEMMA LinkSteps ==
    ASSUME LinkInv, [Next]_vars
    PROVE  \/ /\ CurrentLink' = CurrentLink
              /\ \/ exec' = exec
                 \/ exec'.state = "idle"
                 \/ exec'.link = CurrentLink
                 \/ exec.state = "running" /\ exec'.link = exec.link
                 \/ HandleReceipt
           \/ exec.state = "running" /\ CurrentLink' = exec.link /\ exec'.state = "idle"
<1> USE DEF vars, srcVars, relayVars, subVars, bufVars, txVars, sentVars, dstVars
<1>t. hist \in Seq(Link) /\ exec.link \in Link
  BY DEF LinkInv, TypeOK
<1>f. exec \in [state : {"idle", "running"}, by : Relays \cup {NoRelay},
                todo : Batch, link : Link, out : Seq(Nat)]
  BY DEF LinkInv, TypeOK
<1>1. ASSUME hist' = hist  PROVE CurrentLink' = CurrentLink
  BY <1>1 DEF CurrentLink, CurrentHeight
<1>2. CASE UNCHANGED <<hist, exec>>  BY <1>1, <1>2
<1>3. ASSUME NEW r \in Relays, RelayStep(r) \/ LoseTx(r) \/ FailTx(r)
      PROVE  UNCHANGED <<hist, exec>>
  BY <1>3 DEF RelayStep, Start, ReceiveBlock, ReceiveGap, Relay, RelayNothing, RelayGap, Send,
              SendError, ReceiptFound, ReceiptRetry, ReceiptGiveUp, Crash, LoseTx, FailTx
<1>4. ASSUME SourceStep  PROVE UNCHANGED <<hist, exec>>
  BY <1>4 DEF SourceStep, SendMessage, SendMessageAgain, NewBlock
<1>5. ASSUME NEW r \in Relays, ExecTx(r)  PROVE hist' = hist /\ exec'.link = CurrentLink
  BY <1>5 DEF ExecTx, BeginExec
<1>6. ASSUME NEW b \in pool, ExecPooled(b)  PROVE hist' = hist /\ exec'.link = CurrentLink
  BY <1>6 DEF ExecPooled, BeginExec
<1>7. ASSUME NEW b \in pool, LosePooled(b)  PROVE UNCHANGED <<hist, exec>>
  BY <1>7 DEF LosePooled
<1>8. ASSUME HandleOldReceipt
      PROVE  hist' = hist /\ exec.state = "running" /\ exec'.link = exec.link
  BY <1>8, <1>f DEF HandleOldReceipt
<1>9. ASSUME HandleReceipt  PROVE hist' = hist  BY <1>9 DEF HandleReceipt
<1>10. ASSUME HandleRevert  PROVE hist' = hist /\ exec'.state = "idle"
  BY <1>10 DEF HandleRevert, IdleExec
<1>11. ASSUME Commit
       PROVE  exec.state = "running" /\ CurrentLink' = exec.link /\ exec'.state = "idle"
  <2>1. /\ exec.state = "running" /\ exec'.state = "idle"
        /\ hist' = IF exec.link = CurrentLink THEN hist ELSE Append(hist, exec.link)
    BY <1>11 DEF Commit, IdleExec
  <2>2. CASE exec.link = CurrentLink  BY <2>1, <2>2, <1>1
  <2>3. CASE exec.link # CurrentLink
    <3>1. hist' = Append(hist, exec.link)  BY <2>1, <2>3
    <3>2. CurrentLink' = exec.link
      BY <1>t, <3>1, AppendProperties DEF CurrentLink, CurrentHeight
    <3> QED  BY <2>1, <3>2
  <2> QED  BY <2>2, <2>3
<1>12. CASE UNCHANGED vars  BY <1>2, <1>12
<1> QED
  BY <1>1, <1>2, <1>3, <1>4, <1>5, <1>6, <1>7, <1>8, <1>9, <1>10, <1>11, <1>12 DEF Next, ExecStep

\* No step dispatches a message before it is emitted: a transaction holds
\* events of the source only.
LEMMA NotAheadStep ==
    ASSUME LinkInv, NotAhead, [Next]_vars
    PROVE  NotAhead'
<1>t. /\ TxSeq \in Nat /\ CurrentLink.rxSeq \in Nat /\ exec.link.rxSeq \in Nat
      /\ exec.todo \in Batch /\ receipts \in Batch
  BY LinkInvTypes, TxSeqIsHighest
<1>1. TxSeq' \in Nat /\ TxSeq' >= TxSeq  BY <1>t, TxSeqStep
<1>2. CASE CurrentLink' = CurrentLink /\ exec' = exec
  <2>1. exec'.link.rxSeq = exec.link.rxSeq /\ exec'.state = exec.state  BY <1>2
  <2> QED  BY <1>t, <1>1, <1>2, <2>1 DEF NotAhead
<1>3. CASE CurrentLink' = CurrentLink /\ (exec'.state = "idle" \/ exec'.link = CurrentLink)
  BY <1>t, <1>1, <1>3 DEF NotAhead
<1>4. CASE CurrentLink' = CurrentLink /\ exec.state = "running" /\ exec'.link = exec.link
  BY <1>t, <1>1, <1>4 DEF NotAhead
<1>5. CASE exec.state = "running" /\ CurrentLink' = exec.link /\ exec'.state = "idle"
  BY <1>t, <1>1, <1>5 DEF NotAhead
<1>6. CASE CurrentLink' = CurrentLink /\ HandleReceipt
  <2> DEFINE rc == Head(exec.todo)
             seq == exec.link.rxSeq
             top == IF rc.last > seq THEN rc.last ELSE seq
             lnk == [rxHeight |-> rc.height, rxSeq |-> top]
  <2>1. /\ exec.state = "running" /\ exec.todo # <<>>
        /\ exec' = [exec EXCEPT !.todo = Tail(exec.todo), !.link = lnk,
                                !.out = exec.out \o Interval(FirstNew(rc, seq), rc.last)]
    BY <1>6 DEF HandleReceipt
  <2>2. 1 \in DOMAIN exec.todo /\ rc = exec.todo[1] /\ rc.last \in Nat
    BY <1>t, <2>1, BatchFields
  <2>3. FromSource(exec.todo)  BY <2>1 DEF LinkInv, ExecSound, Relayable
  <2>4. PICK j \in DOMAIN receipts : rc.last <= receipts[j].last  BY <2>2, <2>3 DEF FromSource
  <2>5. receipts[j].last <= TxSeq /\ receipts[j].last \in Nat  BY <1>t, TxSeqIsHighest, BatchFields
  <2>6. exec'.link.rxSeq = top
    <3>1. exec \in [state : {"idle", "running"}, by : Relays \cup {NoRelay},
                    todo : Batch, link : Link, out : Seq(Nat)]
      BY DEF LinkInv, TypeOK
    <3> QED  BY <3>1, <2>1
  <2>7. top <= TxSeq /\ top \in Nat
    <3>1. seq <= TxSeq  BY <2>1 DEF NotAhead
    <3> HIDE DEF rc
    <3> QED  BY <1>t, <2>2, <2>4, <2>5, <3>1
  <2> HIDE DEF top
  <2> QED  BY <1>t, <1>1, <1>6, <2>6, <2>7 DEF NotAhead
<1> QED  BY <1>2, <1>3, <1>4, <1>5, <1>6, LinkSteps

\* Every step of the link is a step of the channel or leaves it as it was.
LEMMA ChannelStep ==
    ASSUME LinkInv, NotAhead, [Next]_vars
    PROVE  [Channel!ChanNext]_(Channel!chanVars)
<1>t. /\ TxSeq \in Nat /\ CurrentLink.rxSeq \in Nat /\ exec.link.rxSeq \in Nat
  BY LinkInvTypes, TxSeqIsHighest
<1>c. CurrentLink' = CurrentLink \/ (exec.state = "running" /\ CurrentLink' = exec.link)
  BY LinkSteps
<1>1. CASE TxSeq' = TxSeq
  <2>1. CASE CurrentLink' = CurrentLink  BY <1>1, <2>1 DEF Channel!chanVars
  <2>2. CASE exec.state = "running" /\ CurrentLink' = exec.link
    <3>1. exec.link.rxSeq <= TxSeq /\ exec.link.rxSeq >= CurrentLink.rxSeq
      BY <2>2 DEF NotAhead, LinkInv, ExecSound
    <3>2. CASE exec.link.rxSeq = CurrentLink.rxSeq  BY <1>1, <2>2, <3>2 DEF Channel!chanVars
    <3>3. CASE exec.link.rxSeq # CurrentLink.rxSeq
      <4>1. exec.link.rxSeq \in (CurrentLink.rxSeq + 1) .. TxSeq  BY <1>t, <3>1, <3>3
      <4> QED  BY <1>1, <2>2, <4>1 DEF Channel!ChanNext, Channel!ChanReceive
    <3> QED  BY <3>2, <3>3
  <2> QED  BY <1>c, <2>1, <2>2
<1>2. CASE TxSeq' = TxSeq + 1 /\ UNCHANGED <<hist, exec>>
  <2>1. CurrentLink' = CurrentLink  BY <1>2 DEF CurrentLink, CurrentHeight
  <2> QED  BY <1>2, <2>1 DEF Channel!ChanNext, Channel!ChanSend
<1> QED  BY <1>1, <1>2, TxSeqStep

\* One direction of a link is a first-in first-out channel: handleRelayMessage
\* advances the receiving side over messages the source emitted, and nothing a
\* relay does moves either side in another way.
THEOREM ImplementsChannelSafely == Spec => Channel!ChanSafety
<1>1. Init => Channel!ChanInit /\ NotAhead
  <2> SUFFICES ASSUME Init PROVE Channel!ChanInit /\ NotAhead  OBVIOUS
  <2>1. receipts = <<>> /\ hist = <<[rxSeq |-> 0, rxHeight |-> 0]>> /\ exec = IdleExec
    BY DEF Init
  <2>2. TxSeq = 0 /\ CurrentLink.rxSeq = 0 /\ exec.state = "idle"
    BY <2>1 DEF TxSeq, CurrentLink, CurrentHeight, IdleExec
  <2> QED  BY <2>2 DEF Channel!ChanInit, NotAhead
<1>2. LinkInv /\ NotAhead /\ [Next]_vars => NotAhead'  BY NotAheadStep
<1>3. LinkInv /\ NotAhead /\ [Next]_vars => [Channel!ChanNext]_(Channel!chanVars)  BY ChannelStep
<1> QED  BY <1>1, <1>2, <1>3, LinkInvariant, PTL DEF Spec, Channel!ChanSafety
=============================================================================
