-------------------------- MODULE AlgoLink_proofs --------------------------
(***************************************************************************)
(* Proofs about AlgoLink: the inductive invariant AlgoInv, for any chains, *)
(* group limit, number of subscriptions, faults and races, and from it     *)
(* that while the accesses of the file do not meet no event of ICON is     *)
(* given up and the messages of Algorand are handled once and in order,    *)
(* and that all of them are until something fails.                         *)
(***************************************************************************)
EXTENDS AlgoLink, Sums_proofs, SequenceTheorems, TLAPS

-----------------------------------------------------------------------------
(* The chains.                                                             *)

\* What the chains hold.
LEMMA ChainTypes ==
    ASSUME chains \in Chains
    PROVE  /\ MaxSubs \in Nat \ {0} /\ ReceiptRetries \in Nat /\ MaxFaults \in Nat
           /\ AtomicTxnLimit \in Nat
           /\ AlgoBlocks \in Seq(Seq(Nat)) /\ Len(AlgoBlocks) \in Nat
           /\ DOMAIN AlgoBlocks = 1 .. Len(AlgoBlocks)
           /\ VerifierRound \in 1 .. Len(AlgoBlocks)
           /\ Len(IconReceipts) \in Nat /\ DOMAIN IconReceipts = 1 .. Len(IconReceipts)
           /\ IconReceipts \in Seq([height : Nat, first : Nat \ {0}, last : Nat])
<1>1. chains.algo \in Seq(Seq(Nat)) /\ VerifierRound \in DOMAIN chains.algo
      /\ chains.icon \in Seq([height : Nat, first : Nat \ {0}, last : Nat])
  BY AlgoAssumption
<1>2. MaxSubs \in Nat \ {0} /\ ReceiptRetries \in Nat /\ MaxFaults \in Nat
      /\ AtomicTxnLimit \in Nat
  BY AlgoAssumption
<1> QED  BY <1>1, <1>2 DEF AlgoBlocks, IconReceipts

\* The events of a receipt of ICON are up to MaxEvents.
LEMMA IconTypes ==
    ASSUME chains \in Chains
    PROVE  MaxEvents \in Nat /\ \A i \in 1 .. Len(IconReceipts) : IconReceipts[i] \in Receipt
<1>1. /\ Len(IconReceipts) \in Nat /\ DOMAIN IconReceipts = 1 .. Len(IconReceipts)
      /\ IconReceipts \in Seq([height : Nat, first : Nat \ {0}, last : Nat])
      /\ AtomicTxnLimit \in Nat
  BY ChainTypes
<1>2. /\ \A i \in DOMAIN IconReceipts :
            IconReceipts[i].last - IconReceipts[i].first + 1 \in 1 .. AtomicTxnLimit - 1
      /\ \A i, j \in DOMAIN IconReceipts : i < j => IconReceipts[i].last < IconReceipts[j].first
  BY AlgoAssumption DEF IconReceipts
<1>3. \A i \in 1 .. Len(IconReceipts) :
        IconReceipts[i] \in [height : Nat, first : Nat \ {0}, last : Nat]
  BY <1>1, ElementOfSeq
<1>4. MaxEvents \in Nat
  <2>1. CASE IconReceipts = <<>>  BY <2>1 DEF MaxEvents
  <2>2. CASE IconReceipts # <<>>
    <3>1. Len(IconReceipts) \in 1 .. Len(IconReceipts)  BY <1>1, <2>2
    <3> QED  BY <1>3, <2>2, <3>1 DEF MaxEvents
  <2> QED  BY <2>1, <2>2
<1> SUFFICES ASSUME NEW i \in 1 .. Len(IconReceipts) PROVE IconReceipts[i] \in Receipt
  BY <1>4
<1> DEFINE n == Len(IconReceipts)  r == IconReceipts[i]  t == IconReceipts[n]
<1>5. n \in 1 .. n /\ IconReceipts # <<>> /\ MaxEvents = t.last
  BY <1>1 DEF MaxEvents
<1>6. /\ r \in [height : Nat, first : Nat \ {0}, last : Nat]
      /\ t \in [height : Nat, first : Nat \ {0}, last : Nat]
      /\ r.last - r.first + 1 \in 1 .. AtomicTxnLimit - 1
      /\ t.last - t.first + 1 \in 1 .. AtomicTxnLimit - 1
  BY <1>1, <1>2, <1>3, <1>5
<1>7. i < n => r.last < t.first  BY <1>1, <1>2, <1>5
<1>8. i = n => r = t  OBVIOUS
<1> HIDE DEF n, r, t
<1>9. r.last <= MaxEvents /\ r.first <= r.last
  <2>1. i < n \/ i = n
    <3>1. n \in Nat /\ i \in 1 .. n  BY <1>1 DEF n
    <3> QED  BY <3>1
  <2>2. /\ r.last \in Nat /\ r.first \in Nat /\ r.first > 0
        /\ t.last \in Nat /\ t.first \in Nat /\ t.first > 0
    BY <1>6
  <2>3. r.first <= r.last /\ t.first <= t.last
    <3>1. \A a, b \in Nat : b - a + 1 \in 1 .. AtomicTxnLimit - 1 => a <= b  BY <1>1
    <3> QED  BY <1>6, <2>2, <3>1
  <2> QED  BY <1>5, <1>7, <1>8, <2>1, <2>2, <2>3
<1>10. r \in Receipt
  <2>1. r.last \in 1 .. MaxEvents /\ r.first \in 1 .. MaxEvents  BY <1>4, <1>6, <1>9
  <2>2. r \in [height : Nat, first : 1 .. MaxEvents, last : 1 .. MaxEvents]
    BY <1>6, <2>1
  <2> QED  BY <1>6, <2>2 DEF Receipt
<1> QED  BY <1>10 DEF r

\* Rounds hold messages and zeros; messages are numbers from 1 on.
LEMMA BlockTypes ==
    ASSUME chains \in Chains
    PROVE  /\ Messages \subseteq Nat \ {0}
           /\ \A q \in 1 .. Len(AlgoBlocks) :
                 /\ AlgoBlocks[q] \in Seq(Messages \cup {0}) /\ Len(AlgoBlocks[q]) \in Nat
                 /\ DOMAIN AlgoBlocks[q] = 1 .. Len(AlgoBlocks[q])
                 /\ \A i \in 1 .. Len(AlgoBlocks[q]) :
                       /\ AlgoBlocks[q][i] \in Nat
                       /\ AlgoBlocks[q][i] # 0 => AlgoBlocks[q][i] \in Messages
<1>1. AlgoBlocks \in Seq(Seq(Nat)) /\ DOMAIN AlgoBlocks = 1 .. Len(AlgoBlocks)
  BY ChainTypes
<1>2. \A q \in 1 .. Len(AlgoBlocks) : AlgoBlocks[q] \in Seq(Nat)  BY <1>1
<1>3. Messages = (UNION {Range(AlgoBlocks[r]) : r \in DOMAIN AlgoBlocks}) \ {0}
  BY DEF Messages, MessagesIn, AlgoBlocks
<1>4. ASSUME NEW q \in 1 .. Len(AlgoBlocks)
      PROVE  /\ Len(AlgoBlocks[q]) \in Nat
             /\ DOMAIN AlgoBlocks[q] = 1 .. Len(AlgoBlocks[q])
             /\ \A i \in 1 .. Len(AlgoBlocks[q]) :
                   /\ AlgoBlocks[q][i] \in Nat
                   /\ AlgoBlocks[q][i] # 0 => AlgoBlocks[q][i] \in Messages
  <2>1. AlgoBlocks[q] \in Seq(Nat)  BY <1>2
  <2>2. Len(AlgoBlocks[q]) \in Nat /\ DOMAIN AlgoBlocks[q] = 1 .. Len(AlgoBlocks[q])
        /\ \A i \in 1 .. Len(AlgoBlocks[q]) : AlgoBlocks[q][i] \in Nat
    BY <2>1
  <2>3. \A i \in 1 .. Len(AlgoBlocks[q]) : AlgoBlocks[q][i] \in Range(AlgoBlocks[q])
    BY <2>2 DEF Range
  <2>4. Range(AlgoBlocks[q]) \ {0} \subseteq Messages  BY <1>1, <1>3
  <2> QED  BY <2>2, <2>3, <2>4
<1>5. Messages \subseteq Nat \ {0}
  <2> SUFFICES ASSUME NEW m \in Messages PROVE m \in Nat \ {0}  OBVIOUS
  <2>1. PICK r \in DOMAIN AlgoBlocks : m \in Range(AlgoBlocks[r])  BY <1>3
  <2>2. AlgoBlocks[r] \in Seq(Nat)  BY <1>1, <1>2, <2>1
  <2>3. Range(AlgoBlocks[r]) \subseteq Nat  BY <2>2 DEF Range
  <2>4. m # 0  BY <1>3
  <2> QED  BY <2>1, <2>3, <2>4
<1>6. ASSUME NEW q \in 1 .. Len(AlgoBlocks)
      PROVE  AlgoBlocks[q] \in Seq(Messages \cup {0})
  <2>1. AlgoBlocks[q] \in Seq(Nat)  BY <1>2
  <2>2. \A i \in 1 .. Len(AlgoBlocks[q]) : AlgoBlocks[q][i] \in Messages \cup {0}
    BY <1>4
  <2> QED  BY <2>1, <2>2
<1> QED  BY <1>4, <1>5, <1>6

\* The messages are in order, without a gap, and none is before the
\* verifier's round.
LEMMA MessageOrder ==
    ASSUME chains \in Chains
    PROVE  /\ \A r, q \in 1 .. Len(AlgoBlocks) :
                 \A i \in 1 .. Len(AlgoBlocks[r]), j \in 1 .. Len(AlgoBlocks[q]) :
                    /\ AlgoBlocks[r][i] # 0 /\ AlgoBlocks[q][j] # 0
                    /\ r < q \/ (r = q /\ i < j)
                    => AlgoBlocks[r][i] < AlgoBlocks[q][j]
           /\ \A m \in Messages : \A k \in 1 .. m : k \in Messages
           /\ \A m \in Messages : \E r \in 1 .. Len(AlgoBlocks) :
                 \E i \in 1 .. Len(AlgoBlocks[r]) : AlgoBlocks[r][i] = m
           /\ \A r \in 1 .. VerifierRound - 1 : \A i \in 1 .. Len(AlgoBlocks[r]) :
                 AlgoBlocks[r][i] = 0
<1>1. /\ DOMAIN AlgoBlocks = 1 .. Len(AlgoBlocks) /\ Len(AlgoBlocks) \in Nat
      /\ VerifierRound \in 1 .. Len(AlgoBlocks)
  BY ChainTypes
<1>2. /\ \A q \in 1 .. Len(AlgoBlocks) : DOMAIN AlgoBlocks[q] = 1 .. Len(AlgoBlocks[q])
      /\ Messages \subseteq Nat \ {0}
  BY BlockTypes
<1>3. /\ IsFiniteSet(Messages) /\ Messages = 1 .. Cardinality(Messages)
      /\ \A r, q \in DOMAIN AlgoBlocks :
            \A i \in DOMAIN AlgoBlocks[r], j \in DOMAIN AlgoBlocks[q] :
               /\ AlgoBlocks[r][i] # 0 /\ AlgoBlocks[q][j] # 0
               /\ r < q \/ (r = q /\ i < j)
               => AlgoBlocks[r][i] < AlgoBlocks[q][j]
      /\ \A r \in 1 .. VerifierRound - 1 : \A i \in DOMAIN AlgoBlocks[r] :
            AlgoBlocks[r][i] = 0
  BY MessageAssumption DEF Messages, AlgoBlocks
<1>4. \A r \in 1 .. VerifierRound - 1 : r \in 1 .. Len(AlgoBlocks)  BY <1>1
<1>5. \A m \in Messages : \A k \in 1 .. m : k \in Messages
  <2>1. Cardinality(Messages) \in Nat  BY <1>3, FS_CardinalityType
  <2> DEFINE n == Cardinality(Messages)
  <2> HIDE DEF n
  <2>2. \A m \in 1 .. n : \A k \in 1 .. m : k \in 1 .. n  BY <2>1 DEF n
  <2> QED  BY <1>3, <2>2 DEF n
<1>6. ASSUME NEW m \in Messages
      PROVE  \E r \in 1 .. Len(AlgoBlocks) :
                \E i \in 1 .. Len(AlgoBlocks[r]) : AlgoBlocks[r][i] = m
  <2>1. PICK r \in DOMAIN AlgoBlocks : m \in Range(AlgoBlocks[r])
    BY DEF Messages, MessagesIn, AlgoBlocks
  <2>2. PICK i \in DOMAIN AlgoBlocks[r] : m = AlgoBlocks[r][i]  BY <2>1 DEF Range
  <2> QED  BY <1>1, <1>2, <2>1, <2>2
<1>7. \A r \in 1 .. VerifierRound - 1 : \A i \in 1 .. Len(AlgoBlocks[r]) :
        AlgoBlocks[r][i] = 0
  BY <1>2, <1>3, <1>4
<1>8. ASSUME NEW r \in 1 .. Len(AlgoBlocks), NEW q \in 1 .. Len(AlgoBlocks),
             NEW i \in 1 .. Len(AlgoBlocks[r]), NEW j \in 1 .. Len(AlgoBlocks[q]),
             AlgoBlocks[r][i] # 0, AlgoBlocks[q][j] # 0, r < q \/ (r = q /\ i < j)
      PROVE  AlgoBlocks[r][i] < AlgoBlocks[q][j]
  <2>1. /\ r \in DOMAIN AlgoBlocks /\ q \in DOMAIN AlgoBlocks
        /\ i \in DOMAIN AlgoBlocks[r] /\ j \in DOMAIN AlgoBlocks[q]
    BY <1>1, <1>2
  <2> QED  BY <1>3, <1>8, <2>1
<1> QED  BY <1>5, <1>6, <1>7, <1>8

-----------------------------------------------------------------------------
(* Types.                                                                  *)

FileTyped ==
    /\ file \in Status \cup {NoStatus}
    /\ access \in [Procs -> [st : {"none", "read", "truncated"},
                             data : Status \cup {NoStatus}]]
    /\ \A p \in Procs : access[p].st # "none" => access[p].data \in Status
    /\ races \in 0 .. MaxFaults

AlgoTyped == algo \in ToAlgo /\ executed \in Seq(1 .. MaxEvents)

VerifierTyped ==
    vr \in [round : VerifierRound .. Len(AlgoBlocks) + MaxSubs - 1,
            hash : 0 .. Len(AlgoBlocks)]

IconTyped ==
    /\ icon \in ToIcon /\ delivered \in Seq(Messages)
    /\ sub \in [Subs -> FromAlgo] /\ failed \in BOOLEAN

\* The type invariant, by the parts that the actions change.
LEMMA TypeParts ==
    TypeOK <=> /\ chains \in Chains /\ FileTyped /\ AlgoTyped /\ VerifierTyped
               /\ IconTyped /\ faults \in 0 .. MaxFaults
BY DEF TypeOK, FileTyped, AlgoTyped, VerifierTyped, IconTyped

\* What does not change with the chains.
LEMMA SameChains ==
    ASSUME UNCHANGED chains
    PROVE  /\ AlgoBlocks' = AlgoBlocks /\ IconReceipts' = IconReceipts
           /\ Messages' = Messages /\ MaxEvents' = MaxEvents
           /\ Status' = Status /\ Receipt' = Receipt /\ Labeled' = Labeled
           /\ ToAlgo' = ToAlgo /\ ToIcon' = ToIcon /\ FromAlgo' = FromAlgo
BY DEF AlgoBlocks, IconReceipts, Messages, MaxEvents, Status, Receipt, Labeled,
       Tx, ToAlgo, ToIcon, FromAlgo

\* An empty file is no status.
LEMMA NoStatusIsNone == NoStatus \notin Status
<1>1. \A d \in Status : d.rx_seq \in Nat  BY DEF Status
<1>2. NoStatus.rx_seq = -1  BY DEF NoStatus
<1> QED  BY <1>1, <1>2

\* Every access keeps the types of the file.
LEMMA ReadTypes ==
    ASSUME FileTyped, chains \in Chains, UNCHANGED <<chains, faults>>, faults \in Nat,
           NEW p \in Procs,
           ReadFile(p) \/ Truncate(p) \/ ReadFails(p)
    PROVE  FileTyped'
<1>1. Status' = Status /\ MaxFaults \in Nat  BY SameChains, ChainTypes
<1>2. CASE ReadFile(p)
  <2>1. file \in Status  BY <1>2 DEF ReadFile, FileTyped
  <2> QED  BY <1>1, <1>2, <2>1 DEF ReadFile, FileTyped
<1>3. CASE Truncate(p)
  <2>1. access[p].data \in Status  BY <1>3 DEF Truncate, FileTyped
  <2>2. races' \in 0 .. MaxFaults  BY <1>1, <1>3 DEF Truncate, Met, FileTyped
  <2> QED  BY <1>1, <1>3, <2>1, <2>2 DEF Truncate, FileTyped
<1>4. CASE ReadFails(p)
  <2>2. races' \in 0 .. MaxFaults  BY <1>1, <1>4 DEF ReadFails, Met, FileTyped
  <2> QED  BY <1>1, <1>4, <2>2 DEF ReadFails, FileTyped
<1> QED  BY <1>2, <1>3, <1>4

LEMMA WriteTypes ==
    ASSUME FileTyped, chains \in Chains, UNCHANGED <<chains, faults>>, faults \in Nat,
           NEW p \in Procs, NEW data \in Status, WriteFile(p, data)
    PROVE  FileTyped'
<1>1. Status' = Status /\ MaxFaults \in Nat  BY SameChains, ChainTypes
<1>2. races' \in 0 .. MaxFaults  BY <1>1 DEF WriteFile, Met, FileTyped
<1>3. file' \in Status \cup {NoStatus}  BY DEF WriteFile
<1>4. NoAccess \in [st : {"none", "read", "truncated"}, data : Status \cup {NoStatus}]
      /\ NoAccess.st = "none"
  BY DEF NoAccess
<1> QED  BY <1>1, <1>2, <1>3, <1>4 DEF WriteFile, FileTyped

\* A receipt of ICON has events, and fits a group.
LEMMA ReceiptFields ==
    ASSUME chains \in Chains, NEW r \in Receipt
    PROVE  /\ r.height \in Nat /\ r.first \in Nat /\ r.last \in Nat
           /\ 1 <= r.first /\ r.first <= r.last /\ r.last <= MaxEvents
           /\ r.last - r.first + 1 < AtomicTxnLimit
<1>1. MaxEvents \in Nat /\ AtomicTxnLimit \in Nat  BY IconTypes, ChainTypes
<1>2. /\ r \in [height : Nat, first : 1 .. MaxEvents, last : 1 .. MaxEvents]
      /\ r.last - r.first + 1 \in 1 .. AtomicTxnLimit - 1
  BY DEF Receipt
<1>3. r.height \in Nat /\ r.first \in 1 .. MaxEvents /\ r.last \in 1 .. MaxEvents  BY <1>2
<1>4. \A a, b \in 1 .. MaxEvents : b - a + 1 \in 1 .. AtomicTxnLimit - 1
                                      => a <= b /\ b - a + 1 < AtomicTxnLimit
  BY <1>1
<1> QED  BY <1>1, <1>2, <1>3, <1>4

\* What is left of a receipt.
LEMMA AfterType ==
    ASSUME chains \in Chains, NEW r \in Receipt, NEW n \in Nat, n < r.last
    PROVE  After(r, n) \in Receipt
<1>1. MaxEvents \in Nat /\ AtomicTxnLimit \in Nat  BY IconTypes, ChainTypes
<1>2. /\ r \in [height : Nat, first : 1 .. MaxEvents, last : 1 .. MaxEvents]
      /\ r.last - r.first + 1 \in 1 .. AtomicTxnLimit - 1
  BY DEF Receipt
<1> DEFINE f == IF r.first > n THEN r.first ELSE n + 1
<1>3. r.first \in 1 .. MaxEvents /\ r.last \in 1 .. MaxEvents  BY <1>2
<1>4. f \in 1 .. MaxEvents /\ r.last - f + 1 \in 1 .. AtomicTxnLimit - 1
  BY <1>1, <1>2, <1>3
<1>5. After(r, n) = [r EXCEPT !.first = f]  BY DEF After
<1> HIDE DEF f
<1>6. After(r, n) \in [height : Nat, first : 1 .. MaxEvents, last : 1 .. MaxEvents]
      /\ After(r, n).first = f /\ After(r, n).last = r.last
  BY <1>2, <1>4, <1>5
<1> QED  BY <1>4, <1>6 DEF Receipt

\* filterSrcMsg leaves receipts.
LEMMA FilteredType ==
    ASSUME chains \in Chains, NEW msg \in Seq(Receipt), NEW link \in Status
    PROVE  Filtered(msg, link) \in Seq(Receipt)
<1> DEFINE I == {i \in DOMAIN msg : msg[i].height >= link.rx_height /\ msg[i].last > link.rx_seq}
           new == Keep(msg, I)
<1>1. /\ new \in Seq(Receipt) /\ Len(new) = Cardinality(I) /\ Cardinality(I) \in Nat
      /\ \A k \in 1 .. Cardinality(I) : \E i \in I : new[k] = msg[i]
  <2>1. I \in SUBSET DOMAIN msg  OBVIOUS
  <2> HIDE DEF I
  <2> QED  BY <2>1, KeepType
<1>2. Filtered(msg, link) = [i \in DOMAIN new |-> After(new[i], link.rx_seq)]
  BY DEF Filtered
<1>3. link.rx_seq \in Nat  BY DEF Status
<1>4. \A k \in 1 .. Len(new) : new[k] \in Receipt /\ new[k].last > link.rx_seq
  <2> SUFFICES ASSUME NEW k \in 1 .. Len(new)
               PROVE  new[k] \in Receipt /\ new[k].last > link.rx_seq
    OBVIOUS
  <2>1. new[k] \in Receipt  BY <1>1, ElementOfSeq
  <2>2. PICK i \in I : new[k] = msg[i]  BY <1>1
  <2> QED  BY <2>1, <2>2
<1> HIDE DEF new
<1>5. \A k \in 1 .. Len(new) : After(new[k], link.rx_seq) \in Receipt
  <2> SUFFICES ASSUME NEW k \in 1 .. Len(new) PROVE After(new[k], link.rx_seq) \in Receipt
    OBVIOUS
  <2>1. new[k] \in Receipt /\ new[k].last > link.rx_seq  BY <1>4
  <2>2. new[k].last \in Nat
    <3>1. MaxEvents \in Nat  BY IconTypes
    <3> QED  BY <2>1, <3>1 DEF Receipt
  <2> QED  BY <1>3, <2>1, <2>2, AfterType
<1>6. DOMAIN new = 1 .. Len(new) /\ Len(new) \in Nat  BY <1>1
<1> QED  BY <1>2, <1>5, <1>6

\* Events that follow one another are above the first of them.
LEMMA ConsecutiveGrow ==
    ASSUME chains \in Chains, NEW msg \in Seq(Receipt), NEW link \in Status,
           ~Missing(msg, link), msg # <<>>
    PROVE  /\ msg[1].first = link.rx_seq + 1
           /\ \A k \in 1 .. Len(msg) : msg[1].first <= msg[k].last
<1>1. Len(msg) \in Nat /\ Len(msg) >= 1 /\ DOMAIN msg = 1 .. Len(msg)  OBVIOUS
<1>2. \A k \in 1 .. Len(msg) : /\ msg[k].first \in Nat /\ msg[k].last \in Nat
                               /\ msg[k].first <= msg[k].last
  <2> SUFFICES ASSUME NEW k \in 1 .. Len(msg)
               PROVE  /\ msg[k].first \in Nat /\ msg[k].last \in Nat
                      /\ msg[k].first <= msg[k].last
    OBVIOUS
  <2>1. msg[k] \in Receipt  BY ElementOfSeq
  <2> QED  BY <2>1, ReceiptFields
<1>3. msg[1].first = link.rx_seq + 1
  <2>1. link.rx_seq \in Nat  BY DEF Status
  <2> QED  BY <1>1, <2>1 DEF Missing
<1>4. \A k \in 1 .. Len(msg) : k # 1 => msg[k].first = 1 + msg[k - 1].last
  BY <1>1 DEF Missing
<1> DEFINE I == {n \in Nat : n + 1 <= Len(msg) => msg[1].first <= msg[n + 1].last}
<1>5. 0 \in I  BY <1>1, <1>2
<1>6. \A n \in Nat : n \in I => n + 1 \in I
  <2> SUFFICES ASSUME NEW n \in Nat, n \in I, n + 2 <= Len(msg)
               PROVE  msg[1].first <= msg[n + 2].last
    OBVIOUS
  <2>1. n + 1 \in 1 .. Len(msg) /\ n + 2 \in 1 .. Len(msg) /\ n + 2 # 1 /\ (n + 2) - 1 = n + 1
    BY <1>1
  <2>2. msg[1].first <= msg[n + 1].last  BY <1>1, <2>1
  <2>3. msg[n + 2].first = 1 + msg[n + 1].last
    <3>1. msg[n + 2].first = 1 + msg[(n + 2) - 1].last  BY <1>4, <2>1
    <3> QED  BY <2>1, <3>1
  <2>4. 1 \in 1 .. Len(msg)  BY <1>1
  <2> QED  BY <1>2, <2>1, <2>2, <2>3, <2>4
<1>7. \A n \in Nat : n \in I
  <2> HIDE DEF I
  <2> QED  BY <1>5, <1>6, NatSet
<1>8. ASSUME NEW k \in 1 .. Len(msg) PROVE msg[1].first <= msg[k].last
  <2>1. k - 1 \in Nat /\ (k - 1) + 1 = k /\ k <= Len(msg)  BY <1>1
  <2>2. k - 1 \in I  BY <1>7, <2>1
  <2>3. msg[1].first <= msg[(k - 1) + 1].last  BY <2>1, <2>2
  <2> QED  BY <2>1, <2>3
<1> QED  BY <1>3, <1>8

\* Segment takes at least one receipt, since each of them fits a group.
LEMMA SegmentTakes ==
    ASSUME chains \in Chains, NEW msg \in Seq(Receipt), msg # <<>>
    PROVE  Taken(msg) \in 1 .. Len(msg) /\ Rest(msg) \in Seq(Receipt)
<1>1. Len(msg) \in Nat /\ Len(msg) >= 1 /\ DOMAIN msg = 1 .. Len(msg)  OBVIOUS
<1> DEFINE S == {n \in 0 .. Len(msg) : \A k \in 1 .. n :
                    msg[k].last - msg[1].first + 1 < AtomicTxnLimit}
<1>2. 1 \in S
  <2>1. msg[1] \in Receipt  BY <1>1, ElementOfSeq
  <2>2. msg[1].last - msg[1].first + 1 < AtomicTxnLimit  BY <2>1, ReceiptFields
  <2>3. \A k \in 1 .. 1 : k = 1  OBVIOUS
  <2> QED  BY <1>1, <2>2, <2>3
<1>3. S \in SUBSET (0 .. Len(msg)) /\ S # {}  BY <1>2
<1>4. Taken(msg) = Max(S)  BY DEF Taken
<1> HIDE DEF S
<1>5. Taken(msg) \in S /\ 1 <= Taken(msg)  BY <1>1, <1>2, <1>3, <1>4, MaxIsGreatest
<1>6. Taken(msg) \in 1 .. Len(msg)
  <2>1. Taken(msg) \in 0 .. Len(msg)  BY <1>3, <1>5
  <2> QED  BY <1>1, <1>5, <2>1
<1>7. SubSeq(msg, Taken(msg) + 1, Len(msg)) \in Seq(Receipt)
  <2> DEFINE t == Taken(msg)
  <2>1. t \in Nat /\ t <= Len(msg)  BY <1>1, <1>6
  <2> HIDE DEF t
  <2>2. SubSeq(msg, t + 1, Len(msg)) \in Seq(Receipt)  BY <1>1, <2>1, SubSeqProperties
  <2> QED  BY <2>2 DEF t
<1> QED  BY <1>6, <1>7 DEF Rest

\* Executing a transaction.
LEMMA SpanType ==
    ASSUME NEW n \in Nat, NEW a \in Nat, NEW b \in Nat, a >= 1, b <= n, NEW e \in Seq(1 .. n)
    PROVE  /\ Span(a, b) \in Seq(1 .. n) /\ e \o Span(a, b) \in Seq(1 .. n)
           /\ a <= b => Len(Span(a, b)) = b - a + 1
           /\ a > b => Len(Span(a, b)) = 0
           /\ \A i \in 1 .. Len(Span(a, b)) : Span(a, b)[i] = a + i - 1
<1> DEFINE m == IF a <= b THEN b - a + 1 ELSE 0
<1>1. m \in Nat /\ 1 .. b - a + 1 = 1 .. m /\ \A i \in 1 .. m : a + i - 1 \in 1 .. n
  OBVIOUS
<1>2. Span(a, b) = [i \in 1 .. m |-> a + i - 1]  BY <1>1 DEF Span
<1>3. (a <= b => m = b - a + 1) /\ (a > b => m = 0)  OBVIOUS
<1> HIDE DEF m
<1>4. Span(a, b) \in Seq(1 .. n) /\ Len(Span(a, b)) = m  BY <1>1, <1>2
<1>5. \A i \in 1 .. m : Span(a, b)[i] = a + i - 1  BY <1>2
<1>6. e \o Span(a, b) \in Seq(1 .. n)  BY <1>4, ConcatProperties
<1> QED  BY <1>3, <1>4, <1>5, <1>6

\* The fields of the relay to Algorand.
LEMMA ToAlgoFields ==
    ASSUME chains \in Chains, AlgoTyped
    PROVE  /\ algo.pc \in {"start", "run", "send", "seq", "height"} /\ algo.seq \in Nat
           /\ algo.pos \in 0 .. Len(IconReceipts) /\ algo.height \in Nat
           /\ algo.srcMsg \in Seq(Receipt) /\ algo.txBlockHeight \in Nat
           /\ algo.retry \in 0 .. ReceiptRetries /\ algo.tx \in Tx
           /\ algo.tx.first \in Nat /\ algo.tx.first >= 1 /\ algo.tx.last \in Nat
           /\ algo.tx.last <= MaxEvents /\ algo.tx.height \in Nat
           /\ algo.tx.newMsg \in Seq(Receipt)
<1>1. MaxEvents \in Nat  BY IconTypes
<1>2. /\ algo.pc \in {"start", "run", "send", "seq", "height"} /\ algo.seq \in Nat
      /\ algo.pos \in 0 .. Len(IconReceipts) /\ algo.height \in Nat
      /\ algo.srcMsg \in Seq(Receipt) /\ algo.txBlockHeight \in Nat
      /\ algo.retry \in 0 .. ReceiptRetries /\ algo.tx \in Tx
  BY DEF AlgoTyped, ToAlgo
<1>3. algo.tx.first \in Nat \ {0} /\ algo.tx.last \in 0 .. MaxEvents
      /\ algo.tx.height \in Nat /\ algo.tx.newMsg \in Seq(Receipt)
  BY <1>2 DEF Tx
<1> QED  BY <1>1, <1>2, <1>3

\* A relay that was stopped.
LEMMA StoppedType ==
    ASSUME chains \in Chains
    PROVE  Stopped \in ToAlgo /\ NoTx \in Tx
<1>1. NoTx \in Tx
  <2>1. MaxEvents \in Nat /\ <<>> \in Seq(Receipt)  BY IconTypes
  <2> QED  BY <2>1 DEF NoTx, Tx
<1>2. Len(IconReceipts) \in Nat /\ ReceiptRetries \in Nat /\ <<>> \in Seq(Receipt)
  BY ChainTypes
<1> QED  BY <1>1, <1>2 DEF Stopped, ToAlgo

\* The steps of the relay to Algorand keep its types.
LEMMA AlgoTypes ==
    ASSUME TypeOK, UNCHANGED chains, AlgoStep \/ SendFail \/ Crash
    PROVE  AlgoTyped'
<1>0. chains \in Chains /\ AlgoTyped /\ FileTyped  BY TypeParts
<1>1. ToAlgo' = ToAlgo /\ MaxEvents' = MaxEvents /\ Receipt' = Receipt  BY SameChains
<1>2. /\ algo.pc \in {"start", "run", "send", "seq", "height"} /\ algo.seq \in Nat
      /\ algo.pos \in 0 .. Len(IconReceipts) /\ algo.height \in Nat
      /\ algo.srcMsg \in Seq(Receipt) /\ algo.txBlockHeight \in Nat
      /\ algo.retry \in 0 .. ReceiptRetries /\ algo.tx \in Tx
      /\ algo.tx.newMsg \in Seq(Receipt) /\ algo \in ToAlgo
      /\ executed \in Seq(1 .. MaxEvents)
  BY <1>0, ToAlgoFields DEF AlgoTyped
<1>3. Stopped \in ToAlgo /\ NoTx \in Tx  BY <1>0, StoppedType
<1>4. executed \o Span(algo.tx.first, algo.tx.last) \in Seq(1 .. MaxEvents)
  <2>1. /\ algo.tx.first \in Nat /\ algo.tx.first >= 1 /\ algo.tx.last \in Nat
        /\ algo.tx.last <= MaxEvents /\ MaxEvents \in Nat
    BY <1>0, ToAlgoFields, IconTypes
  <2> QED  BY <1>2, <2>1, SpanType
<1>5. ReceiptRetries \in Nat /\ Len(IconReceipts) \in Nat  BY <1>0, ChainTypes
<1>6. CASE AlgoStart
  <2>1. file.rx_seq \in Nat /\ file.rx_height \in Nat /\ file.tx_height \in Nat
    <3>1. file \in Status /\ Len(AlgoBlocks) \in Nat
      BY <1>0, <1>6, ChainTypes DEF AlgoStart, FileTyped
    <3> QED  BY <3>1 DEF Status
  <2>2. algo' = [pc |-> "run", seq |-> file.rx_seq + 1, pos |-> 0,
                 height |-> file.rx_height, srcMsg |-> <<>>,
                 txBlockHeight |-> file.tx_height, tx |-> NoTx, retry |-> 0]
    BY <1>6 DEF AlgoStart, Stopped
  <2>3. /\ file.rx_seq + 1 \in Nat /\ 0 \in 0 .. Len(IconReceipts)
        /\ <<>> \in Seq(Receipt) /\ 0 \in 0 .. ReceiptRetries
    BY <1>5, <2>1
  <2>4. algo' \in ToAlgo  BY <1>3, <2>1, <2>2, <2>3 DEF ToAlgo
  <2> QED  BY <1>1, <1>2, <1>6, <2>4 DEF AlgoStart, AlgoTyped
<1>7. CASE AlgoReceive
  <2> DEFINE r == IconReceipts[algo.pos + 1]
             m == IF r.height < algo.height \/ r.last < algo.seq THEN algo.srcMsg
                  ELSE Append(algo.srcMsg, After(r, algo.seq - 1))
  <2>1. algo.pos + 1 \in 1 .. Len(IconReceipts)  BY <1>2, <1>5, <1>7 DEF AlgoReceive
  <2>2. r \in Receipt  BY <1>0, <2>1, IconTypes
  <2>3. m \in Seq(Receipt)
    <3>1. CASE r.height < algo.height \/ r.last < algo.seq  BY <1>2, <3>1
    <3>2. CASE ~(r.height < algo.height \/ r.last < algo.seq)
      <4>1. r.last \in Nat /\ r.last >= 1 /\ r.first >= 1 /\ r.first \in Nat
            /\ r.first <= r.last
        BY <1>0, <2>2, ReceiptFields
      <4> HIDE DEF r
      <4>2. CASE algo.seq = 0
        <5>1. algo.seq - 1 = -1 /\ r.first > -1  BY <4>1, <4>2
        <5>2. After(r, algo.seq - 1) = r
          <6>1. After(r, algo.seq - 1) = [r EXCEPT !.first = r.first]
            BY <5>1 DEF After
          <6>2. r \in [height : Nat, first : 1 .. MaxEvents, last : 1 .. MaxEvents]
            BY <2>2 DEF Receipt
          <6> QED  BY <6>1, <6>2
        <5> QED  BY <1>2, <2>2, <3>2, <5>2
      <4>3. CASE algo.seq # 0
        <5>1. algo.seq - 1 \in Nat /\ algo.seq - 1 < r.last  BY <1>2, <3>2, <4>1, <4>3
        <5>2. After(r, algo.seq - 1) \in Receipt  BY <1>0, <2>2, <5>1, AfterType
        <5> QED  BY <1>2, <3>2, <5>2
      <4> QED  BY <4>2, <4>3
    <3> QED  BY <3>1, <3>2
  <2>4. algo' = [algo EXCEPT !.pos = algo.pos + 1, !.srcMsg = m] /\ UNCHANGED executed
    BY <1>7 DEF AlgoReceive
  <2>5. algo.pos + 1 \in 0 .. Len(IconReceipts)  BY <2>1
  <2> HIDE DEF m
  <2>6. algo' \in ToAlgo  BY <1>2, <2>3, <2>4, <2>5 DEF ToAlgo
  <2> QED  BY <1>1, <1>2, <2>4, <2>6 DEF AlgoTyped
<1>8. CASE AlgoRelay
  <2> DEFINE msg == Filtered(algo.srcMsg, file)
  <2>1. UNCHANGED executed  BY <1>8 DEF AlgoRelay
  <2>2. CASE Missing(msg, file)
    <3>1. algo' = Stopped  BY <1>8, <2>2 DEF AlgoRelay
    <3> QED  BY <1>1, <1>2, <1>3, <2>1, <3>1 DEF AlgoTyped
  <2>3. CASE ~Missing(msg, file)
    <3> DEFINE tx == [first |-> msg[1].first, last |-> msg[Taken(msg)].last,
                      height |-> msg[1].height, newMsg |-> Rest(msg)]
    <3>1. msg # <<>> /\ algo' = [algo EXCEPT !.pc = "send", !.srcMsg = msg, !.tx = tx]
      BY <1>8, <2>3 DEF AlgoRelay
    <3>2. file \in Status  BY <1>0, <1>8 DEF AlgoRelay, FileTyped
    <3>3. msg \in Seq(Receipt)  BY <1>0, <1>2, <3>2, FilteredType
    <3> HIDE DEF msg
    <3>4. Taken(msg) \in 1 .. Len(msg) /\ Rest(msg) \in Seq(Receipt)
      BY <1>0, <3>1, <3>3, SegmentTakes
    <3>5. msg[1] \in Receipt /\ msg[Taken(msg)] \in Receipt
      <4>1. 1 \in 1 .. Len(msg)  BY <3>1, <3>3
      <4> QED  BY <3>3, <3>4, <4>1, ElementOfSeq
    <3>6. /\ msg[1].height \in Nat /\ msg[1].first \in Nat /\ msg[1].first >= 1
          /\ msg[Taken(msg)].last \in Nat /\ msg[Taken(msg)].last <= MaxEvents
          /\ MaxEvents \in Nat
      BY <1>0, <3>5, ReceiptFields, IconTypes
    <3>7. tx \in Tx  BY <3>4, <3>6 DEF Tx
    <3> HIDE DEF tx
    <3>8. algo' \in ToAlgo  BY <1>2, <3>1, <3>3, <3>7 DEF ToAlgo
    <3> QED  BY <1>1, <1>2, <2>1, <3>8 DEF AlgoTyped
  <2> QED  BY <2>2, <2>3
<1>9. CASE Send
  <2>1. 0 \in 0 .. ReceiptRetries  BY <1>5
  <2>2. algo' \in ToAlgo  BY <1>2, <1>9, <2>1 DEF Send, ToAlgo
  <2> QED  BY <1>1, <1>4, <1>9, <2>2 DEF Send, AlgoTyped
<1>10. CASE ReceiptSeq
  <2>1. algo' \in ToAlgo  BY <1>2, <1>10 DEF ReceiptSeq, ToAlgo
  <2> QED  BY <1>1, <1>2, <1>10, <2>1 DEF ReceiptSeq, AlgoTyped
<1>11. CASE ReceiptHeight
  <2>1. algo' = algo \/ algo' = [algo EXCEPT !.pc = "run", !.srcMsg = algo.tx.newMsg,
                                             !.txBlockHeight = 0, !.tx = NoTx]
    BY <1>11 DEF ReceiptHeight
  <2>2. algo' \in ToAlgo
    <3>1. CASE algo' = algo  BY <1>2, <3>1
    <3>2. CASE algo' = [algo EXCEPT !.pc = "run", !.srcMsg = algo.tx.newMsg,
                                    !.txBlockHeight = 0, !.tx = NoTx]
      BY <1>2, <1>3, <3>2 DEF ToAlgo
    <3> QED  BY <2>1, <3>1, <3>2
  <2> QED  BY <1>1, <1>2, <1>11, <2>2 DEF ReceiptHeight, AlgoTyped
<1>12. CASE ReceiptFail
  <2>1. \/ /\ algo' = [algo EXCEPT !.pc = "seq", !.retry = algo.retry + 1]
           /\ algo.retry < ReceiptRetries
        \/ algo' = [algo EXCEPT !.pc = "run", !.tx = NoTx]
    BY <1>12 DEF ReceiptFail
  <2>2. algo' \in ToAlgo
    <3>1. CASE algo.retry < ReceiptRetries
               /\ algo' = [algo EXCEPT !.pc = "seq", !.retry = algo.retry + 1]
      <4>1. algo.retry + 1 \in 0 .. ReceiptRetries  BY <1>2, <1>5, <3>1
      <4> QED  BY <1>2, <3>1, <4>1 DEF ToAlgo
    <3>2. CASE algo' = [algo EXCEPT !.pc = "run", !.tx = NoTx]
      BY <1>2, <1>3, <3>2 DEF ToAlgo
    <3> QED  BY <2>1, <3>1, <3>2
  <2> QED  BY <1>1, <1>2, <1>12, <2>2 DEF ReceiptFail, AlgoTyped
<1>13. CASE SendFail
  BY <1>1, <1>2, <1>4, <1>13 DEF SendFail, AlgoTyped
<1>14. CASE Crash
  BY <1>1, <1>2, <1>3, <1>14 DEF Crash, AlgoTyped
<1> QED  BY <1>6, <1>7, <1>8, <1>9, <1>10, <1>11, <1>12, <1>13, <1>14 DEF AlgoStep

\* The fields of a subscription.
LEMMA SubFields ==
    ASSUME IconTyped, NEW s \in Subs
    PROVE  /\ sub[s] \in FromAlgo
           /\ sub[s].pc \in {"done", "loop", "check", "update", "seq", "height", "label",
                             "send", "error"}
           /\ sub[s].seq \in Nat /\ sub[s].height \in 0 .. Len(AlgoBlocks)
           /\ sub[s].round \in 0 .. Len(AlgoBlocks)
           /\ sub[s].todo \in Seq(Messages \cup {0}) /\ sub[s].receipts \in Seq(Labeled)
<1>1. sub[s] \in FromAlgo  BY DEF IconTyped
<1> QED  BY <1>1 DEF FromAlgo

\* The fields of the relay to ICON.
LEMMA ToIconFields ==
    ASSUME IconTyped
    PROVE  /\ icon.pc \in {"start", "run", "wait"} /\ icon.live \in 0 .. MaxSubs
           /\ icon.srcMsg \in Seq(Labeled) /\ icon.newMsg \in Seq(Labeled)
           /\ icon.pool \in SUBSET Seq(Labeled)
           /\ icon.rxSeq \in Nat /\ icon.rxHeight \in 0 .. Len(AlgoBlocks)
BY DEF IconTyped, ToIcon

\* What the relay to ICON and its transactions leave alone.
IconOnly == UNCHANGED <<file, access, races, i2a, vr, sub, faults>>

LEMMA IconLeaves == ASSUME ToIconStep PROVE IconOnly
BY DEF ToIconStep, IconRelay, IconReceipt, IconGiveUp, IconExecute, IconTxFail, IconOnly

\* A step of the relay to ICON in which its BMC handles nothing.
Quiet ==
    /\ UNCHANGED delivered /\ icon'.rxSeq = icon.rxSeq /\ icon'.rxHeight = icon.rxHeight
    /\ \/ icon'.pc = "start" /\ failed' = TRUE
       \/ icon'.pc # "start" /\ icon.pc # "start" /\ UNCHANGED failed
       \/ icon'.pc = icon.pc /\ UNCHANGED failed

\* ICON's BMC handles the messages new, and passes over others.
Handles(new) ==
    /\ new \in Seq(Labeled) /\ Range(new) \subseteq OnTheWay
    /\ \A i \in 1 .. Len(new) : new[i].seq = icon.rxSeq + i
    /\ icon'.rxSeq = icon.rxSeq + Len(new)
    /\ icon'.rxHeight \in 0 .. Len(AlgoBlocks) /\ icon'.rxHeight >= icon.rxHeight
    /\ \A i \in 1 .. Len(new) : new[i].height <= icon'.rxHeight
    /\ delivered' = delivered \o [i \in 1 .. Len(new) |-> new[i].msg]
    /\ icon'.pc = icon.pc /\ UNCHANGED failed

\* The messages that follow are some of msg.
LEMMA NewToIconType ==
    ASSUME NEW msg \in Seq(Labeled)
    PROVE  /\ NewToIcon(msg) \in Seq(Labeled)
           /\ Range(NewToIcon(msg)) \subseteq Range(msg)
<1> DEFINE I == {i \in DOMAIN msg : /\ msg[i].height >= icon.rxHeight
                                    /\ msg[i].seq > icon.rxSeq}
           k == Keep(msg, I)
<1>1. I \in SUBSET DOMAIN msg  OBVIOUS
<1> HIDE DEF I
<1>2. /\ k \in Seq(Labeled) /\ Len(k) = Cardinality(I)
      /\ \A n \in 1 .. Cardinality(I) : \E i \in I : k[n] = msg[i]
  BY <1>1, KeepType
<1> HIDE DEF k
<1>3. Range(k) \subseteq Range(msg)
  <2> SUFFICES ASSUME NEW n \in DOMAIN k PROVE k[n] \in Range(msg)  BY DEF Range
  <2>1. n \in 1 .. Cardinality(I)  BY <1>2
  <2>2. PICK i \in I : k[n] = msg[i]  BY <1>2, <2>1
  <2> QED  BY <1>1, <2>2 DEF Range
<1>4. NewToIcon(msg) = k  BY DEF NewToIcon, k, I
<1> QED  BY <1>2, <1>3, <1>4

\* A part of a sequence.
LEMMA PartOf ==
    ASSUME NEW S, NEW msg \in Seq(S), NEW a \in 1 .. Len(msg) + 1, NEW b \in 0 .. Len(msg)
    PROVE  SubSeq(msg, a, b) \in Seq(S) /\ Range(SubSeq(msg, a, b)) \subseteq Range(msg)
<1>1. /\ SubSeq(msg, a, b) \in Seq(S)
      /\ Len(SubSeq(msg, a, b)) = IF a <= b THEN b - a + 1 ELSE 0
      /\ \A i \in 1 .. b - a + 1 : SubSeq(msg, a, b)[i] = msg[a + i - 1]
  BY SubSeqProperties
<1> DEFINE q == SubSeq(msg, a, b)
<1> HIDE DEF q
<1>2. ASSUME NEW i \in DOMAIN q PROVE q[i] \in Range(msg)
  <2>1. i \in 1 .. b - a + 1  BY <1>1 DEF q
  <2>2. a + i - 1 \in DOMAIN msg  BY <2>1
  <2>3. q[i] = msg[a + i - 1]  BY <1>1, <2>1 DEF q
  <2> QED  BY <2>2, <2>3 DEF Range
<1> QED  BY <1>1, <1>2 DEF q, Range

\* What two sequences hold together.
LEMMA RangeConcat ==
    ASSUME NEW S, NEW a \in Seq(S), NEW b \in Seq(S)
    PROVE  Range(a \o b) = Range(a) \cup Range(b)
<1> DEFINE n == Len(a)  k == Len(b)  c == a \o b
<1>1. /\ n \in Nat /\ k \in Nat /\ DOMAIN a = 1 .. n /\ DOMAIN b = 1 .. k
      /\ DOMAIN c = 1 .. n + k
      /\ \A i \in 1 .. n + k : c[i] = IF i <= n THEN a[i] ELSE b[i - n]
  BY ConcatProperties
<1> HIDE DEF n, k, c
<1>2. \A i \in 1 .. n : i \in 1 .. n + k /\ c[i] = a[i]
  <2>1. \A i \in 1 .. n : i \in 1 .. n + k /\ i <= n  BY <1>1
  <2> QED  BY <1>1, <2>1
<1>3. \A i \in 1 .. k : n + i \in 1 .. n + k /\ c[n + i] = b[i]
  <2>1. \A i \in 1 .. k : n + i \in 1 .. n + k /\ ~(n + i <= n) /\ (n + i) - n = i
    BY <1>1, SMTT(30)
  <2> QED  BY <1>1, <2>1
<1>4. \A i \in 1 .. n + k : i \in 1 .. n \/ i - n \in 1 .. k  BY <1>1
<1>5. ASSUME NEW x \in Range(c) PROVE x \in Range(a) \cup Range(b)
  <2>1. PICK i \in 1 .. n + k : x = c[i]  BY <1>1 DEF Range
  <2>2. CASE i \in 1 .. n  BY <1>1, <1>2, <2>1, <2>2 DEF Range
  <2>3. CASE i \notin 1 .. n
    <3>1. i - n \in 1 .. k /\ ~(i <= n)  BY <1>1, <2>3
    <3>2. x = b[i - n]  BY <1>1, <2>1, <3>1
    <3> QED  BY <1>1, <3>1, <3>2 DEF Range
  <2> QED  BY <2>2, <2>3
<1>6. ASSUME NEW x \in Range(a) PROVE x \in Range(c)
  <2>1. PICK i \in 1 .. n : x = a[i]  BY <1>1 DEF Range
  <2> QED  BY <1>1, <1>2, <2>1 DEF Range
<1>7. ASSUME NEW x \in Range(b) PROVE x \in Range(c)
  <2>1. PICK i \in 1 .. k : x = b[i]  BY <1>1 DEF Range
  <2> QED  BY <1>1, <1>3, <2>1 DEF Range
<1> QED  BY <1>5, <1>6, <1>7 DEF c

\* What is on the way, by where it is.
LEMMA WayParts ==
    OnTheWay = Range(icon.srcMsg) \cup Range(icon.newMsg)
                 \cup UNION {Range(msg) : msg \in icon.pool}
BY DEF OnTheWay

LEMMA WayPartsNext ==
    OnTheWay' = Range(icon'.srcMsg) \cup Range(icon'.newMsg)
                  \cup UNION {Range(msg) : msg \in icon'.pool}
BY DEF OnTheWay

\* The steps of the relay to ICON and of its transactions.
LEMMA IconEffect ==
    ASSUME chains \in Chains, IconTyped, ToIconStep
    PROVE  /\ IconOnly /\ icon' \in ToIcon /\ icon'.live = icon.live
           /\ failed' \in BOOLEAN /\ OnTheWay' \subseteq OnTheWay
           /\ delivered' \in Seq(Messages)
           /\ Quiet \/ \E new : Handles(new)
<1>0. /\ icon \in ToIcon /\ delivered \in Seq(Messages) /\ failed \in BOOLEAN
  BY DEF IconTyped
<1>1. /\ icon.srcMsg \in Seq(Labeled) /\ icon.newMsg \in Seq(Labeled)
      /\ icon.pool \in SUBSET Seq(Labeled) /\ icon.live \in 0 .. MaxSubs
      /\ icon.rxSeq \in Nat /\ icon.rxHeight \in 0 .. Len(AlgoBlocks)
      /\ Len(AlgoBlocks) \in Nat
  BY ToIconFields, ChainTypes
<1>2. <<>> \in Seq(Labeled) /\ Range(<<>>) = {}  BY DEF Range
<1>3. IconOnly  BY IconLeaves
<1>4. CASE IconRelay
  <2> DEFINE msg == NewToIcon(icon.srcMsg)
  <2>1. msg \in Seq(Labeled) /\ Range(msg) \subseteq Range(icon.srcMsg)
    BY <1>1, NewToIconType
  <2>2. icon.pc = "run" /\ UNCHANGED delivered  BY <1>4 DEF IconRelay
  <2>3. \/ icon' = [icon EXCEPT !.pc = "start", !.srcMsg = <<>>] /\ failed' = TRUE
        \/ icon' = [icon EXCEPT !.srcMsg = <<>>] /\ UNCHANGED failed
        \/ /\ \E n \in 1 .. Len(msg) :
                 icon' = [icon EXCEPT
                      !.pc = "wait", !.srcMsg = msg,
                      !.newMsg = IF n = Len(msg) THEN msg ELSE SubSeq(msg, n + 1, Len(msg)),
                      !.pool = icon.pool \cup {SubSeq(msg, 1, n)}]
           /\ UNCHANGED failed
    BY <1>4 DEF IconRelay
  <2> HIDE DEF msg
  <2>4. CASE icon' = [icon EXCEPT !.pc = "start", !.srcMsg = <<>>] /\ failed' = TRUE
    <3>1. icon' \in ToIcon /\ icon'.live = icon.live  BY <1>0, <1>2, <2>4 DEF ToIcon
    <3>2. Quiet  BY <1>0, <2>2, <2>4 DEF Quiet, ToIcon
    <3>3. icon'.srcMsg = <<>> /\ icon'.newMsg = icon.newMsg /\ icon'.pool = icon.pool
      BY <1>0, <2>4 DEF ToIcon
    <3>4. OnTheWay' \subseteq OnTheWay  BY <1>2, <3>3, WayParts, WayPartsNext
    <3> QED  BY <1>0, <1>3, <2>2, <2>4, <3>1, <3>2, <3>4
  <2>5. CASE icon' = [icon EXCEPT !.srcMsg = <<>>] /\ UNCHANGED failed
    <3>1. icon' \in ToIcon /\ icon'.live = icon.live  BY <1>0, <1>2, <2>5 DEF ToIcon
    <3>2. Quiet  BY <1>0, <2>2, <2>5 DEF Quiet, ToIcon
    <3>3. icon'.srcMsg = <<>> /\ icon'.newMsg = icon.newMsg /\ icon'.pool = icon.pool
      BY <1>0, <2>5 DEF ToIcon
    <3>4. OnTheWay' \subseteq OnTheWay  BY <1>2, <3>3, WayParts, WayPartsNext
    <3> QED  BY <1>0, <1>3, <2>2, <2>5, <3>1, <3>2, <3>4
  <2>6. ASSUME NEW n \in 1 .. Len(msg), UNCHANGED failed,
               icon' = [icon EXCEPT
                      !.pc = "wait", !.srcMsg = msg,
                      !.newMsg = IF n = Len(msg) THEN msg ELSE SubSeq(msg, n + 1, Len(msg)),
                      !.pool = icon.pool \cup {SubSeq(msg, 1, n)}]
        PROVE  /\ icon' \in ToIcon /\ icon'.live = icon.live /\ Quiet
               /\ OnTheWay' \subseteq OnTheWay
    <3> DEFINE a == SubSeq(msg, 1, n)
               b == IF n = Len(msg) THEN msg ELSE SubSeq(msg, n + 1, Len(msg))
    <3>0. Len(msg) \in Nat /\ 1 \in 1 .. Len(msg) + 1 /\ n \in 0 .. Len(msg)
          /\ n + 1 \in 1 .. Len(msg) + 1 /\ Len(msg) \in 0 .. Len(msg)
      BY <2>1
    <3>1. a \in Seq(Labeled) /\ Range(a) \subseteq Range(msg)  BY <2>1, <3>0, PartOf
    <3>2. SubSeq(msg, n + 1, Len(msg)) \in Seq(Labeled)
          /\ Range(SubSeq(msg, n + 1, Len(msg))) \subseteq Range(msg)
      BY <2>1, <3>0, PartOf
    <3>3. b \in Seq(Labeled) /\ Range(b) \subseteq Range(msg)  BY <2>1, <3>2
    <3>4. icon' = [icon EXCEPT !.pc = "wait", !.srcMsg = msg, !.newMsg = b,
                               !.pool = icon.pool \cup {a}]
      BY <2>6
    <3> HIDE DEF a, b
    <3>5. icon.pool \cup {a} \in SUBSET Seq(Labeled)  BY <1>1, <3>1
    <3>6. icon' \in ToIcon /\ icon'.live = icon.live
      BY <1>0, <2>1, <3>3, <3>4, <3>5 DEF ToIcon
    <3>7. Quiet  BY <1>0, <2>2, <2>6, <3>4 DEF Quiet, ToIcon
    <3>8. icon'.srcMsg = msg /\ icon'.newMsg = b /\ icon'.pool = icon.pool \cup {a}
      BY <1>0, <3>4 DEF ToIcon
    <3>9. OnTheWay' \subseteq OnTheWay
      BY <2>1, <3>1, <3>3, <3>8, WayParts, WayPartsNext
    <3> QED  BY <3>6, <3>7, <3>9
  <2> QED  BY <1>0, <1>3, <2>2, <2>3, <2>4, <2>5, <2>6
<1>5. CASE IconReceipt \/ IconGiveUp \/ IconTxFail
  <2>1. UNCHANGED <<delivered, failed>>  BY <1>5 DEF IconReceipt, IconGiveUp, IconTxFail
  <2>2. CASE IconReceipt \/ IconGiveUp
    <3>1. /\ icon.pc = "wait"
          /\ \/ icon' = [icon EXCEPT !.pc = "run", !.srcMsg = icon.newMsg, !.newMsg = <<>>]
             \/ icon' = [icon EXCEPT !.pc = "run", !.newMsg = <<>>]
      BY <2>2 DEF IconReceipt, IconGiveUp
    <3>2. icon' \in ToIcon /\ icon'.live = icon.live
      BY <1>0, <1>1, <1>2, <3>1 DEF ToIcon
    <3>3. Quiet  BY <1>0, <2>1, <3>1 DEF Quiet, ToIcon
    <3>4. /\ icon'.srcMsg \in {icon.srcMsg, icon.newMsg} /\ icon'.newMsg = <<>>
          /\ icon'.pool = icon.pool
      BY <1>0, <3>1 DEF ToIcon
    <3>5. OnTheWay' \subseteq OnTheWay  BY <1>2, <3>4, WayParts, WayPartsNext
    <3> QED  BY <1>0, <1>3, <2>1, <3>2, <3>3, <3>5
  <2>3. CASE IconTxFail
    <3>1. PICK msg \in icon.pool : icon' = [icon EXCEPT !.pool = icon.pool \ {msg}]
      BY <2>3 DEF IconTxFail
    <3>2. icon.pool \ {msg} \in SUBSET Seq(Labeled)  BY <1>1
    <3>3. icon' \in ToIcon /\ icon'.live = icon.live  BY <1>0, <3>1, <3>2 DEF ToIcon
    <3>4. Quiet  BY <1>0, <2>1, <3>1 DEF Quiet, ToIcon
    <3>5. /\ icon'.srcMsg = icon.srcMsg /\ icon'.newMsg = icon.newMsg
          /\ icon'.pool \subseteq icon.pool
      BY <1>0, <3>1 DEF ToIcon
    <3>6. OnTheWay' \subseteq OnTheWay  BY <3>5, WayParts, WayPartsNext
    <3> QED  BY <1>0, <1>3, <2>1, <3>3, <3>4, <3>6
  <2> QED  BY <1>5, <2>2, <2>3
<1>6. CASE IconExecute
  <2> DEFINE kept(m) == Keep(m, {i \in DOMAIN m : \A j \in 1 .. i - 1 :
                                   m[j].height <= m[i].height})
             top(m) == Max({icon.rxHeight} \cup {m[i].height : i \in DOMAIN m})
  <2>1. PICK msg \in icon.pool :
          /\ Follows(NewToIcon(kept(msg)))
          /\ icon' = [icon EXCEPT !.rxSeq = icon.rxSeq + Len(NewToIcon(kept(msg))),
                                  !.rxHeight = top(msg)]
          /\ delivered' = delivered
                \o [i \in DOMAIN NewToIcon(kept(msg)) |-> NewToIcon(kept(msg))[i].msg]
          /\ UNCHANGED failed
    BY <1>6 DEF IconExecute
  <2> DEFINE k == kept(msg)
             new == NewToIcon(k)
             H == {icon.rxHeight} \cup {msg[i].height : i \in DOMAIN msg}
             h == Max(H)
             ms == [i \in DOMAIN new |-> new[i].msg]
  <2>2. msg \in Seq(Labeled)  BY <1>1
  <2>3. k \in Seq(Labeled) /\ Range(k) \subseteq Range(msg)
    <3> DEFINE I == {i \in DOMAIN msg : \A j \in 1 .. i - 1 : msg[j].height <= msg[i].height}
    <3>1. I \in SUBSET DOMAIN msg /\ k = Keep(msg, I)  OBVIOUS
    <3> HIDE DEF I, k
    <3>2. /\ Keep(msg, I) \in Seq(Labeled) /\ Len(Keep(msg, I)) = Cardinality(I)
          /\ \A n \in 1 .. Cardinality(I) : \E i \in I : Keep(msg, I)[n] = msg[i]
      BY <2>2, <3>1, KeepType
    <3>3. ASSUME NEW n \in DOMAIN k PROVE k[n] \in Range(msg)
      <4>1. n \in 1 .. Cardinality(I)  BY <3>1, <3>2
      <4>2. PICK i \in I : k[n] = msg[i]  BY <3>1, <3>2, <4>1
      <4> QED  BY <3>1, <4>2 DEF Range
    <3> QED  BY <3>1, <3>2, <3>3 DEF Range
  <2> HIDE DEF k
  <2>4. new \in Seq(Labeled) /\ Range(new) \subseteq Range(k)  BY <2>3, NewToIconType
  <2> HIDE DEF new
  <2>5. Range(new) \subseteq Range(msg)  BY <2>3, <2>4
  <2>6. Len(new) \in Nat /\ DOMAIN new = 1 .. Len(new)  BY <2>4
  <2>7. /\ \A i \in DOMAIN msg : msg[i] \in Labeled
        /\ \A x \in Labeled : x.height \in 0 .. Len(AlgoBlocks) /\ x.msg \in Messages
    <3>1. \A i \in DOMAIN msg : msg[i] \in Labeled  BY <2>2
    <3> QED  BY <3>1 DEF Labeled
  <2>8. H \in SUBSET (0 .. Len(AlgoBlocks)) /\ H # {}  BY <1>1, <2>7
  <2>9. h \in H /\ \A y \in H : y <= h  BY <1>1, <2>8, MaxIsGreatest
  <2>10. \A x \in Range(msg) : x.height \in H  BY DEF Range
  <2>11. icon.rxHeight \in H  OBVIOUS
  <2>12. icon' = [icon EXCEPT !.rxSeq = icon.rxSeq + Len(new), !.rxHeight = h]
         /\ delivered' = delivered \o ms /\ Follows(new) /\ UNCHANGED failed
    BY <2>1 DEF new, k
  <2> HIDE DEF H, h
  <2>13. h \in 0 .. Len(AlgoBlocks) /\ icon.rxSeq + Len(new) \in Nat
         /\ h >= icon.rxHeight
    BY <1>1, <2>6, <2>8, <2>9, <2>11
  <2>14. \A i \in 1 .. Len(new) : new[i] \in Range(new) /\ new[i] \in Labeled
    BY <2>4, <2>6 DEF Range
  <2>15. \A i \in 1 .. Len(new) : new[i].height <= h
    BY <2>5, <2>9, <2>10, <2>14
  <2>16. ms \in Seq(Messages)
    <3>1. \A i \in 1 .. Len(new) : new[i].msg \in Messages  BY <2>7, <2>14
    <3> QED  BY <2>6, <3>1
  <2>17. ms = [i \in 1 .. Len(new) |-> new[i].msg]  BY <2>6
  <2> HIDE DEF ms
  <2>18. delivered' \in Seq(Messages)  BY <1>0, <2>12, <2>16, ConcatProperties
  <2>19. icon' \in ToIcon /\ icon'.live = icon.live  BY <1>0, <2>12, <2>13 DEF ToIcon
  <2>20. /\ icon'.srcMsg = icon.srcMsg /\ icon'.newMsg = icon.newMsg
         /\ icon'.pool = icon.pool /\ icon'.pc = icon.pc
         /\ icon'.rxSeq = icon.rxSeq + Len(new) /\ icon'.rxHeight = h
    BY <1>0, <2>12 DEF ToIcon
  <2>21. OnTheWay' = OnTheWay  BY <2>20, WayParts, WayPartsNext
  <2>22. Range(msg) \subseteq OnTheWay  BY WayParts
  <2>23. \A i \in 1 .. Len(new) : new[i].seq = icon.rxSeq + i
    BY <2>6, <2>12 DEF Follows
  <2>24. Handles(new)
    BY <2>4, <2>5, <2>12, <2>13, <2>15, <2>17, <2>20, <2>22, <2>23 DEF Handles
  <2> QED  BY <1>0, <1>3, <2>12, <2>18, <2>19, <2>21, <2>24
<1> QED  BY <1>4, <1>5, <1>6 DEF ToIconStep

\* Only subscription s changes, to v.
SubMoves(s, v) == sub' = [sub EXCEPT ![s] = v]

\* What the steps of a subscription do to it.
LEMMA FetchEffect ==
    ASSUME IconTyped, NEW s \in Subs, FetchBlock(s)
    PROVE  \/ SubMoves(s, [sub[s] EXCEPT !.pc = "check", !.round = vr.round]) /\ UNCHANGED failed
           \/ SubMoves(s, [sub[s] EXCEPT !.pc = "error"]) /\ failed' = TRUE
BY DEF FetchBlock, Goto, SubMoves, IconTyped

LEMMA CheckEffect ==
    ASSUME IconTyped, NEW s \in Subs, CheckParent(s)
    PROVE  \/ SubMoves(s, [sub[s] EXCEPT !.pc = "update"]) /\ UNCHANGED failed
           \/ SubMoves(s, [sub[s] EXCEPT !.pc = "error"]) /\ failed' = TRUE
BY DEF CheckParent, Goto, SubMoves, IconTyped

LEMMA UpdateEffect ==
    ASSUME IconTyped, NEW s \in Subs, UpdateVerifier(s)
    PROVE  LET skip == sub[s].round <= sub[s].height \/ AlgoBlocks[sub[s].round] = <<>>
           IN  /\ skip => SubMoves(s, [sub[s] EXCEPT !.pc = "loop", !.todo = <<>>,
                                                     !.receipts = <<>>])
               /\ ~skip => SubMoves(s, [sub[s] EXCEPT !.pc = "seq",
                                          !.todo = AlgoBlocks[sub[s].round],
                                          !.receipts = <<>>])
<1> DEFINE skip == sub[s].round <= sub[s].height \/ AlgoBlocks[sub[s].round] = <<>>
<1>1. sub' = [sub EXCEPT ![s].pc = IF skip THEN "loop" ELSE "seq",
                         ![s].todo = IF skip THEN <<>> ELSE AlgoBlocks[sub[s].round],
                         ![s].receipts = <<>>]
  BY DEF UpdateVerifier
<1>2. sub \in [Subs -> FromAlgo]  BY DEF IconTyped
<1> HIDE DEF skip
<1>3. skip => SubMoves(s, [sub[s] EXCEPT !.pc = "loop", !.todo = <<>>, !.receipts = <<>>])
  BY <1>1, <1>2 DEF SubMoves
<1>4. ~skip => SubMoves(s, [sub[s] EXCEPT !.pc = "seq", !.todo = AlgoBlocks[sub[s].round],
                                          !.receipts = <<>>])
  BY <1>1, <1>2 DEF SubMoves
<1> QED  BY <1>3, <1>4 DEF skip

\* The steps of a subscription that work on the file.
LEMMA ExtractEffect ==
    ASSUME IconTyped, NEW s \in Subs, ExtractSeq(s) \/ ExtractHeight(s) \/ ExtractFail(s)
    PROVE  \/ UNCHANGED <<sub, failed>>
           \/ /\ SubMoves(s, [sub[s] EXCEPT !.pc = "height"])
              /\ sub[s].pc = "seq" /\ UNCHANGED failed
           \/ /\ SubMoves(s, [sub[s] EXCEPT !.pc = "label"])
              /\ sub[s].pc = "height" /\ UNCHANGED failed
           \/ SubMoves(s, [sub[s] EXCEPT !.pc = "error"]) /\ failed' = TRUE
BY DEF ExtractSeq, ExtractHeight, ExtractFail, Goto, SubMoves, IconTyped

LEMMA LabelEffect ==
    ASSUME IconTyped, NEW s \in Subs, Label(s)
    PROVE  \/ SubMoves(s, [sub[s] EXCEPT !.pc = "error"]) /\ failed' = TRUE
           \/ /\ Head(sub[s].todo) # 0 /\ UNCHANGED failed
              /\ SubMoves(s, [sub[s] EXCEPT
                    !.seq = sub[s].seq + 1, !.todo = Tail(sub[s].todo),
                    !.receipts = Append(sub[s].receipts,
                                        [height |-> sub[s].round, seq |-> sub[s].seq,
                                         msg |-> Head(sub[s].todo)]),
                    !.pc = IF Len(sub[s].todo) = 1 THEN "send" ELSE "seq"])
<1>1. sub \in [Subs -> FromAlgo]  BY DEF IconTyped
<1>2. CASE Head(sub[s].todo) = 0 \/ file.tx_seq # sub[s].seq
  BY <1>1, <1>2 DEF Label, Goto, SubMoves
<1>3. CASE ~(Head(sub[s].todo) = 0 \/ file.tx_seq # sub[s].seq)
  <2> DEFINE h == [height |-> sub[s].round, seq |-> sub[s].seq, msg |-> Head(sub[s].todo)]
             p == IF Len(sub[s].todo) = 1 THEN "send" ELSE "seq"
  <2>1. UNCHANGED failed /\
        sub' = [sub EXCEPT ![s].seq = sub[s].seq + 1, ![s].todo = Tail(sub[s].todo),
                           ![s].receipts = Append(sub[s].receipts, h), ![s].pc = p]
    BY <1>1, <1>3 DEF Label
  <2> HIDE DEF h, p
  <2>2. SubMoves(s, [sub[s] EXCEPT !.seq = sub[s].seq + 1, !.todo = Tail(sub[s].todo),
                       !.receipts = Append(sub[s].receipts, h), !.pc = p])
    BY <1>1, <2>1 DEF SubMoves
  <2> QED  BY <1>3, <2>1, <2>2 DEF h, p
<1> QED  BY <1>2, <1>3

LEMMA SendEffect ==
    ASSUME IconTyped, NEW s \in Subs, SendReceipts(s) \/ SendError(s)
    PROVE  /\ icon.pc = "run" /\ icon.live = s /\ UNCHANGED <<failed, vr, delivered>>
           /\ \/ /\ SubMoves(s, [sub[s] EXCEPT !.pc = "loop", !.round = 0, !.receipts = <<>>])
                 /\ icon' = [icon EXCEPT !.srcMsg = icon.srcMsg \o sub[s].receipts]
                 /\ sub[s].pc = "send"
              \/ /\ SubMoves(s, [sub[s] EXCEPT !.pc = "loop", !.round = 0, !.todo = <<>>,
                                               !.receipts = <<>>])
                 /\ icon' = [icon EXCEPT !.pc = "start", !.srcMsg = <<>>]
                 /\ sub[s].pc = "error"
BY DEF SendReceipts, SendError, SubMoves, IconTyped

\* A new subscription.
NewSub == [pc |-> "loop", seq |-> icon.rxSeq + 1, height |-> icon.rxHeight, round |-> 0,
           todo |-> <<>>, receipts |-> <<>>]

LEMMA StartEffect ==
    ASSUME IconTyped, IconStart
    PROVE  /\ icon.pc = "start" /\ UNCHANGED <<vr, delivered, failed>>
           /\ \E s \in Subs :
                 /\ sub[s] = NoSub /\ SubMoves(s, NewSub)
                 /\ icon' = [icon EXCEPT !.pc = "run", !.live = s, !.srcMsg = <<>>]
<1>1. PICK s \in Subs :
        /\ sub[s] = NoSub
        /\ sub' = [sub EXCEPT ![s] = [NoSub EXCEPT !.pc = "loop",
                        !.seq = icon.rxSeq + 1, !.height = icon.rxHeight]]
        /\ icon' = [icon EXCEPT !.pc = "run", !.live = s, !.srcMsg = <<>>]
  BY DEF IconStart
<1>2. [NoSub EXCEPT !.pc = "loop", !.seq = icon.rxSeq + 1, !.height = icon.rxHeight] = NewSub
  <2>1. ASSUME NEW x, x = [NoSub EXCEPT !.pc = "loop", !.seq = icon.rxSeq + 1,
                                        !.height = icon.rxHeight]
        PROVE  x = NewSub
    BY <2>1 DEF NoSub, NewSub
  <2> QED  BY <2>1
<1> QED  BY <1>1, <1>2 DEF IconStart, SubMoves

LEMMA MovedTyped ==
    ASSUME IconTyped, NEW s \in Subs, NEW v \in FromAlgo, SubMoves(s, v)
    PROVE  sub' \in [Subs -> FromAlgo] /\ sub'[s] = v /\ \A t \in Subs \ {s} : sub'[t] = sub[t]
BY DEF SubMoves, IconTyped

\* The message at the head of those left.
LEMMA TodoTypes ==
    ASSUME IconTyped, NEW s \in Subs, sub[s].todo # <<>>
    PROVE  /\ Head(sub[s].todo) \in Messages \cup {0}
           /\ Tail(sub[s].todo) \in Seq(Messages \cup {0})
           /\ Len(sub[s].todo) \in Nat /\ Len(sub[s].todo) >= 1
           /\ Len(Tail(sub[s].todo)) = Len(sub[s].todo) - 1
           /\ Head(sub[s].todo) = sub[s].todo[1]
           /\ \A i \in 1 .. Len(sub[s].todo) - 1 : Tail(sub[s].todo)[i] = sub[s].todo[i + 1]
<1>1. sub[s].todo \in Seq(Messages \cup {0})  BY SubFields
<1> DEFINE td == sub[s].todo  M == Messages \cup {0}
<1>2. td \in Seq(M) /\ td # <<>>  BY <1>1
<1> HIDE DEF td, M
<1>3. /\ Head(td) \in M /\ Tail(td) \in Seq(M) /\ Len(td) \in Nat /\ Len(td) >= 1
      /\ Len(Tail(td)) = Len(td) - 1 /\ Head(td) = td[1]
      /\ \A i \in 1 .. Len(td) - 1 : Tail(td)[i] = td[i + 1]
  BY <1>2, HeadTailProperties
<1> QED  BY <1>3 DEF td, M

\* The record that Label appends.
LabelOf(s) == [height |-> sub[s].round, seq |-> sub[s].seq, msg |-> Head(sub[s].todo)]

LEMMA LabelTypes ==
    ASSUME chains \in Chains, IconTyped, NEW s \in Subs, sub[s].todo # <<>>,
           Head(sub[s].todo) # 0
    PROVE  /\ LabelOf(s) \in Labeled
           /\ Append(sub[s].receipts, LabelOf(s)) \in Seq(Labeled)
           /\ Len(Append(sub[s].receipts, LabelOf(s))) = Len(sub[s].receipts) + 1
           /\ Append(sub[s].receipts, LabelOf(s))[Len(sub[s].receipts) + 1] = LabelOf(s)
           /\ \A i \in 1 .. Len(sub[s].receipts) :
                 Append(sub[s].receipts, LabelOf(s))[i] = sub[s].receipts[i]
<1>1. LabelOf(s) \in Labeled
  <2>1. Head(sub[s].todo) \in Messages  BY TodoTypes
  <2>2. sub[s].round \in 0 .. Len(AlgoBlocks) /\ sub[s].seq \in Nat  BY SubFields
  <2> QED  BY <2>1, <2>2 DEF LabelOf, Labeled
<1>2. sub[s].receipts \in Seq(Labeled)  BY SubFields
<1> QED  BY <1>1, <1>2, AppendProperties

\* The steps of the subscriptions and of the relay to ICON keep their types.
LEMMA SubTypes ==
    ASSUME TypeOK, VerifierMoves, UNCHANGED chains,
           IconStart \/ (\E s \in Subs : SubStep(s)) \/ ToIconStep \/ Crash
    PROVE  IconTyped'
<1>0. chains \in Chains /\ IconTyped /\ VerifierTyped  BY TypeParts
<1>1. /\ ToIcon' = ToIcon /\ FromAlgo' = FromAlgo /\ Messages' = Messages
      /\ Len(AlgoBlocks) \in Nat /\ MaxSubs \in Nat
  BY <1>0, SameChains, ChainTypes
<1>2. /\ icon \in ToIcon /\ delivered \in Seq(Messages) /\ sub \in [Subs -> FromAlgo]
      /\ failed \in BOOLEAN
  BY <1>0 DEF IconTyped
<1>3. /\ icon.live \in 0 .. MaxSubs
      /\ icon.srcMsg \in Seq(Labeled) /\ icon.rxSeq \in Nat
      /\ icon.rxHeight \in 0 .. Len(AlgoBlocks)
  BY <1>0, ToIconFields
<1>4. <<>> \in Seq(Labeled) /\ <<>> \in Seq(Messages \cup {0})  OBVIOUS
<1>5. CASE IconStart
  <2>1. PICK s \in Subs :
           /\ SubMoves(s, NewSub) /\ UNCHANGED <<delivered, failed>>
           /\ icon' = [icon EXCEPT !.pc = "run", !.live = s, !.srcMsg = <<>>]
    BY <1>0, <1>5, StartEffect
  <2>2. NewSub \in FromAlgo
    <3>1. icon.rxSeq + 1 \in Nat /\ 0 \in 0 .. Len(AlgoBlocks)  BY <1>1, <1>3
    <3> QED  BY <1>3, <1>4, <3>1 DEF NewSub, FromAlgo
  <2>3. sub' \in [Subs -> FromAlgo]  BY <1>0, <2>1, <2>2, MovedTyped
  <2>4. s \in 0 .. MaxSubs  BY <1>1 DEF Subs
  <2>5. icon' \in ToIcon  BY <1>2, <1>4, <2>1, <2>4 DEF ToIcon
  <2> QED  BY <1>1, <1>2, <2>1, <2>3, <2>5 DEF IconTyped
<1>6. CASE ToIconStep
  <2>1. /\ icon' \in ToIcon /\ delivered' \in Seq(Messages) /\ failed' \in BOOLEAN
        /\ UNCHANGED sub
    BY <1>0, <1>6, IconEffect DEF IconOnly
  <2> QED  BY <1>1, <1>2, <2>1 DEF IconTyped
<1>7. CASE Crash
  <2>1. NoSub \in FromAlgo
    <3>1. 0 \in 0 .. Len(AlgoBlocks)  BY <1>1
    <3> QED  BY <1>4, <3>1 DEF NoSub, FromAlgo
  <2>2. 0 \in 0 .. MaxSubs  BY <1>1
  <2>3. icon' \in ToIcon  BY <1>2, <1>4, <1>7, <2>2 DEF Crash, ToIcon
  <2> QED  BY <1>1, <1>2, <1>7, <2>1, <2>3 DEF Crash, IconTyped
<1>8. ASSUME NEW s \in Subs, SubStep(s) PROVE IconTyped'
  <2>1. /\ sub[s] \in FromAlgo
        /\ sub[s].seq \in Nat /\ sub[s].height \in 0 .. Len(AlgoBlocks)
        /\ sub[s].round \in 0 .. Len(AlgoBlocks)
        /\ sub[s].todo \in Seq(Messages \cup {0}) /\ sub[s].receipts \in Seq(Labeled)
    BY <1>0, SubFields
  <2>2. ASSUME NEW v \in FromAlgo, SubMoves(s, v), UNCHANGED <<icon, delivered>>,
               failed' \in BOOLEAN
        PROVE  IconTyped'
    <3>1. sub' \in [Subs -> FromAlgo]  BY <1>0, <2>2, MovedTyped
    <3> QED  BY <1>1, <1>2, <2>2, <3>1 DEF IconTyped
  <2>3. CASE FetchBlock(s)
    <3>1. vr.round \in 0 .. Len(AlgoBlocks)
      <4>1. vr.round \in Nat /\ vr.round < Len(AlgoBlocks)
        <5>1. VerifierRound \in Nat /\ vr.round \in VerifierRound .. Len(AlgoBlocks) + MaxSubs - 1
          BY <1>0, ChainTypes DEF VerifierTyped
        <5> QED  BY <1>1, <2>3, <5>1 DEF FetchBlock
      <4> QED  BY <1>1, <4>1
    <3>2. [sub[s] EXCEPT !.pc = "check", !.round = vr.round] \in FromAlgo
      BY <2>1, <3>1 DEF FromAlgo
    <3>3. [sub[s] EXCEPT !.pc = "error"] \in FromAlgo  BY <2>1 DEF FromAlgo
    <3>4. UNCHANGED <<icon, delivered>>  BY <2>3 DEF FetchBlock
    <3> QED  BY <1>0, <1>2, <2>2, <2>3, <3>2, <3>3, <3>4, FetchEffect
  <2>4. CASE CheckParent(s)
    <3>1. [sub[s] EXCEPT !.pc = "error"] \in FromAlgo
          /\ [sub[s] EXCEPT !.pc = "update"] \in FromAlgo
      BY <2>1 DEF FromAlgo
    <3>2. UNCHANGED <<icon, delivered>>  BY <2>4 DEF CheckParent
    <3> QED  BY <1>0, <1>2, <2>2, <2>4, <3>1, <3>2, CheckEffect
  <2>5. CASE UpdateVerifier(s)
    <3> DEFINE skip == sub[s].round <= sub[s].height \/ AlgoBlocks[sub[s].round] = <<>>
    <3>1. UNCHANGED <<icon, delivered, failed>>  BY <2>5 DEF UpdateVerifier
    <3>2. CASE skip
      <4>1. [sub[s] EXCEPT !.pc = "loop", !.todo = <<>>, !.receipts = <<>>] \in FromAlgo
        BY <1>4, <2>1 DEF FromAlgo
      <4>2. SubMoves(s, [sub[s] EXCEPT !.pc = "loop", !.todo = <<>>, !.receipts = <<>>])
        BY <1>0, <2>5, <3>2, UpdateEffect
      <4> QED  BY <1>2, <2>2, <3>1, <4>1, <4>2
    <3>3. CASE ~skip
      <4>1. sub[s].round \in 1 .. Len(AlgoBlocks)  BY <1>1, <2>1, <3>3
      <4>2. AlgoBlocks[sub[s].round] \in Seq(Messages \cup {0})  BY <1>0, <4>1, BlockTypes
      <4>3. [sub[s] EXCEPT !.pc = "seq", !.todo = AlgoBlocks[sub[s].round],
                           !.receipts = <<>>] \in FromAlgo
        BY <1>4, <2>1, <4>2 DEF FromAlgo
      <4>4. SubMoves(s, [sub[s] EXCEPT !.pc = "seq", !.todo = AlgoBlocks[sub[s].round],
                                       !.receipts = <<>>])
        BY <1>0, <2>5, <3>3, UpdateEffect
      <4> QED  BY <1>2, <2>2, <3>1, <4>3, <4>4
    <3> QED  BY <3>2, <3>3
  <2>6. CASE ExtractSeq(s) \/ ExtractHeight(s) \/ ExtractFail(s)
    <3>1. UNCHANGED <<icon, delivered>>  BY <2>6 DEF ExtractSeq, ExtractHeight, ExtractFail
    <3>2. /\ [sub[s] EXCEPT !.pc = "height"] \in FromAlgo
          /\ [sub[s] EXCEPT !.pc = "label"] \in FromAlgo
          /\ [sub[s] EXCEPT !.pc = "error"] \in FromAlgo
      BY <2>1 DEF FromAlgo
    <3>3. CASE UNCHANGED <<sub, failed>>  BY <1>1, <1>2, <3>1, <3>3 DEF IconTyped
    <3>4. CASE ~UNCHANGED <<sub, failed>>
      BY <1>0, <1>2, <2>2, <2>6, <3>1, <3>2, <3>4, ExtractEffect
    <3> QED  BY <3>3, <3>4
  <2>7. CASE Label(s)
    <3>1. UNCHANGED <<icon, delivered>>  BY <2>7 DEF Label
    <3>2. sub[s].todo # <<>>
      <4>1. BlockInHand(sub[s]) /\ sub[s].pc = "label"  BY <2>7 DEF Label, VerifierMoves
      <4> QED  BY <4>1 DEF BlockInHand
    <3> DEFINE p == IF Len(sub[s].todo) = 1 THEN "send" ELSE "seq"
               v == [sub[s] EXCEPT
                       !.seq = sub[s].seq + 1, !.todo = Tail(sub[s].todo),
                       !.receipts = Append(sub[s].receipts, LabelOf(s)), !.pc = p]
    <3>3. CASE SubMoves(s, v) /\ Head(sub[s].todo) # 0 /\ UNCHANGED failed
      <4>1. Append(sub[s].receipts, LabelOf(s)) \in Seq(Labeled)
        BY <1>0, <3>2, <3>3, LabelTypes
      <4>2. Tail(sub[s].todo) \in Seq(Messages \cup {0})  BY <1>0, <3>2, TodoTypes
      <4>3. sub[s].seq + 1 \in Nat /\ p \in {"send", "seq"}  BY <2>1
      <4> HIDE DEF p
      <4>4. v \in FromAlgo  BY <2>1, <4>1, <4>2, <4>3 DEF FromAlgo
      <4> QED  BY <1>2, <2>2, <3>1, <3>3, <4>4
    <3>4. CASE SubMoves(s, [sub[s] EXCEPT !.pc = "error"]) /\ failed' = TRUE
      <4>1. [sub[s] EXCEPT !.pc = "error"] \in FromAlgo  BY <2>1 DEF FromAlgo
      <4> QED  BY <2>2, <3>1, <3>4, <4>1
    <3> QED  BY <1>0, <2>7, <3>3, <3>4, LabelEffect DEF LabelOf
  <2>8. CASE SendReceipts(s) \/ SendError(s)
    <3> DEFINE a == [sub[s] EXCEPT !.pc = "loop", !.round = 0, !.receipts = <<>>]
               b == [sub[s] EXCEPT !.pc = "loop", !.round = 0, !.todo = <<>>,
                                   !.receipts = <<>>]
    <3>1. a \in FromAlgo /\ b \in FromAlgo
      <4>1. 0 \in 0 .. Len(AlgoBlocks)  BY <1>1
      <4> QED  BY <1>4, <2>1, <4>1 DEF FromAlgo
    <3>2. UNCHANGED <<failed, delivered>> /\ (SubMoves(s, a) \/ SubMoves(s, b))
      BY <1>0, <2>8, SendEffect
    <3> HIDE DEF a, b
    <3>3. sub' \in [Subs -> FromAlgo]  BY <1>0, <3>1, <3>2, MovedTyped
    <3>4. icon.srcMsg \o sub[s].receipts \in Seq(Labeled)
      BY <1>3, <2>1, ConcatProperties
    <3>5. icon' = [icon EXCEPT !.srcMsg = icon.srcMsg \o sub[s].receipts]
          \/ icon' = [icon EXCEPT !.pc = "start", !.srcMsg = <<>>]
      BY <1>0, <2>8, SendEffect
    <3>6. icon' \in ToIcon
      <4>1. CASE icon' = [icon EXCEPT !.srcMsg = icon.srcMsg \o sub[s].receipts]
        BY <1>2, <3>4, <4>1 DEF ToIcon
      <4>2. CASE icon' = [icon EXCEPT !.pc = "start", !.srcMsg = <<>>]
        BY <1>2, <1>4, <4>2 DEF ToIcon
      <4> QED  BY <3>5, <4>1, <4>2
    <3> QED  BY <1>1, <1>2, <3>2, <3>3, <3>6 DEF IconTyped
  <2> QED  BY <1>8, <2>3, <2>4, <2>5, <2>6, <2>7, <2>8 DEF SubStep
<1> QED  BY <1>5, <1>6, <1>7, <1>8

-----------------------------------------------------------------------------
(* The verifier and the rounds in hand.                                    *)

InFlight == {s \in Subs : sub[s].pc \in {"check", "update"}}

\* What holds of each subscription.
InStep(s) ==
    /\ sub[s].pc \in {"check", "update"} => sub[s].round <= vr.round
    /\ sub[s].pc \in {"seq", "height", "label", "send"} => BlockInHand(sub[s])

LEMMA MovesParts ==
    VerifierMoves <=> /\ vr.round + Cardinality(InFlight) <= Len(AlgoBlocks) + MaxSubs - 1
                      /\ \A s \in Subs : InStep(s)
BY DEF VerifierMoves, InFlight, InStep

\* Subscriptions are finitely many.
LEMMA FlightFinite ==
    ASSUME chains \in Chains, NEW F \in SUBSET Subs
    PROVE  IsFiniteSet(F) /\ Cardinality(F) \in Nat /\ Cardinality(F) <= MaxSubs
<1>1. MaxSubs \in Nat  BY ChainTypes
<1>2. IsFiniteSet(Subs) /\ Cardinality(Subs) = MaxSubs
  <2>1. IsFiniteSet(1 .. MaxSubs)  BY <1>1, FS_Interval
  <2>2. Cardinality(1 .. MaxSubs) = IF 1 > MaxSubs THEN 0 ELSE MaxSubs - 1 + 1
    BY <1>1, FS_Interval
  <2>3. Cardinality(1 .. MaxSubs) = MaxSubs  BY <1>1, <2>2
  <2> QED  BY <2>1, <2>3 DEF Subs
<1>3. IsFiniteSet(F) /\ Cardinality(F) <= Cardinality(Subs)  BY <1>2, FS_Subset
<1> QED  BY <1>2, <1>3, FS_CardinalityType

\* The numbers of the verifier.
LEMMA VerifierFields ==
    ASSUME chains \in Chains, VerifierTyped
    PROVE  /\ vr.round \in Nat /\ vr.round >= VerifierRound /\ VerifierRound \in Nat
           /\ VerifierRound >= 1 /\ VerifierRound <= Len(AlgoBlocks)
           /\ vr.hash \in 0 .. Len(AlgoBlocks)
           /\ Len(AlgoBlocks) \in Nat /\ MaxSubs \in Nat /\ MaxSubs >= 1
<1>1. /\ VerifierRound \in 1 .. Len(AlgoBlocks) /\ Len(AlgoBlocks) \in Nat
      /\ MaxSubs \in Nat \ {0}
  BY ChainTypes
<1>2. /\ vr.round \in VerifierRound .. Len(AlgoBlocks) + MaxSubs - 1
      /\ vr.hash \in 0 .. Len(AlgoBlocks)
  BY DEF VerifierTyped
<1> QED  BY <1>1, <1>2

\* The verifier moves forward, in a process that goes on.
LEMMA VerifierForward ==
    ASSUME TypeOK, UNCHANGED chains, Next, ~Crash
    PROVE  /\ vr'.round \in Nat /\ vr'.round >= vr.round /\ vr'.round <= vr.round + 1
           /\ vr'.hash \in 0 .. Len(AlgoBlocks)
           /\ vr' = vr \/ \E s \in Subs : UpdateVerifier(s)
           /\ vr' = [round |-> vr'.round, hash |-> vr'.hash]
<1>0. chains \in Chains /\ VerifierTyped /\ IconTyped  BY TypeParts
<1>1. vr.round \in Nat /\ vr.hash \in 0 .. Len(AlgoBlocks)
      /\ vr = [round |-> vr.round, hash |-> vr.hash]
  BY <1>0, VerifierFields DEF VerifierTyped
<1>2. CASE vr' = vr  BY <1>1, <1>2
<1>3. ASSUME NEW s \in Subs, UpdateVerifier(s)
      PROVE  /\ vr'.round \in Nat /\ vr'.round >= vr.round /\ vr'.round <= vr.round + 1
             /\ vr'.hash \in 0 .. Len(AlgoBlocks)
             /\ vr' = [round |-> vr'.round, hash |-> vr'.hash]
  <2>1. PICK r \in {vr.round + 1} \cup ({vr.round} \cap {sub[s].round + 1}) :
           vr' = [round |-> r, hash |-> sub[s].round]
    BY <1>3 DEF UpdateVerifier
  <2>2. r \in Nat /\ r >= vr.round /\ r <= vr.round + 1  BY <1>1
  <2>3. sub[s].round \in 0 .. Len(AlgoBlocks)  BY <1>0, SubFields
  <2> QED  BY <2>1, <2>2, <2>3
<1>4. vr' = vr \/ \E s \in Subs : UpdateVerifier(s)
  BY IconLeaves
  DEF Next, Step, AlgoStep, AlgoStart, AlgoReceive, AlgoRelay, Send, ReceiptSeq,
      ReceiptHeight, ReceiptFail, SendFail, IconStart, IconOnly, SubStep, FetchBlock,
      CheckParent, ExtractSeq, ExtractHeight, Label, ExtractFail, SendReceipts,
      SendError, a2i
<1> QED  BY <1>2, <1>3, <1>4

\* A subscription that does not move keeps what holds of it.
LEMMA KeepsStep ==
    ASSUME UNCHANGED chains, NEW s \in Subs, InStep(s), sub'[s] = sub[s],
           vr.round \in Nat, vr'.round \in Nat, vr'.round >= vr.round,
           sub[s].round \in Nat
    PROVE  InStep(s)'
<1>1. AlgoBlocks' = AlgoBlocks  BY SameChains
<1>2. sub[s].pc \in {"check", "update"} => sub[s].round <= vr'.round
  BY DEF InStep
<1>3. sub[s].pc \in {"seq", "height", "label", "send"} => BlockInHand(sub[s])'
  <2> SUFFICES ASSUME BlockInHand(sub[s]) PROVE BlockInHand(sub[s])'
    BY DEF InStep
  <2>1. sub[s].round < vr'.round  BY DEF BlockInHand
  <2> QED  BY <1>1, <2>1 DEF BlockInHand
<1> QED  BY <1>2, <1>3 DEF InStep

\* A step that touches no subscription and no verifier.
LEMMA MovesSame ==
    ASSUME VerifierMoves, UNCHANGED <<chains, sub, vr>>
    PROVE  VerifierMoves'
<1>1. AlgoBlocks' = AlgoBlocks  BY SameChains
<1> QED  BY <1>1 DEF VerifierMoves, BlockInHand

\* One subscription moves, the verifier does not go back, and the bound holds.
LEMMA MovesOne ==
    ASSUME TypeOK, VerifierMoves, UNCHANGED chains, Next, ~Crash, NEW s \in Subs,
           NEW v \in FromAlgo, SubMoves(s, v), InStep(s)',
           vr'.round + Cardinality(InFlight') <= Len(AlgoBlocks) + MaxSubs - 1
    PROVE  VerifierMoves'
<1>1. chains \in Chains /\ IconTyped /\ VerifierTyped  BY TypeParts
<1>2. AlgoBlocks' = AlgoBlocks  BY SameChains
<1>3. vr.round \in Nat /\ vr'.round \in Nat /\ vr'.round >= vr.round
  BY <1>1, VerifierFields, VerifierForward
<1>4. ASSUME NEW t \in Subs \ {s} PROVE InStep(t)'
  <2>1. sub'[t] = sub[t]  BY <1>1, MovedTyped
  <2>2. sub[t].round \in Nat
    <3>1. sub[t].round \in 0 .. Len(AlgoBlocks) /\ Len(AlgoBlocks) \in Nat
      BY <1>1, SubFields, ChainTypes
    <3> QED  BY <3>1
  <2>3. InStep(t)  BY MovesParts
  <2> QED  BY <1>3, <2>1, <2>2, <2>3, KeepsStep
<1>5. \A t \in Subs : InStep(t)'  BY <1>4
<1> QED  BY <1>2, <1>5 DEF VerifierMoves, InFlight, InStep

\* How many subscriptions are between fetching and moving the verifier.
LEMMA FlightChange ==
    ASSUME chains \in Chains, IconTyped, NEW s \in Subs, NEW v \in FromAlgo, SubMoves(s, v)
    PROVE  /\ Cardinality(InFlight) \in Nat /\ Cardinality(InFlight') \in Nat
           /\ Cardinality(InFlight') <= MaxSubs
           /\ v.pc \notin {"check", "update"} => Cardinality(InFlight') <= Cardinality(InFlight)
           /\ sub[s].pc \in {"check", "update"} => Cardinality(InFlight') <= Cardinality(InFlight)
           /\ sub[s].pc \in {"check", "update"} /\ v.pc \notin {"check", "update"}
                 => Cardinality(InFlight') = Cardinality(InFlight) - 1
<1>1. sub'[s] = v /\ \A t \in Subs \ {s} : sub'[t] = sub[t]  BY MovedTyped
<1>2. InFlight \in SUBSET Subs /\ InFlight' \in SUBSET Subs  BY DEF InFlight
<1>3. /\ IsFiniteSet(InFlight) /\ IsFiniteSet(InFlight') /\ Cardinality(InFlight') <= MaxSubs
      /\ Cardinality(InFlight) \in Nat /\ Cardinality(InFlight') \in Nat
  BY <1>2, FlightFinite
<1>4. v.pc \notin {"check", "update"} => InFlight' = InFlight \ {s}
  BY <1>1 DEF InFlight
<1>5. sub[s].pc \in {"check", "update"} => s \in InFlight  BY DEF InFlight
<1>6. s \in InFlight => InFlight' \subseteq InFlight  BY <1>1 DEF InFlight
<1>7. InFlight' \subseteq InFlight => Cardinality(InFlight') <= Cardinality(InFlight)
  BY <1>3, FS_Subset
<1>8. s \in InFlight => Cardinality(InFlight) = Cardinality(InFlight \ {s}) + 1
                        /\ Cardinality(InFlight \ {s}) \in Nat
  BY <1>3, CardRemove
<1>9. v.pc \notin {"check", "update"} => Cardinality(InFlight') <= Cardinality(InFlight)
  BY <1>4, <1>7
<1>10. sub[s].pc \in {"check", "update"} => Cardinality(InFlight') <= Cardinality(InFlight)
  BY <1>5, <1>6, <1>7
<1>11. sub[s].pc \in {"check", "update"} /\ v.pc \notin {"check", "update"}
          => Cardinality(InFlight') = Cardinality(InFlight) - 1
  <2> SUFFICES ASSUME sub[s].pc \in {"check", "update"}, v.pc \notin {"check", "update"}
               PROVE  Cardinality(InFlight') = Cardinality(InFlight) - 1
    OBVIOUS
  <2>1. s \in InFlight /\ InFlight' = InFlight \ {s}  BY <1>4, <1>5
  <2>2. Cardinality(InFlight) = Cardinality(InFlight') + 1  BY <1>8, <2>1
  <2> QED  BY <1>3, <2>2
<1> QED  BY <1>3, <1>9, <1>10, <1>11

\* A move that neither fetches nor moves the verifier keeps the bound.
LEMMA BoundKept ==
    ASSUME TypeOK, VerifierMoves, NEW s \in Subs, NEW v \in FromAlgo, SubMoves(s, v),
           v.pc \notin {"check", "update"} \/ sub[s].pc \in {"check", "update"},
           UNCHANGED <<chains, vr>>
    PROVE  vr'.round + Cardinality(InFlight') <= Len(AlgoBlocks) + MaxSubs - 1
<1>1. chains \in Chains /\ IconTyped /\ VerifierTyped  BY TypeParts
<1>2. /\ Cardinality(InFlight) \in Nat /\ Cardinality(InFlight') \in Nat
      /\ Cardinality(InFlight') <= Cardinality(InFlight)
  BY <1>1, FlightChange
<1>3. vr.round \in Nat /\ Len(AlgoBlocks) \in Nat /\ MaxSubs \in Nat
  BY <1>1, VerifierFields
<1>4. vr.round + Cardinality(InFlight) <= Len(AlgoBlocks) + MaxSubs - 1  BY MovesParts
<1> QED  BY <1>2, <1>3, <1>4

\* The verifier and the rounds in hand, step by step.
LEMMA MovesNext ==
    ASSUME TypeOK, VerifierMoves, Next
    PROVE  VerifierMoves'
<1>0. chains \in Chains /\ IconTyped /\ VerifierTyped /\ UNCHANGED chains
  BY TypeParts DEF Next, Step
<1>1. /\ vr.round \in Nat /\ VerifierRound \in Nat /\ VerifierRound >= 1
      /\ VerifierRound <= Len(AlgoBlocks)
      /\ Len(AlgoBlocks) \in Nat /\ MaxSubs \in Nat /\ MaxSubs >= 1
  BY <1>0, VerifierFields
<1>2. AlgoBlocks' = AlgoBlocks  BY <1>0, SameChains
<1>3. CASE Crash
  <2>1. vr'.round = VerifierRound  BY <1>3 DEF Crash, NewReceiver
  <2>2. \A s \in Subs : sub'[s].pc = "done"  BY <1>3 DEF Crash, NoSub
  <2>3. InFlight' = {}  BY <2>2 DEF InFlight
  <2>4. Cardinality(InFlight') = 0  BY <2>3, FS_EmptySet
  <2>5. \A s \in Subs : InStep(s)'  BY <2>2 DEF InStep
  <2>6. vr'.round + Cardinality(InFlight') <= Len(AlgoBlocks) + MaxSubs - 1
    BY <1>1, <2>1, <2>4
  <2> QED  BY <1>2, <2>5, <2>6 DEF VerifierMoves, InFlight, InStep
<1>4. ASSUME ~Crash PROVE VerifierMoves'
  <2>1. CASE UNCHANGED <<sub, vr>>  BY <1>0, <2>1, MovesSame
  <2>2. CASE IconStart
    <3>1. UNCHANGED vr  BY <2>2 DEF IconStart
    <3>2. PICK s \in Subs : sub[s] = NoSub /\ SubMoves(s, NewSub)  BY <1>0, <2>2, StartEffect
    <3>3. NewSub \in FromAlgo /\ NewSub.pc = "loop"
      <4>1. icon.rxSeq \in Nat /\ icon.rxHeight \in 0 .. Len(AlgoBlocks)  BY <1>0, ToIconFields
      <4>2. icon.rxSeq + 1 \in Nat /\ 0 \in 0 .. Len(AlgoBlocks)  BY <1>1, <4>1
      <4>3. <<>> \in Seq(Labeled) /\ <<>> \in Seq(Messages \cup {0})  OBVIOUS
      <4> QED  BY <4>1, <4>2, <4>3 DEF NewSub, FromAlgo
    <3>4. sub'[s] = NewSub  BY <1>0, <3>2, <3>3, MovedTyped
    <3>5. InStep(s)'  BY <3>3, <3>4 DEF InStep
    <3>6. vr'.round + Cardinality(InFlight') <= Len(AlgoBlocks) + MaxSubs - 1
      BY <1>0, <3>1, <3>2, <3>3, BoundKept
    <3> QED  BY <1>0, <1>4, <3>2, <3>3, <3>5, <3>6, MovesOne
  <2>3. ASSUME NEW s \in Subs, SubStep(s) PROVE VerifierMoves'
    <3>0. /\ sub[s] \in FromAlgo
          /\ sub[s].round \in 0 .. Len(AlgoBlocks) /\ sub[s].height \in 0 .. Len(AlgoBlocks)
          /\ sub[s].receipts \in Seq(Labeled) /\ sub[s].todo \in Seq(Messages \cup {0})
          /\ sub' \in [Subs -> FromAlgo] /\ InStep(s)
      <4>1. IconTyped'  BY <1>0, <2>3, SubTypes
      <4>2. FromAlgo' = FromAlgo  BY <1>0, SameChains
      <4> QED  BY <1>0, <4>1, <4>2, SubFields, MovesParts DEF IconTyped
    <3>1. ASSUME NEW v, SubMoves(s, v), v.pc \in {"loop", "error"}, UNCHANGED vr
          PROVE  VerifierMoves'
      <4>1. sub'[s] = v  BY <1>0, <3>1 DEF SubMoves, IconTyped
      <4>2. v \in FromAlgo  BY <3>0, <4>1
      <4>3. InStep(s)'  BY <3>1, <4>1 DEF InStep
      <4>4. vr'.round + Cardinality(InFlight') <= Len(AlgoBlocks) + MaxSubs - 1
        BY <1>0, <3>1, <4>2, BoundKept
      <4> QED  BY <1>0, <1>4, <3>1, <4>2, <4>3, <4>4, MovesOne
    <3>2. CASE FetchBlock(s)
      <4>1. UNCHANGED vr  BY <3>2 DEF FetchBlock
      <4> DEFINE v == [sub[s] EXCEPT !.pc = "check", !.round = vr.round]
      <4>2. CASE SubMoves(s, v)
        <5>1. sub'[s] = v  BY <1>0, <4>2 DEF SubMoves, IconTyped
        <5>2. v \in FromAlgo /\ v.pc = "check" /\ v.round = vr.round
          BY <3>0, <5>1 DEF FromAlgo
        <5> HIDE DEF v
        <5>3. InStep(s)'  BY <1>1, <4>1, <5>1, <5>2 DEF InStep
        <5>4. Cardinality(InFlight') \in Nat /\ Cardinality(InFlight') <= MaxSubs
          BY <1>0, <4>2, <5>2, FlightChange
        <5>5. vr.round < Len(AlgoBlocks)  BY <3>2 DEF FetchBlock
        <5>6. vr'.round + Cardinality(InFlight') <= Len(AlgoBlocks) + MaxSubs - 1
          BY <1>1, <4>1, <5>4, <5>5
        <5> QED  BY <1>0, <1>4, <4>2, <5>2, <5>3, <5>6, MovesOne
      <4>3. CASE SubMoves(s, [sub[s] EXCEPT !.pc = "error"])
        <5>1. [sub[s] EXCEPT !.pc = "error"].pc = "error"  BY <3>0 DEF FromAlgo
        <5> QED  BY <3>1, <4>1, <4>3, <5>1
      <4> QED  BY <1>0, <3>2, <4>2, <4>3, FetchEffect
    <3>3. CASE CheckParent(s)
      <4>1. UNCHANGED vr /\ sub[s].pc = "check"  BY <3>3 DEF CheckParent
      <4> DEFINE v == [sub[s] EXCEPT !.pc = "update"]
      <4>2. CASE SubMoves(s, v)
        <5>1. sub'[s] = v  BY <1>0, <4>2 DEF SubMoves, IconTyped
        <5>2. v \in FromAlgo /\ v.pc = "update" /\ v.round = sub[s].round
          BY <3>0, <5>1 DEF FromAlgo
        <5> HIDE DEF v
        <5>3. InStep(s)'  BY <3>0, <4>1, <5>1, <5>2 DEF InStep
        <5>4. vr'.round + Cardinality(InFlight') <= Len(AlgoBlocks) + MaxSubs - 1
          BY <1>0, <4>1, <4>2, <5>2, BoundKept
        <5> QED  BY <1>0, <1>4, <4>2, <5>2, <5>3, <5>4, MovesOne
      <4>3. CASE SubMoves(s, [sub[s] EXCEPT !.pc = "error"])
        <5>1. [sub[s] EXCEPT !.pc = "error"].pc = "error"  BY <3>0 DEF FromAlgo
        <5> QED  BY <3>1, <4>1, <4>3, <5>1
      <4> QED  BY <1>0, <3>3, <4>2, <4>3, CheckEffect
    <3>4. CASE UpdateVerifier(s)
      <4>1. sub[s].pc = "update" /\ sub[s].round <= vr.round
        BY <3>0, <3>4 DEF UpdateVerifier, InStep
      <4>2. vr'.round \in Nat /\ vr'.round <= vr.round + 1 /\ vr'.round > sub[s].round
        <5>1. PICK r \in {vr.round + 1} \cup ({vr.round} \cap {sub[s].round + 1}) :
                 vr' = [round |-> r, hash |-> sub[s].round]
          BY <3>4 DEF UpdateVerifier
        <5>2. vr'.round = r  BY <5>1
        <5>3. sub[s].round \in Nat  BY <1>1, <3>0
        <5> QED  BY <1>1, <4>1, <5>2, <5>3
      <4>3. ASSUME NEW v \in FromAlgo, SubMoves(s, v), v.pc \notin {"check", "update"}
            PROVE  vr'.round + Cardinality(InFlight') <= Len(AlgoBlocks) + MaxSubs - 1
        <5>1. /\ Cardinality(InFlight) \in Nat /\ Cardinality(InFlight') \in Nat
              /\ Cardinality(InFlight') = Cardinality(InFlight) - 1
          BY <1>0, <4>1, <4>3, FlightChange
        <5>2. vr.round + Cardinality(InFlight) <= Len(AlgoBlocks) + MaxSubs - 1  BY MovesParts
        <5> QED  BY <1>1, <4>2, <5>1, <5>2
      <4> DEFINE skip == sub[s].round <= sub[s].height \/ AlgoBlocks[sub[s].round] = <<>>
                 a == [sub[s] EXCEPT !.pc = "loop", !.todo = <<>>, !.receipts = <<>>]
                 b == [sub[s] EXCEPT !.pc = "seq", !.todo = AlgoBlocks[sub[s].round],
                                     !.receipts = <<>>]
      <4>4. (skip => SubMoves(s, a)) /\ (~skip => SubMoves(s, b))
        BY <1>0, <3>4, UpdateEffect
      <4>5. CASE skip
        <5>1. sub'[s] = a  BY <1>0, <4>4, <4>5 DEF SubMoves, IconTyped
        <5>2. a \in FromAlgo /\ a.pc = "loop"  BY <3>0, <5>1 DEF FromAlgo
        <5> HIDE DEF a
        <5>3. InStep(s)'  BY <5>1, <5>2 DEF InStep
        <5> QED  BY <1>0, <1>4, <4>3, <4>4, <4>5, <5>2, <5>3, MovesOne
      <4>6. CASE ~skip
        <5>1. sub'[s] = b  BY <1>0, <4>4, <4>6 DEF SubMoves, IconTyped
        <5>2. /\ b \in FromAlgo /\ b.pc = "seq" /\ b.todo = AlgoBlocks[sub[s].round]
              /\ b.receipts = <<>> /\ b.round = sub[s].round /\ b.height = sub[s].height
          BY <3>0, <5>1 DEF FromAlgo
        <5>3. sub[s].round \in 1 .. Len(AlgoBlocks) /\ sub[s].round > sub[s].height
              /\ AlgoBlocks[sub[s].round] # <<>>
          BY <1>1, <3>0, <4>6
        <5>4. AlgoBlocks[sub[s].round] \in Seq(Messages \cup {0})
              /\ DOMAIN AlgoBlocks = 1 .. Len(AlgoBlocks)
          BY <1>0, <5>3, BlockTypes, ChainTypes
        <5> HIDE DEF b
        <5>5. BlockInHand(sub[s])'
          <6> DEFINE blk == AlgoBlocks[sub[s].round]
          <6>1. Len(blk) \in Nat  BY <5>4
          <6>2. \A i \in 1 .. Len(blk) : blk[i] = blk[0 + i] /\ 0 + i = i  BY <6>1
          <6>3. Len(b.receipts) = 0 /\ 0 + Len(blk) = Len(blk)  BY <5>2, <6>1
          <6>4. \A i \in 1 .. Len(b.receipts) : FALSE  BY <6>3
          <6> HIDE DEF blk
          <6>5. b.todo = blk /\ blk # <<>>  BY <5>2, <5>3 DEF blk
          <6>6. AlgoBlocks'[sub'[s].round] = blk  BY <1>2, <5>1, <5>2 DEF blk
          <6> QED  BY <1>2, <4>2, <5>1, <5>2, <5>3, <5>4, <6>2, <6>3, <6>4, <6>5, <6>6
                   DEF BlockInHand
        <5>6. InStep(s)'  BY <5>1, <5>2, <5>5 DEF InStep
        <5> QED  BY <1>0, <1>4, <4>3, <4>4, <4>6, <5>2, <5>6, MovesOne
      <4> QED  BY <4>5, <4>6
    <3>5. CASE ExtractSeq(s) \/ ExtractHeight(s) \/ ExtractFail(s)
      <4>1. UNCHANGED vr  BY <3>5 DEF ExtractSeq, ExtractHeight, ExtractFail
      <4>2. ASSUME NEW p \in {"height", "label"}, SubMoves(s, [sub[s] EXCEPT !.pc = p]),
                   sub[s].pc \in {"seq", "height"}
            PROVE  VerifierMoves'
        <5> DEFINE v == [sub[s] EXCEPT !.pc = p]
        <5>1. sub'[s] = v  BY <1>0, <4>2 DEF SubMoves, IconTyped
        <5>2. /\ v \in FromAlgo /\ v.pc = p /\ v.round = sub[s].round
              /\ v.height = sub[s].height /\ v.todo = sub[s].todo
              /\ v.receipts = sub[s].receipts /\ p # "send" /\ p \notin {"check", "update"}
          BY <3>0, <4>2, <5>1 DEF FromAlgo
        <5>3. SubMoves(s, v)  BY <4>2
        <5> HIDE DEF v
        <5>4. BlockInHand(sub[s])  BY <3>0, <4>2 DEF InStep
        <5>5. BlockInHand(sub[s])'
          BY <1>2, <4>1, <4>2, <5>1, <5>2, <5>4 DEF BlockInHand
        <5>6. InStep(s)'  BY <5>1, <5>2, <5>5 DEF InStep
        <5>7. vr'.round + Cardinality(InFlight') <= Len(AlgoBlocks) + MaxSubs - 1
          BY <1>0, <4>1, <5>2, <5>3, BoundKept
        <5> QED  BY <1>0, <1>4, <5>2, <5>3, <5>6, <5>7, MovesOne
      <4>3. CASE SubMoves(s, [sub[s] EXCEPT !.pc = "error"])
        <5>1. [sub[s] EXCEPT !.pc = "error"].pc = "error"  BY <3>0 DEF FromAlgo
        <5> QED  BY <3>1, <4>1, <4>3, <5>1
      <4> QED  BY <1>0, <2>1, <3>5, <4>1, <4>2, <4>3, ExtractEffect
    <3>6. CASE Label(s)
      <4>1. UNCHANGED vr /\ sub[s].pc = "label"  BY <3>6 DEF Label
      <4>2. BlockInHand(sub[s])  BY <3>0, <4>1 DEF InStep
      <4>3. sub[s].todo # <<>>  BY <4>1, <4>2 DEF BlockInHand
      <4> DEFINE p == IF Len(sub[s].todo) = 1 THEN "send" ELSE "seq"
                 v == [sub[s] EXCEPT
                         !.seq = sub[s].seq + 1, !.todo = Tail(sub[s].todo),
                         !.receipts = Append(sub[s].receipts, LabelOf(s)), !.pc = p]
      <4>4. CASE SubMoves(s, v) /\ Head(sub[s].todo) # 0
        <5>1. sub'[s] = v  BY <1>0, <4>4 DEF SubMoves, IconTyped
        <5>2. /\ v \in FromAlgo /\ v.pc = p /\ v.round = sub[s].round
              /\ v.height = sub[s].height /\ v.todo = Tail(sub[s].todo)
              /\ v.receipts = Append(sub[s].receipts, LabelOf(s))
          BY <3>0, <5>1 DEF FromAlgo
        <5>3. SubMoves(s, v) /\ p \in {"send", "seq"}  BY <4>4
        <5>4. p = "send" <=> Len(sub[s].todo) = 1  OBVIOUS
        <5> HIDE DEF v, p
        <5>5. BlockInHand(sub[s])'
          <6> DEFINE blk == AlgoBlocks[sub[s].round]
                     n == Len(sub[s].receipts)  m == Len(sub[s].todo)
                     rc == Append(sub[s].receipts, LabelOf(s))  td == Tail(sub[s].todo)
          <6>1. /\ n + m = Len(blk)
                /\ \A i \in 1 .. n : sub[s].receipts[i].msg = blk[i]
                                     /\ sub[s].receipts[i].height = sub[s].round
                /\ \A i \in 1 .. m : sub[s].todo[i] = blk[n + i]
                /\ sub[s].round \in DOMAIN AlgoBlocks /\ sub[s].round > sub[s].height
                /\ sub[s].round < vr.round
            BY <4>2 DEF BlockInHand
          <6>2. n \in Nat /\ m \in Nat /\ m >= 1
            BY <1>0, <3>0, <4>3, TodoTypes
          <6>3. /\ Len(td) = m - 1 /\ Head(sub[s].todo) = sub[s].todo[1]
                /\ \A i \in 1 .. m - 1 : td[i] = sub[s].todo[i + 1]
                /\ td \in Seq(Messages \cup {0})
            BY <1>0, <4>3, TodoTypes
          <6>4. /\ Len(rc) = n + 1 /\ rc[n + 1] = LabelOf(s)
                /\ \A i \in 1 .. n : rc[i] = sub[s].receipts[i]
            BY <1>0, <4>3, <4>4, LabelTypes
          <6>5. LabelOf(s).msg = blk[n + 1] /\ LabelOf(s).height = sub[s].round
            <7>1. sub[s].todo[1] = blk[n + 1]  BY <6>1, <6>2
            <7> QED  BY <6>3, <7>1 DEF LabelOf
          <6> HIDE DEF blk, n, m, rc, td
          <6>6. Len(rc) + Len(td) = Len(blk)
            <7>1. n + m = Len(blk)  BY <6>1
            <7>2. n \in Nat /\ m \in Nat  BY <6>2
            <7>3. Len(td) = m - 1 /\ Len(rc) = n + 1  BY <6>3, <6>4
            <7>4. (n + 1) + (m - 1) = n + m  BY <7>2
            <7> QED  BY <7>1, <7>3, <7>4
          <6>7. \A i \in 1 .. Len(rc) : rc[i].msg = blk[i] /\ rc[i].height = sub[s].round
            <7> SUFFICES ASSUME NEW i \in 1 .. Len(rc)
                         PROVE  rc[i].msg = blk[i] /\ rc[i].height = sub[s].round
              OBVIOUS
            <7>1. i \in 1 .. n \/ i = n + 1  BY <6>2, <6>4
            <7> QED  BY <6>1, <6>4, <6>5, <7>1
          <6>8. \A i \in 1 .. Len(td) : td[i] = blk[Len(rc) + i]
            <7> SUFFICES ASSUME NEW i \in 1 .. Len(td) PROVE td[i] = blk[Len(rc) + i]
              OBVIOUS
            <7>1. i \in 1 .. m - 1 /\ i + 1 \in 1 .. m /\ n + (i + 1) = (n + 1) + i
              BY <6>2, <6>3
            <7>2. td[i] = sub[s].todo[i + 1] /\ sub[s].todo[i + 1] = blk[n + (i + 1)]
              BY <6>1, <6>3, <7>1 DEF m, n
            <7> QED  BY <6>4, <7>1, <7>2
          <6>9. p = "send" <=> td = <<>>
            <7> DEFINE M == Messages \cup {0}
            <7>0. td \in Seq(M)  BY <6>3
            <7> HIDE DEF M
            <7>1. td = <<>> <=> Len(td) = 0  BY <7>0, EmptySeq
            <7>2. Len(td) = 0 <=> m = 1
              <8>1. m \in Nat /\ Len(td) = m - 1  BY <6>2, <6>3
              <8> QED  BY <8>1
            <7> QED  BY <5>4, <7>1, <7>2 DEF m
          <6>10. /\ sub'[s].round = sub[s].round /\ sub'[s].height = sub[s].height
                 /\ sub'[s].todo = td /\ sub'[s].receipts = rc /\ sub'[s].pc = p
            BY <5>1, <5>2 DEF td, rc
          <6>11. AlgoBlocks'[sub'[s].round] = blk  BY <1>2, <6>10 DEF blk
          <6>12. /\ sub'[s].round \in DOMAIN AlgoBlocks' /\ sub'[s].round > sub'[s].height
                 /\ sub'[s].round < vr'.round
            BY <1>2, <4>1, <6>1, <6>10
          <6> QED  BY <6>6, <6>7, <6>8, <6>9, <6>10, <6>11, <6>12 DEF BlockInHand
        <5>6. InStep(s)'  BY <5>1, <5>2, <5>3, <5>5 DEF InStep
        <5>7. vr'.round + Cardinality(InFlight') <= Len(AlgoBlocks) + MaxSubs - 1
          BY <1>0, <4>1, <5>2, <5>3, BoundKept
        <5> QED  BY <1>0, <1>4, <5>2, <5>3, <5>6, <5>7, MovesOne
      <4>5. CASE SubMoves(s, [sub[s] EXCEPT !.pc = "error"])
        <5>1. [sub[s] EXCEPT !.pc = "error"].pc = "error"  BY <3>0 DEF FromAlgo
        <5> QED  BY <3>1, <4>1, <4>5, <5>1
      <4> QED  BY <1>0, <3>6, <4>4, <4>5, LabelEffect DEF LabelOf
    <3>7. CASE SendReceipts(s) \/ SendError(s)
      <4> DEFINE a == [sub[s] EXCEPT !.pc = "loop", !.round = 0, !.receipts = <<>>]
                 b == [sub[s] EXCEPT !.pc = "loop", !.round = 0, !.todo = <<>>,
                                     !.receipts = <<>>]
      <4>1. UNCHANGED vr /\ (SubMoves(s, a) \/ SubMoves(s, b))
        BY <1>0, <3>7, SendEffect
      <4>2. a.pc = "loop" /\ b.pc = "loop"  BY <3>0 DEF FromAlgo
      <4> HIDE DEF a, b
      <4> QED  BY <3>1, <4>1, <4>2
    <3> QED  BY <2>3, <3>2, <3>3, <3>4, <3>5, <3>6, <3>7 DEF SubStep
  <2>4. UNCHANGED <<sub, vr>> \/ IconStart \/ \E s \in Subs : SubStep(s)
    BY <1>4, IconLeaves
    DEF Next, Step, AlgoStep, AlgoStart, AlgoReceive, AlgoRelay, Send, ReceiptSeq,
        ReceiptHeight, ReceiptFail, SendFail, IconOnly, a2i
  <2> QED  BY <2>1, <2>2, <2>3, <2>4
<1> QED  BY <1>3, <1>4

-----------------------------------------------------------------------------
(* Types, step by step.                                                    *)

\* What a step writes to the file is a status.
LEMMA WrittenIsStatus ==
    ASSUME TypeOK, NEW p \in Procs, access[p].st = "truncated"
    PROVE  LET d == access[p].data
           IN  /\ d \in Status /\ [d EXCEPT !.rx_seq = @ + 1] \in Status
               /\ [d EXCEPT !.tx_seq = @ + 1] \in Status
               /\ \A h \in Nat : [d EXCEPT !.rx_height = h] \in Status
               /\ \A h \in 0 .. Len(AlgoBlocks) : [d EXCEPT !.tx_height = h] \in Status
<1>1. access[p].data \in Status  BY TypeParts DEF FileTyped
<1> DEFINE d == access[p].data
<1> HIDE DEF d
<1>2. d \in Status  BY <1>1 DEF d
<1>3. d.rx_seq + 1 \in Nat /\ d.tx_seq + 1 \in Nat  BY <1>2 DEF Status
<1> SUFFICES /\ d \in Status /\ [d EXCEPT !.rx_seq = @ + 1] \in Status
             /\ [d EXCEPT !.tx_seq = @ + 1] \in Status
             /\ \A h \in Nat : [d EXCEPT !.rx_height = h] \in Status
             /\ \A h \in 0 .. Len(AlgoBlocks) : [d EXCEPT !.tx_height = h] \in Status
  BY DEF d
<1> QED  BY <1>2, <1>3 DEF Status

\* The steps on the file, and what they write.
FileStep(p) ==
    \/ ReadFile(p) \/ Truncate(p) \/ ReadFails(p)
    \/ \E data \in Status : WriteFile(p, data)

LEMMA FileSteps ==
    ASSUME TypeOK, Next, ~Crash
    PROVE  \/ UNCHANGED <<file, access, races>>
           \/ UNCHANGED faults /\ \E p \in Procs : FileStep(p)
<1>1. UNCHANGED chains /\ chains \in Chains  BY TypeParts DEF Next, Step
<1>2. 0 \in Procs /\ Subs \subseteq Procs
  BY <1>1, ChainTypes DEF Procs, Subs
<1>3. CASE ReceiptSeq
  <2>1. UNCHANGED faults  BY <1>3 DEF ReceiptSeq
  <2>2. CASE WriteFile(0, [access[0].data EXCEPT !.rx_seq = @ + 1])
    <3>1. access[0].st = "truncated"  BY <2>2 DEF WriteFile
    <3>2. [access[0].data EXCEPT !.rx_seq = @ + 1] \in Status  BY <1>2, <3>1, WrittenIsStatus
    <3> QED  BY <1>2, <2>1, <2>2, <3>2 DEF FileStep
  <2> QED  BY <1>2, <1>3, <2>1, <2>2 DEF ReceiptSeq, FileStep
<1>4. CASE ReceiptHeight
  <2>1. UNCHANGED faults  BY <1>4 DEF ReceiptHeight
  <2>2. CASE WriteFile(0, [access[0].data EXCEPT !.rx_height = algo.tx.height])
    <3>1. access[0].st = "truncated"  BY <2>2 DEF WriteFile
    <3>2. algo.tx.height \in Nat  BY TypeParts, ToAlgoFields
    <3>3. [access[0].data EXCEPT !.rx_height = algo.tx.height] \in Status
      BY <1>2, <3>1, <3>2, WrittenIsStatus
    <3> QED  BY <1>2, <2>1, <2>2, <3>3 DEF FileStep
  <2> QED  BY <1>2, <1>4, <2>1, <2>2 DEF ReceiptHeight, FileStep
<1>5. CASE ReceiptFail
  BY <1>2, <1>5 DEF ReceiptFail, FileStep
<1>6. ASSUME NEW s \in Subs, SubStep(s)
      PROVE  \/ UNCHANGED <<file, access, races>>
             \/ UNCHANGED faults /\ \E p \in Procs : FileStep(p)
  <2>0. s \in Procs  BY <1>2
  <2>1. CASE ExtractSeq(s)
    <3>1. UNCHANGED faults  BY <2>1 DEF ExtractSeq
    <3>2. CASE WriteFile(s, [access[s].data EXCEPT !.tx_seq = @ + 1])
      <4>1. access[s].st = "truncated"  BY <3>2 DEF WriteFile
      <4>2. [access[s].data EXCEPT !.tx_seq = @ + 1] \in Status
        BY <2>0, <4>1, WrittenIsStatus
      <4> QED  BY <2>0, <3>1, <3>2, <4>2 DEF FileStep
    <3> QED  BY <2>0, <2>1, <3>1, <3>2 DEF ExtractSeq, FileStep
  <2>2. CASE ExtractHeight(s)
    <3>1. UNCHANGED faults  BY <2>2 DEF ExtractHeight
    <3>2. CASE WriteFile(s, [access[s].data EXCEPT !.tx_height = sub[s].round])
      <4>1. access[s].st = "truncated"  BY <3>2 DEF WriteFile
      <4>2. sub[s].round \in 0 .. Len(AlgoBlocks)  BY TypeParts, SubFields
      <4>3. [access[s].data EXCEPT !.tx_height = sub[s].round] \in Status
        BY <2>0, <4>1, <4>2, WrittenIsStatus
      <4> QED  BY <2>0, <3>1, <3>2, <4>3 DEF FileStep
    <3> QED  BY <2>0, <2>2, <3>1, <3>2 DEF ExtractHeight, FileStep
  <2>3. CASE ExtractFail(s)  BY <2>0, <2>3 DEF ExtractFail, FileStep
  <2> QED  BY <1>6, <2>1, <2>2, <2>3
           DEF SubStep, FetchBlock, CheckParent, UpdateVerifier, Label, SendReceipts, SendError
<1>7. CASE AlgoStart \/ AlgoReceive \/ AlgoRelay \/ Send \/ SendFail \/ IconStart \/ ToIconStep
  BY <1>7, IconLeaves
  DEF AlgoStart, AlgoReceive, AlgoRelay, Send, SendFail, IconStart, IconOnly
<1> QED  BY <1>3, <1>4, <1>5, <1>6, <1>7 DEF Next, Step, AlgoStep

\* Every step keeps the types.
LEMMA TypeNext ==
    ASSUME TypeOK, VerifierMoves, Next
    PROVE  TypeOK'
<1>0. /\ chains \in Chains /\ UNCHANGED chains /\ FileTyped /\ AlgoTyped /\ VerifierTyped
      /\ IconTyped /\ faults \in 0 .. MaxFaults /\ races \in 0 .. MaxFaults
  BY TypeParts DEF Next, Step, FileTyped
<1>1. MaxFaults \in Nat /\ faults \in Nat /\ races \in Nat  BY <1>0, ChainTypes
<1>2. faults' \in 0 .. MaxFaults
  <2>1. UNCHANGED faults \/ (faults' = faults + 1 /\ races + faults < MaxFaults)
    BY IconLeaves
    DEF Next, Step, AlgoStep, SubStep, AlgoStart, AlgoReceive, AlgoRelay, Send,
        ReceiptSeq, ReceiptHeight, ReceiptFail, SendFail, Crash, IconStart, IconOnly,
        FetchBlock, CheckParent, UpdateVerifier, ExtractSeq, ExtractHeight, ExtractFail,
        Label, SendReceipts, SendError
  <2> QED  BY <1>0, <1>1, <2>1
<1>3. FileTyped'
  <2>1. CASE Crash
    <3>1. UNCHANGED file /\ access' = [p \in Procs |-> NoAccess]
          /\ (races' = races \/ races' = races + 1) /\ races' + faults <= MaxFaults
      BY <2>1 DEF Crash, Met
    <3>2. races' \in 0 .. MaxFaults  BY <1>1, <3>1
    <3>3. NoAccess \in [st : {"none", "read", "truncated"}, data : Status \cup {NoStatus}]
          /\ NoAccess.st = "none"
      BY DEF NoAccess
    <3>4. Status' = Status  BY <1>0, SameChains
    <3> QED  BY <1>0, <3>1, <3>2, <3>3, <3>4 DEF FileTyped
  <2>2. CASE UNCHANGED <<file, access, races>>
    <3>1. Status' = Status  BY <1>0, SameChains
    <3> QED  BY <1>0, <2>2, <3>1 DEF FileTyped
  <2>3. ASSUME UNCHANGED faults, NEW p \in Procs, FileStep(p) PROVE FileTyped'
    BY <1>0, <1>1, <2>3, ReadTypes, WriteTypes DEF FileStep
  <2> QED  BY <2>1, <2>2, <2>3, FileSteps
<1>4. AlgoTyped'
  <2>1. CASE AlgoStep \/ SendFail \/ Crash  BY <1>0, <2>1, AlgoTypes
  <2>2. CASE UNCHANGED i2a
    <3>1. ToAlgo' = ToAlgo /\ MaxEvents' = MaxEvents  BY <1>0, SameChains
    <3> QED  BY <1>0, <2>2, <3>1 DEF AlgoTyped, i2a
  <2>3. AlgoStep \/ SendFail \/ Crash \/ UNCHANGED i2a
    BY IconLeaves
    DEF Next, Step, SubStep, IconStart, IconOnly, FetchBlock, CheckParent, UpdateVerifier,
        ExtractSeq, ExtractHeight, ExtractFail, Label, SendReceipts, SendError
  <2> QED  BY <2>1, <2>2, <2>3
<1>5. IconTyped'
  <2>1. CASE IconStart \/ (\E s \in Subs : SubStep(s)) \/ ToIconStep \/ Crash
    BY <1>0, <2>1, SubTypes
  <2>2. CASE UNCHANGED <<icon, delivered, sub, failed>>
    <3>1. ToIcon' = ToIcon /\ Messages' = Messages /\ FromAlgo' = FromAlgo
      BY <1>0, SameChains
    <3> QED  BY <1>0, <2>2, <3>1 DEF IconTyped
  <2>3. \/ IconStart \/ (\E s \in Subs : SubStep(s)) \/ ToIconStep \/ Crash
        \/ UNCHANGED <<icon, delivered, sub, failed>>
    BY DEF Next, Step, AlgoStep, AlgoStart, AlgoReceive, AlgoRelay, Send, ReceiptSeq,
           ReceiptHeight, ReceiptFail, SendFail, a2i
  <2> QED  BY <2>1, <2>2, <2>3
<1>6. VerifierTyped'
  <2>1. AlgoBlocks' = AlgoBlocks  BY <1>0, SameChains
  <2>2. /\ vr.round \in Nat /\ vr.round >= VerifierRound /\ VerifierRound \in Nat
        /\ VerifierRound >= 1 /\ VerifierRound <= Len(AlgoBlocks)
        /\ Len(AlgoBlocks) \in Nat /\ MaxSubs \in Nat /\ MaxSubs >= 1
    BY <1>0, VerifierFields
  <2>3. CASE Crash
    <3>1. vr' = [round |-> VerifierRound, hash |-> VerifierRound - 1]
      BY <2>3 DEF Crash, NewReceiver
    <3>2. VerifierRound \in VerifierRound .. Len(AlgoBlocks) + MaxSubs - 1
          /\ VerifierRound - 1 \in 0 .. Len(AlgoBlocks)
      BY <2>2
    <3> QED  BY <2>1, <3>1, <3>2 DEF VerifierTyped
  <2>4. CASE ~Crash
    <3>1. /\ vr'.round \in Nat /\ vr'.round >= vr.round /\ vr'.hash \in 0 .. Len(AlgoBlocks)
          /\ vr' = [round |-> vr'.round, hash |-> vr'.hash]
      BY <1>0, <2>4, VerifierForward
    <3>2. vr'.round + Cardinality(InFlight') <= Len(AlgoBlocks) + MaxSubs - 1
      <4>1. VerifierMoves'  BY MovesNext
      <4> QED  BY <2>1, <4>1 DEF VerifierMoves, InFlight
    <3>3. Cardinality(InFlight') \in Nat
      <4>1. InFlight' \in SUBSET Subs  BY DEF InFlight
      <4> QED  BY <1>0, <4>1, FlightFinite
    <3>4. vr'.round \in VerifierRound .. Len(AlgoBlocks) + MaxSubs - 1
      BY <2>2, <3>1, <3>2, <3>3
    <3> QED  BY <2>1, <3>1, <3>4 DEF VerifierTyped
  <2> QED  BY <2>3, <2>4
<1>7. chains' \in Chains  BY <1>0
<1> QED  BY <1>2, <1>3, <1>4, <1>5, <1>6, <1>7
         DEF TypeOK, FileTyped, AlgoTyped, VerifierTyped, IconTyped

-----------------------------------------------------------------------------
(* The file, and the events that it counts.                                *)

\* The file holds d, or held it before a process truncated it, to write.
Held(d) ==
    /\ d \in Status
    /\ \/ file = d /\ \A p \in Procs : access[p].st # "truncated"
       \/ /\ file = NoStatus
          /\ \E p \in Procs :
                /\ access[p].st = "truncated" /\ access[p].data = d
                /\ \A q \in Procs : access[q].st = "truncated" => q = p

\* What was executed was first executed in order.
InTurn(e) ==
    \A i \in DOMAIN e : e[i] > 1 => \E j \in 1 .. i - 1 : e[j] = e[i] - 1

\* What d counts has been executed, and the transaction in hand follows it.
Counted(d) ==
    /\ 1 .. d.rx_seq \subseteq Range(executed)
    /\ algo.pc \in {"send", "seq"} => algo.tx.first = d.rx_seq + 1
    /\ algo.pc = "send" => algo.tx.first <= algo.tx.last
    /\ algo.pc = "seq" => algo.tx.first \in Range(executed)
    /\ InTurn(executed)

\* What is held is all there is.
LEMMA HeldContents ==
    ASSUME TypeOK, NEW d, Held(d)
    PROVE  /\ Contents = {d}
           /\ \A p \in Procs : access[p].st = "truncated" => file = NoStatus /\ access[p].data = d
           /\ \A p, q \in Procs :
                 access[p].st = "truncated" /\ access[q].st = "truncated" => p = q
           /\ file # NoStatus => file = d
<1>1. d \in Status /\ d # NoStatus  BY NoStatusIsNone DEF Held
<1> DEFINE T == {q \in Procs : access[q].st = "truncated"}
<1>2. Contents = ({file} \cup {access[p].data : p \in T}) \ {NoStatus}  BY DEF Contents
<1>3. CASE file = d /\ \A p \in Procs : access[p].st # "truncated"
  <2>1. T = {}  BY <1>3
  <2> HIDE DEF T
  <2>2. Contents = {d}  BY <1>1, <1>2, <1>3, <2>1
  <2> QED  BY <1>3, <2>2
<1>4. CASE /\ file = NoStatus
           /\ \E p \in Procs :
                /\ access[p].st = "truncated" /\ access[p].data = d
                /\ \A q \in Procs : access[q].st = "truncated" => q = p
  <2>1. PICK p \in Procs : /\ access[p].st = "truncated" /\ access[p].data = d
                           /\ \A q \in Procs : access[q].st = "truncated" => q = p
    BY <1>4
  <2>2. T = {p}  BY <2>1
  <2> HIDE DEF T
  <2>3. Contents = {d}  BY <1>1, <1>2, <1>4, <2>1, <2>2
  <2> QED  BY <1>4, <2>1, <2>3
<1> QED  BY <1>3, <1>4 DEF Held

\* The invariant of the file, by what it holds.
LEMMA FileParts ==
    ASSUME TypeOK
    PROVE  FileSound <=> (races = 0 => \E d : Held(d) /\ Counted(d))
<1>1. ASSUME races = 0, FileSound PROVE \E d : Held(d) /\ Counted(d)
  <2>1. /\ \A p \in Procs : access[p].st = "truncated" => file = NoStatus
        /\ \A p, q \in Procs :
              access[p].st = "truncated" /\ access[q].st = "truncated" => p = q
        /\ Contents # {}
        /\ \A d \in Contents :
              /\ 1 .. d.rx_seq \subseteq Range(executed)
              /\ algo.pc \in {"send", "seq"} => algo.tx.first = d.rx_seq + 1
        /\ algo.pc = "send" => algo.tx.first <= algo.tx.last
        /\ algo.pc = "seq" => algo.tx.first \in Range(executed)
        /\ InTurn(executed)
    BY <1>1 DEF FileSound, NoEventSkipped, InTurn
  <2>2. PICK d : d \in Contents  BY <2>1
  <2>3. FileTyped  BY TypeParts
  <2>4. d # NoStatus
        /\ (d = file \/ \E p \in Procs : access[p].st = "truncated" /\ access[p].data = d)
    BY <2>2 DEF Contents
  <2>5. Held(d)
    <3>1. CASE d = file
      BY <2>1, <2>3, <2>4, <3>1 DEF Held, FileTyped
    <3>2. ASSUME NEW p \in Procs, access[p].st = "truncated", access[p].data = d
          PROVE  Held(d)
      BY <2>1, <2>3, <2>4, <3>2 DEF Held, FileTyped
    <3> QED  BY <2>4, <3>1, <3>2
  <2> QED  BY <2>1, <2>2, <2>5 DEF Counted
<1>2. ASSUME races = 0, NEW d, Held(d), Counted(d) PROVE FileSound
  BY <1>2, HeldContents DEF FileSound, NoEventSkipped, Counted, InTurn
<1>3. races # 0 => FileSound  BY DEF FileSound
<1> QED  BY <1>1, <1>2, <1>3

\* An access that meets no other one: reading, and emptying what was read.
LEMMA HeldRead ==
    ASSUME TypeOK, UNCHANGED chains, NEW d, Held(d), NEW p \in Procs,
           races' = 0, races = 0, ReadFile(p) \/ Truncate(p)
    PROVE  Held(d)'
<1>1. Status' = Status  BY SameChains
<1>2. FileTyped /\ d \in Status /\ d # NoStatus /\ NoStatus \notin Status
  BY TypeParts, NoStatusIsNone DEF Held
<1>3. CASE ReadFile(p)
  <2>1. /\ UNCHANGED file /\ access[p].st = "none" /\ file # NoStatus
        /\ access' = [access EXCEPT ![p] = [st |-> "read", data |-> file]]
    BY <1>3 DEF ReadFile
  <2>2. file = d /\ \A q \in Procs : access[q].st # "truncated"  BY <2>1 DEF Held
  <2>3. \A q \in Procs : access'[q].st # "truncated"  BY <1>2, <2>1, <2>2 DEF FileTyped
  <2> QED  BY <1>1, <1>2, <2>1, <2>2, <2>3 DEF Held
<1>4. CASE Truncate(p)
  <2>1. /\ access[p].st = "read" /\ file' = NoStatus
        /\ access' = [access EXCEPT ![p].st = "truncated"]
        /\ file = access[p].data
    BY <1>4 DEF Truncate, Met
  <2>2. access[p].data \in Status  BY <1>2, <2>1 DEF FileTyped
  <2>3. file = d /\ \A q \in Procs : access[q].st # "truncated"
    BY <1>2, <2>1, <2>2 DEF Held
  <2>4. access'[p].st = "truncated" /\ access'[p].data = d
    BY <1>2, <2>1, <2>3 DEF FileTyped
  <2>5. \A q \in Procs \ {p} : access'[q].st # "truncated"
    BY <1>2, <2>1, <2>3 DEF FileTyped
  <2> QED  BY <1>1, <1>2, <2>1, <2>4, <2>5 DEF Held
<1> QED  BY <1>3, <1>4

\* A write that meets no other one replaces what was held.
LEMMA HeldWrite ==
    ASSUME TypeOK, UNCHANGED chains, NEW d, Held(d), NEW p \in Procs, NEW data \in Status,
           races' = 0, races = 0, WriteFile(p, data)
    PROVE  access[p].data = d /\ Held(data)'
<1>1. Status' = Status  BY SameChains
<1>2. FileTyped  BY TypeParts
<1>3. /\ access[p].st = "truncated" /\ file = NoStatus /\ file' = data
      /\ access' = [access EXCEPT ![p] = NoAccess]
  BY DEF WriteFile, Met
<1>4. access[p].data = d /\ \A q \in Procs : access[q].st = "truncated" => q = p
  BY <1>3, HeldContents
<1>5. \A q \in Procs : access'[q].st # "truncated"
  BY <1>2, <1>3, <1>4 DEF FileTyped, NoAccess
<1> QED  BY <1>1, <1>3, <1>4, <1>5 DEF Held

\* Events are added: what was executed stays, and they are there.
LEMMA ExecutedMore ==
    ASSUME NEW n \in Nat, NEW e \in Seq(1 .. n), NEW a \in Nat, NEW b \in Nat,
           a >= 1, a <= b, b <= n, 1 .. a - 1 \subseteq Range(e), InTurn(e)
    PROVE  /\ Range(e) \subseteq Range(e \o Span(a, b)) /\ a \in Range(e \o Span(a, b))
           /\ InTurn(e \o Span(a, b))
<1> DEFINE sp == Span(a, b)  f == e \o sp  k == b - a + 1
<1>1. sp \in Seq(1 .. n) /\ Len(sp) = k /\ \A i \in 1 .. Len(sp) : sp[i] = a + i - 1
  BY SpanType
<1>2. k \in Nat /\ k >= 1 /\ Len(e) \in Nat /\ DOMAIN e = 1 .. Len(e)  OBVIOUS
<1> HIDE DEF sp, k
<1>3. /\ DOMAIN f = 1 .. Len(e) + k
      /\ \A i \in 1 .. Len(e) : f[i] = e[i]
      /\ \A i \in 1 .. k : f[Len(e) + i] = a + i - 1
  <2>1. /\ f \in Seq(1 .. n) /\ Len(f) = Len(e) + k
        /\ \A i \in 1 .. Len(e) : f[i] = e[i]
        /\ \A i \in 1 .. k : f[Len(e) + i] = sp[i]
    <3> DEFINE M == 1 .. n
    <3>0. e \in Seq(M) /\ sp \in Seq(M)  BY <1>1
    <3> HIDE DEF M
    <3>1. Len(f) = Len(e) + Len(sp)  BY <3>0, ConcatProperties
    <3>2. \A i \in 1 .. Len(f) : f[i] = IF i <= Len(e) THEN e[i] ELSE sp[i - Len(e)]
      BY <3>0, ConcatProperties
    <3>3. f \in Seq(M)  BY <3>0, ConcatProperties
    <3> HIDE DEF f
    <3>4. \A i \in 1 .. k : Len(e) + i \in 1 .. Len(f) /\ ~(Len(e) + i <= Len(e))
                            /\ (Len(e) + i) - Len(e) = i
      BY <1>1, <1>2, <3>1
    <3>5. \A i \in 1 .. Len(e) : i \in 1 .. Len(f) /\ i <= Len(e)
      BY <1>1, <1>2, <3>1
    <3> QED  BY <1>1, <3>1, <3>2, <3>3, <3>4, <3>5 DEF M
  <2> HIDE DEF f
  <2>2. DOMAIN f = 1 .. Len(e) + k  BY <2>1
  <2>3. \A i \in 1 .. k : sp[i] = a + i - 1  BY <1>1
  <2> QED  BY <2>1, <2>2, <2>3
<1> HIDE DEF f
<1>4. Range(e) = {e[i] : i \in DOMAIN e} /\ Range(f) = {f[i] : i \in DOMAIN f}  BY DEF Range
<1>5. Range(e) \subseteq Range(f)
  <2> SUFFICES ASSUME NEW x \in Range(e) PROVE x \in Range(f)  OBVIOUS
  <2>1. PICK i \in DOMAIN e : e[i] = x  BY <1>4
  <2>2. i \in DOMAIN f /\ f[i] = x  BY <1>2, <1>3, <2>1
  <2> QED  BY <1>4, <2>2
<1>6. a \in Range(f)
  <2>1. Len(e) + 1 \in DOMAIN f /\ f[Len(e) + 1] = a + 1 - 1 /\ a + 1 - 1 = a  BY <1>2, <1>3
  <2> QED  BY <1>4, <2>1
<1>7. InTurn(f)
  <2> SUFFICES ASSUME NEW i \in DOMAIN f, f[i] > 1
               PROVE  \E j \in 1 .. i - 1 : f[j] = f[i] - 1
    BY DEF InTurn
  <2>1. CASE i \in 1 .. Len(e)
    <3>1. PICK j \in 1 .. i - 1 : e[j] = e[i] - 1  BY <1>2, <1>3, <2>1 DEF InTurn
    <3>2. j \in 1 .. Len(e)  BY <1>2, <2>1, <3>1
    <3> QED  BY <1>3, <2>1, <3>1, <3>2
  <2>2. CASE i \notin 1 .. Len(e)
    <3>1. PICK m \in 1 .. k : i = Len(e) + m
      <4>1. i \in Nat /\ i > Len(e) /\ i <= Len(e) + k  BY <1>2, <1>3, <2>2
      <4>2. i - Len(e) \in 1 .. k /\ i = Len(e) + (i - Len(e))  BY <1>2, <4>1
      <4> QED  BY <4>2
    <3>2. f[i] = a + m - 1  BY <1>3, <3>1
    <3>3. CASE m = 1
      <4>1. f[i] = a /\ a - 1 \in 1 .. a - 1  BY <3>2, <3>3
      <4>2. PICK j \in DOMAIN e : e[j] = a - 1  BY <1>4, <4>1
      <4>3. j \in 1 .. i - 1 /\ f[j] = a - 1  BY <1>2, <1>3, <3>1, <3>3, <4>2
      <4> QED  BY <4>1, <4>3
    <3>4. CASE m > 1
      <4>1. m - 1 \in 1 .. k /\ i - 1 = Len(e) + (m - 1) /\ i - 1 \in 1 .. i - 1
        BY <1>2, <3>1, <3>4
      <4>2. f[i - 1] = a + (m - 1) - 1  BY <1>3, <4>1
      <4>3. f[i - 1] = f[i] - 1  BY <1>2, <3>1, <3>2, <4>2
      <4> QED  BY <4>1, <4>3
    <3> QED  BY <1>2, <3>1, <3>3, <3>4
  <2> QED  BY <2>1, <2>2
<1> QED  BY <1>5, <1>6, <1>7 DEF f, sp

\* The same of the state after a step.
LEMMA FilePartsNext ==
    (TypeOK => (FileSound <=> (races = 0 => \E d : Held(d) /\ Counted(d))))'
<1>1. TypeOK => (FileSound <=> (races = 0 => \E d : Held(d) /\ Counted(d)))  BY FileParts
<1> QED  BY <1>1, PTL

\* What is counted stays counted when more is executed.
LEMMA CountedSame ==
    ASSUME NEW d, Counted(d), NEW e, e.rx_seq = d.rx_seq, UNCHANGED i2a
    PROVE  Counted(e)'
BY DEF Counted, i2a, InTurn

\* The relay to Algorand and its transaction.
LEMMA FileSoundNext ==
    ASSUME TypeOK, TypeOK', FileSound, Next
    PROVE  FileSound'
<1>0. /\ chains \in Chains /\ UNCHANGED chains /\ FileTyped /\ AlgoTyped /\ IconTyped
      /\ races \in Nat /\ races' \in Nat /\ MaxFaults \in Nat
  <2>1. /\ chains \in Chains /\ UNCHANGED chains /\ FileTyped /\ AlgoTyped /\ IconTyped
        /\ races \in 0 .. MaxFaults /\ races' \in 0 .. MaxFaults
    BY TypeParts DEF Next, Step, FileTyped, TypeOK
  <2> QED  BY <2>1, ChainTypes
<1> SUFFICES ASSUME races' = 0 PROVE \E d : Held(d)' /\ Counted(d)'
  BY FilePartsNext
<1>1. 0 \in Procs /\ Subs \subseteq Procs  BY <1>0, ChainTypes DEF Procs, Subs
<1>2. races = 0
  <2>1. races' = races \/ races' = races + 1
    <3>1. ASSUME NEW p \in Procs, FileStep(p) PROVE races' = races \/ races' = races + 1
      BY <3>1 DEF FileStep, ReadFile, Truncate, ReadFails, WriteFile, Met
    <3>2. CASE Crash  BY <3>2 DEF Crash, Met
    <3> QED  BY <3>1, <3>2, FileSteps
  <2> QED  BY <1>0, <2>1
<1>3. PICK d : Held(d) /\ Counted(d)  BY <1>2, FileParts
<1>4. d \in Status /\ d.rx_seq \in Nat  BY <1>3 DEF Held, Status
<1>5. Status' = Status  BY <1>0, SameChains
<1>6. ASSUME UNCHANGED <<file, access>> PROVE Held(d)'
  BY <1>3, <1>5, <1>6 DEF Held
<1>7. \A p : ~ReadFails(p)  BY <1>0, <1>2 DEF ReadFails, Met
<1>8. /\ algo.tx.first \in Nat /\ algo.tx.first >= 1 /\ algo.tx.last \in Nat
      /\ algo.tx.last <= MaxEvents /\ executed \in Seq(1 .. MaxEvents) /\ MaxEvents \in Nat
      /\ algo \in ToAlgo
  BY <1>0, ToAlgoFields, IconTypes DEF AlgoTyped
<1>9. algo.pc = "send" =>
         LET e == executed \o Span(algo.tx.first, algo.tx.last)
         IN  /\ Range(executed) \subseteq Range(e) /\ algo.tx.first \in Range(e) /\ InTurn(e)
  <2> SUFFICES ASSUME algo.pc = "send"
               PROVE  LET e == executed \o Span(algo.tx.first, algo.tx.last)
                      IN  /\ Range(executed) \subseteq Range(e)
                          /\ algo.tx.first \in Range(e) /\ InTurn(e)
    OBVIOUS
  <2>1. /\ 1 .. d.rx_seq \subseteq Range(executed) /\ algo.tx.first = d.rx_seq + 1
        /\ algo.tx.first <= algo.tx.last /\ InTurn(executed)
    BY <1>3 DEF Counted
  <2>2. 1 .. algo.tx.first - 1 \subseteq Range(executed)  BY <1>4, <2>1
  <2> QED  BY <1>8, <2>1, <2>2, ExecutedMore
<1>10. CASE AlgoStart \/ AlgoReceive
  <2>1. UNCHANGED <<file, access, executed>>  BY <1>10 DEF AlgoStart, AlgoReceive
  <2>2. algo'.pc = "run"
    BY <1>8, <1>10 DEF AlgoStart, AlgoReceive, Stopped, ToAlgo
  <2>3. Counted(d)'  BY <1>3, <2>1, <2>2 DEF Counted
  <2> QED  BY <1>6, <2>1, <2>3
<1>11. CASE AlgoRelay
  <2> DEFINE msg == Filtered(algo.srcMsg, file)
  <2>1. UNCHANGED <<file, access, executed>> /\ file # NoStatus  BY <1>11 DEF AlgoRelay
  <2>2. file = d /\ file \in Status  BY <1>3, <1>4, <2>1, HeldContents
  <2>3. CASE Missing(msg, file)
    <3>1. algo'.pc = "start"  BY <1>11, <2>3 DEF AlgoRelay, Stopped
    <3>2. Counted(d)'  BY <1>3, <2>1, <3>1 DEF Counted
    <3> QED  BY <1>6, <2>1, <3>2
  <2>4. CASE ~Missing(msg, file)
    <3> DEFINE tx == [first |-> msg[1].first, last |-> msg[Taken(msg)].last,
                      height |-> msg[1].height, newMsg |-> Rest(msg)]
    <3>1. msg # <<>> /\ algo' = [algo EXCEPT !.pc = "send", !.srcMsg = msg, !.tx = tx]
      BY <1>11, <2>4 DEF AlgoRelay
    <3>2. msg \in Seq(Receipt)
      <4>1. algo.srcMsg \in Seq(Receipt)  BY <1>0, ToAlgoFields
      <4> QED  BY <1>0, <2>2, <4>1, FilteredType
    <3> HIDE DEF msg
    <3>3. Taken(msg) \in 1 .. Len(msg)  BY <1>0, <3>1, <3>2, SegmentTakes
    <3>4. msg[1].first = d.rx_seq + 1 /\ msg[1].first <= msg[Taken(msg)].last
      BY <1>0, <2>2, <2>4, <3>1, <3>2, <3>3, ConsecutiveGrow
    <3>5. algo'.pc = "send" /\ algo'.tx = tx  BY <1>8, <3>1 DEF ToAlgo
    <3>6. algo'.tx.first = msg[1].first /\ algo'.tx.last = msg[Taken(msg)].last  BY <3>5
    <3>7. Counted(d)'  BY <1>3, <2>1, <3>4, <3>5, <3>6 DEF Counted
    <3> QED  BY <1>6, <2>1, <3>7
  <2> QED  BY <2>3, <2>4
<1>12. CASE Send
  <2>1. /\ UNCHANGED <<file, access>> /\ algo.pc = "send"
        /\ executed' = executed \o Span(algo.tx.first, algo.tx.last)
    BY <1>12 DEF Send
  <2>2. algo'.pc = "seq" /\ algo'.tx = algo.tx  BY <1>8, <1>12 DEF Send, ToAlgo
  <2>3. /\ Range(executed) \subseteq Range(executed') /\ algo.tx.first \in Range(executed')
        /\ InTurn(executed')
    BY <1>9, <2>1
  <2>4. Counted(d)'  BY <1>3, <2>1, <2>2, <2>3 DEF Counted
  <2> QED  BY <1>6, <2>1, <2>4
<1>13. CASE SendFail
  <2>1. UNCHANGED <<file, access, algo>> /\ algo.pc = "send"  BY <1>13 DEF SendFail
  <2>2. CASE executed' = executed
    <3>1. Counted(d)'  BY <1>3, <2>1, <2>2, CountedSame DEF i2a
    <3> QED  BY <1>6, <2>1, <3>1
  <2>3. CASE executed' = executed \o Span(algo.tx.first, algo.tx.last)
    <3>1. Range(executed) \subseteq Range(executed') /\ InTurn(executed')  BY <1>9, <2>1, <2>3
    <3>2. Counted(d)'  BY <1>3, <2>1, <3>1 DEF Counted
    <3> QED  BY <1>6, <2>1, <3>2
  <2> QED  BY <1>13, <2>2, <2>3 DEF SendFail
<1>14. ASSUME NEW p \in Procs, ReadFile(p) \/ Truncate(p), UNCHANGED i2a
       PROVE  \E e : Held(e)' /\ Counted(e)'
  BY <1>0, <1>2, <1>3, <1>14, HeldRead, CountedSame
<1>15. CASE ReceiptSeq
  <2> DEFINE e == [access[0].data EXCEPT !.rx_seq = @ + 1]
  <2>1. UNCHANGED executed /\ algo.pc = "seq"  BY <1>15 DEF ReceiptSeq
  <2>2. CASE (ReadFile(0) \/ Truncate(0)) /\ UNCHANGED algo
    BY <1>1, <1>14, <2>1, <2>2 DEF i2a
  <2>3. CASE WriteFile(0, e) /\ algo' = [algo EXCEPT !.pc = "height"]
    <3>1. access[0].st = "truncated"  BY <2>3 DEF WriteFile
    <3>2. e \in Status  BY <1>1, <3>1, WrittenIsStatus
    <3> PICK x : x = e  OBVIOUS
    <3>3. access[0].data = d /\ Held(x)'
      BY <1>0, <1>1, <1>2, <1>3, <2>3, <3>2, HeldWrite
    <3>4. x.rx_seq = d.rx_seq + 1  BY <1>4, <3>3 DEF Status
    <3>5. algo'.pc = "height"  BY <1>8, <2>3 DEF ToAlgo
    <3> HIDE DEF e
    <3>6. 1 .. x.rx_seq \subseteq Range(executed)
      <4>1. 1 .. d.rx_seq \subseteq Range(executed) /\ d.rx_seq + 1 \in Range(executed)
        BY <1>3, <2>1 DEF Counted
      <4>2. \A n \in 1 .. x.rx_seq : n \in 1 .. d.rx_seq \/ n = d.rx_seq + 1  BY <1>4, <3>4
      <4> QED  BY <4>1, <4>2
    <3>7. Counted(x)'  BY <1>3, <2>1, <3>5, <3>6 DEF Counted
    <3> QED  BY <3>3, <3>7
  <2> QED  BY <1>15, <2>2, <2>3 DEF ReceiptSeq
<1>16. CASE ReceiptHeight
  <2> DEFINE e == [access[0].data EXCEPT !.rx_height = algo.tx.height]
  <2>1. UNCHANGED executed /\ algo.pc = "height"  BY <1>16 DEF ReceiptHeight
  <2>2. CASE (ReadFile(0) \/ Truncate(0)) /\ UNCHANGED algo
    BY <1>1, <1>14, <2>1, <2>2 DEF i2a
  <2>3. CASE WriteFile(0, e) /\ algo' = [algo EXCEPT !.pc = "run", !.srcMsg = algo.tx.newMsg,
                                                   !.txBlockHeight = 0, !.tx = NoTx]
    <3>1. access[0].st = "truncated"  BY <2>3 DEF WriteFile
    <3>2. e \in Status
      <4>1. algo.tx.height \in Nat  BY <1>0, ToAlgoFields
      <4> QED  BY <1>1, <3>1, <4>1, WrittenIsStatus
    <3> PICK x : x = e  OBVIOUS
    <3>3. access[0].data = d /\ Held(x)'
      BY <1>0, <1>1, <1>2, <1>3, <2>3, <3>2, HeldWrite
    <3>4. x.rx_seq = d.rx_seq  BY <1>4, <3>3 DEF Status
    <3>5. algo'.pc = "run"  BY <1>8, <2>3 DEF ToAlgo
    <3> HIDE DEF e
    <3>6. Counted(x)'  BY <1>3, <2>1, <3>4, <3>5 DEF Counted
    <3> QED  BY <3>3, <3>6
  <2> QED  BY <1>16, <2>2, <2>3 DEF ReceiptHeight
<1>17. CASE ReceiptFail  BY <1>7, <1>17 DEF ReceiptFail
<1>18. CASE Crash
  <2>1. /\ UNCHANGED <<file, executed>> /\ access' = [p \in Procs |-> NoAccess]
        /\ algo' = Stopped /\ file # NoStatus
    BY <1>0, <1>2, <1>18 DEF Crash, Met
  <2>2. file = d  BY <1>3, <2>1, HeldContents
  <2>3. \A p \in Procs : access'[p].st # "truncated"  BY <2>1 DEF NoAccess
  <2>4. Held(d)'  BY <1>4, <1>5, <2>1, <2>2, <2>3 DEF Held
  <2>5. algo'.pc = "start"  BY <2>1 DEF Stopped
  <2>6. Counted(d)'  BY <1>3, <2>1, <2>5 DEF Counted
  <2> QED  BY <2>4, <2>6
<1>19. ASSUME NEW s \in Subs, SubStep(s) PROVE \E e : Held(e)' /\ Counted(e)'
  <2>0. s \in Procs /\ UNCHANGED i2a
    BY <1>1, <1>19 DEF SubStep, FetchBlock, CheckParent, UpdateVerifier, ExtractSeq,
          ExtractHeight, ExtractFail, Label, SendReceipts, SendError
  <2>1. ASSUME NEW e, e \in Status, e.rx_seq = access[s].data.rx_seq, WriteFile(s, e)
        PROVE  Held(e)' /\ Counted(e)'
    <3>1. access[s].data = d /\ Held(e)'
      BY <1>0, <1>2, <1>3, <2>0, <2>1, HeldWrite
    <3> QED  BY <1>3, <2>0, <2>1, <3>1, CountedSame
  <2>2. CASE ExtractSeq(s)
    <3> DEFINE e == [access[s].data EXCEPT !.tx_seq = @ + 1]
    <3>1. CASE ReadFile(s) \/ Truncate(s)  BY <1>14, <2>0, <3>1
    <3>2. CASE WriteFile(s, e)
      <4>1. access[s].st = "truncated"  BY <3>2 DEF WriteFile
      <4>2. access[s].data \in Status /\ e \in Status  BY <2>0, <4>1, WrittenIsStatus
      <4>3. e.rx_seq = access[s].data.rx_seq  BY <4>2 DEF Status
      <4> QED  BY <2>1, <3>2, <4>2, <4>3
    <3> QED  BY <2>2, <3>1, <3>2 DEF ExtractSeq
  <2>3. CASE ExtractHeight(s)
    <3> DEFINE e == [access[s].data EXCEPT !.tx_height = sub[s].round]
    <3>1. CASE ReadFile(s) \/ Truncate(s)  BY <1>14, <2>0, <3>1
    <3>2. CASE WriteFile(s, e)
      <4>1. access[s].st = "truncated"  BY <3>2 DEF WriteFile
      <4>2. sub[s].round \in 0 .. Len(AlgoBlocks)  BY <1>0, SubFields
      <4>3. access[s].data \in Status /\ e \in Status  BY <2>0, <4>1, <4>2, WrittenIsStatus
      <4>4. e.rx_seq = access[s].data.rx_seq  BY <4>3 DEF Status
      <4> QED  BY <2>1, <3>2, <4>3, <4>4
    <3> QED  BY <2>3, <3>1, <3>2 DEF ExtractHeight
  <2>4. CASE ExtractFail(s)  BY <1>7, <2>4 DEF ExtractFail
  <2>5. CASE UNCHANGED <<file, access>>
    <3>1. Counted(d)'  BY <1>3, <2>0, CountedSame
    <3> QED  BY <1>6, <2>5, <3>1
  <2> QED  BY <1>19, <2>2, <2>3, <2>4, <2>5
           DEF SubStep, FetchBlock, CheckParent, UpdateVerifier, Label, SendReceipts, SendError
<1>20. CASE IconStart \/ ToIconStep
  <2>1. UNCHANGED <<file, access>> /\ UNCHANGED i2a
    BY <1>20, IconLeaves DEF IconStart, IconOnly
  <2>2. Counted(d)'  BY <1>3, <2>1, CountedSame
  <2> QED  BY <1>6, <2>1, <2>2
<1> QED
  BY <1>10, <1>11, <1>12, <1>13, <1>15, <1>16, <1>17, <1>18, <1>19, <1>20
  DEF Next, Step, AlgoStep

-----------------------------------------------------------------------------
(* The order of the messages to ICON, over any rounds bl, messages dl that *)
(* were handled up to number rs and height h, labelled ones W on their way *)
(* and H in hand, and tx_seq e.                                            *)

\* Before, of rounds bl.
Ahead(bl, m, r) ==
    \A q \in DOMAIN bl : q >= r => \A i \in DOMAIN bl[q] : bl[q][i] # 0 => m < bl[q][i]

\* FirstOpen, of a verifier at round v.
OpenAt(v, sb) ==
    LET r == IF sb.pc = "loop" THEN v ELSE sb.round
    IN  IF r > sb.height THEN r ELSE sb.height + 1

\* NextLabel, of a file with tx_seq e.
NextOf(pc, e) == IF pc \in {"height", "label"} THEN e ELSE e + 1

\* What was delivered, up to height h.
Ordered(bl, dl, h) ==
    /\ \A i, j \in 1 .. Len(dl) : i < j => dl[i] < dl[j]
    /\ \A i \in 1 .. Len(dl) : Ahead(bl, dl[i], h + 1)

\* What may still be delivered.
Pending(bl, dl, rs, W, H, e) ==
    /\ \A x \in W : Ahead(bl, x.msg, x.height + 1)
    /\ rs <= e /\ \A x \in W \cup H : x.seq <= e
    /\ \A x \in W \cup H : x.seq > rs =>
          /\ \A i \in 1 .. Len(dl) : dl[i] < x.msg
          /\ \A y \in W \cup H : x.seq < y.seq => x.msg < y.msg

\* All of it is before the rounds from r on.
Passed(bl, dl, rs, W, r) ==
    /\ \A i \in 1 .. Len(dl) : Ahead(bl, dl[i], r)
    /\ \A x \in W : x.seq > rs => Ahead(bl, x.msg, r)

\* The subscription sb is not ahead of the file, and past all of it unless it
\* is behind.
OnTurn(bl, dl, rs, W, e, sb, v) ==
    sb.pc # "error" =>
        /\ sb.seq <= NextOf(sb.pc, e)
        /\ sb.seq = NextOf(sb.pc, e) => Passed(bl, dl, rs, W, OpenAt(v, sb))

\* The labelled messages.
Labels == [height : Nat, seq : Nat, msg : Nat]

LEMMA GrowParts ==
    ASSUME TypeOK, NEW d, Held(d), races = 0
    PROVE  LabelsGrow <=>
              /\ Ordered(AlgoBlocks, delivered, icon.rxHeight)
              /\ Pending(AlgoBlocks, delivered, icon.rxSeq, OnTheWay, InHand, d.tx_seq)
              /\ icon.pc # "start" =>
                    /\ icon.live \in Subs
                    /\ OnTurn(AlgoBlocks, delivered, icon.rxSeq, OnTheWay, d.tx_seq,
                              sub[icon.live], vr.round)
<1>1. DOMAIN delivered = 1 .. Len(delivered)  BY TypeParts DEF IconTyped
<1>2. \A m, r : Before(m, r) <=> Ahead(AlgoBlocks, m, r)  BY DEF Before, Ahead
<1>3. FirstOpen(sub[icon.live]) = OpenAt(vr.round, sub[icon.live])
  BY DEF FirstOpen, RoundOf, OpenAt
<1>4. DeliveredInOrder <=>
         \A i, j \in 1 .. Len(delivered) : i < j => delivered[i] < delivered[j]
  BY <1>1 DEF DeliveredInOrder
<1>5. Contents = {d}  BY HeldContents
<1>6. NextLabel(sub[icon.live], d) = NextOf(sub[icon.live].pc, d.tx_seq)
  BY DEF NextLabel, NextOf
<1> DEFINE W == OnTheWay  sb == sub[icon.live]
<1>7. LabelsGrow <=>
        /\ DeliveredInOrder
        /\ \A i \in 1 .. Len(delivered) : Before(delivered[i], icon.rxHeight + 1)
        /\ \A x \in W : Before(x.msg, x.height + 1)
        /\ icon.rxSeq <= d.tx_seq /\ \A x \in W \cup InHand : x.seq <= d.tx_seq
        /\ \A x \in W \cup InHand : x.seq > icon.rxSeq =>
              /\ \A i \in 1 .. Len(delivered) : delivered[i] < x.msg
              /\ \A y \in W \cup InHand : x.seq < y.seq => x.msg < y.msg
        /\ icon.pc # "start" =>
              /\ icon.live \in Subs
              /\ sb.pc # "error" =>
                    /\ sb.seq <= NextLabel(sb, d)
                    /\ sb.seq = NextLabel(sb, d) =>
                          /\ \A i \in 1 .. Len(delivered) : Before(delivered[i], FirstOpen(sb))
                          /\ \A x \in W : x.seq > icon.rxSeq => Before(x.msg, FirstOpen(sb))
  BY <1>5 DEF LabelsGrow
<1> HIDE DEF W, sb
<1>8. Ordered(AlgoBlocks, delivered, icon.rxHeight) <=>
        /\ DeliveredInOrder
        /\ \A i \in 1 .. Len(delivered) : Before(delivered[i], icon.rxHeight + 1)
  BY <1>2, <1>4 DEF Ordered
<1>9. Pending(AlgoBlocks, delivered, icon.rxSeq, W, InHand, d.tx_seq) <=>
        /\ \A x \in W : Before(x.msg, x.height + 1)
        /\ icon.rxSeq <= d.tx_seq /\ \A x \in W \cup InHand : x.seq <= d.tx_seq
        /\ \A x \in W \cup InHand : x.seq > icon.rxSeq =>
              /\ \A i \in 1 .. Len(delivered) : delivered[i] < x.msg
              /\ \A y \in W \cup InHand : x.seq < y.seq => x.msg < y.msg
  BY <1>2 DEF Pending
<1>10. OnTurn(AlgoBlocks, delivered, icon.rxSeq, W, d.tx_seq, sb, vr.round) <=>
        (sb.pc # "error" =>
                    /\ sb.seq <= NextLabel(sb, d)
                    /\ sb.seq = NextLabel(sb, d) =>
                          /\ \A i \in 1 .. Len(delivered) : Before(delivered[i], FirstOpen(sb))
                          /\ \A x \in W : x.seq > icon.rxSeq => Before(x.msg, FirstOpen(sb)))
  BY <1>2, <1>3, <1>6 DEF OnTurn, Passed, sb
<1> QED  BY <1>7, <1>8, <1>9, <1>10 DEF W, sb

LEMMA GrowPartsNext ==
    (\A d : TypeOK /\ Held(d) /\ races = 0 => (LabelsGrow <=>
              /\ Ordered(AlgoBlocks, delivered, icon.rxHeight)
              /\ Pending(AlgoBlocks, delivered, icon.rxSeq, OnTheWay, InHand, d.tx_seq)
              /\ icon.pc # "start" =>
                    /\ icon.live \in Subs
                    /\ OnTurn(AlgoBlocks, delivered, icon.rxSeq, OnTheWay, d.tx_seq,
                              sub[icon.live], vr.round)))'
<1>1. \A d : TypeOK /\ Held(d) /\ races = 0 => (LabelsGrow <=>
              /\ Ordered(AlgoBlocks, delivered, icon.rxHeight)
              /\ Pending(AlgoBlocks, delivered, icon.rxSeq, OnTheWay, InHand, d.tx_seq)
              /\ icon.pc # "start" =>
                    /\ icon.live \in Subs
                    /\ OnTurn(AlgoBlocks, delivered, icon.rxSeq, OnTheWay, d.tx_seq,
                              sub[icon.live], vr.round))
  BY GrowParts
<1> QED  BY <1>1, PTL

LEMMA AheadLater ==
    ASSUME NEW bl \in Seq(Seq(Nat)), NEW m, NEW r \in Nat, NEW q \in Nat, q >= r,
           Ahead(bl, m, r)
    PROVE  Ahead(bl, m, q)
<1>1. DOMAIN bl \subseteq Nat  OBVIOUS
<1>2. \A k \in DOMAIN bl : k >= q => k >= r  BY <1>1
<1> QED  BY <1>2 DEF Ahead

\* A subscription moves by its own steps only.
LEMMA OthersStay ==
    ASSUME IconTyped, NEW s \in Subs, SubStep(s), NEW t \in Subs, t # s
    PROVE  sub'[t] = sub[t]
<1>1. \A v : SubMoves(s, v) => sub'[t] = sub[t]  BY DEF SubMoves, IconTyped
<1>2. CASE FetchBlock(s)  BY <1>1, <1>2, FetchEffect
<1>3. CASE CheckParent(s)  BY <1>1, <1>3, CheckEffect
<1>4. CASE UpdateVerifier(s)  BY <1>1, <1>4, UpdateEffect
<1>5. CASE ExtractSeq(s) \/ ExtractHeight(s) \/ ExtractFail(s)  BY <1>1, <1>5, ExtractEffect
<1>6. CASE Label(s)  BY <1>1, <1>6, LabelEffect
<1>7. CASE SendReceipts(s) \/ SendError(s)  BY <1>1, <1>7, SendEffect
<1> QED  BY <1>2, <1>3, <1>4, <1>5, <1>6, <1>7 DEF SubStep

\* The steps that touch no subscription.
LEMMA NotSub ==
    ASSUME Next
    PROVE  \/ Crash \/ IconStart \/ (\E s \in Subs : SubStep(s)) \/ ToIconStep
           \/ UNCHANGED a2i /\ UNCHANGED failed
BY DEF Next, Step, AlgoStep, AlgoStart, AlgoReceive, AlgoRelay, Send, ReceiptSeq,
       ReceiptHeight, ReceiptFail, SendFail

LEMMA OpenGrows ==
    ASSUME NEW v \in Nat, NEW w \in Nat, NEW sb, NEW tb,
           sb.height \in Nat, tb.height = sb.height, sb.round \in Nat, tb.round \in Nat,
           (IF sb.pc = "loop" THEN v ELSE sb.round) <= (IF tb.pc = "loop" THEN w ELSE tb.round)
    PROVE  /\ OpenAt(v, sb) \in Nat /\ OpenAt(w, tb) \in Nat /\ OpenAt(v, sb) <= OpenAt(w, tb)
<1> DEFINE x == IF sb.pc = "loop" THEN v ELSE sb.round
           y == IF tb.pc = "loop" THEN w ELSE tb.round
<1>1. x \in Nat /\ y \in Nat /\ x <= y  OBVIOUS
<1>2. OpenAt(v, sb) = IF x > sb.height THEN x ELSE sb.height + 1  BY DEF OpenAt
<1>3. OpenAt(w, tb) = IF y > sb.height THEN y ELSE sb.height + 1  BY DEF OpenAt
<1> HIDE DEF x, y
<1> QED  BY <1>1, <1>2, <1>3

\* The first round that a subscription may take messages from only grows.
LEMMA RoundForward ==
    ASSUME TypeOK, VerifierMoves, Next, ~Crash, ~IconStart, NEW l \in Subs,
           sub'[l].pc # "error", ~SendError(l)
    PROVE  /\ sub[l].pc # "error"
           /\ OpenAt(vr.round, sub[l]) \in Nat /\ OpenAt(vr'.round, sub'[l]) \in Nat
           /\ OpenAt(vr.round, sub[l]) <= OpenAt(vr'.round, sub'[l])
<1>0. chains \in Chains /\ UNCHANGED chains /\ IconTyped /\ VerifierTyped
  BY TypeParts DEF Next, Step
<1>1. vr.round \in Nat /\ vr'.round \in Nat /\ vr.round <= vr'.round
  BY <1>0, VerifierFields, VerifierForward
<1>2. /\ sub[l].round \in Nat /\ sub[l].height \in Nat /\ sub[l] \in FromAlgo
      /\ Len(AlgoBlocks) \in Nat
  BY <1>0, SubFields, ChainTypes
<1>3. CASE sub'[l] = sub[l]  BY <1>1, <1>2, <1>3, OpenGrows
<1>4. CASE SubStep(l)
  <2> DEFINE a == [sub[l] EXCEPT !.pc = "error"]
  <2>1. a.pc = "error"  BY <1>2 DEF FromAlgo
  <2>2. \A v : SubMoves(l, v) => sub'[l] = v  BY <1>0 DEF SubMoves, IconTyped
  <2>3. ~SubMoves(l, a)  BY <2>1, <2>2
  <2>4. CASE FetchBlock(l)
    <3> DEFINE v == [sub[l] EXCEPT !.pc = "check", !.round = vr.round]
    <3>1. sub'[l] = v /\ sub[l].pc = "loop"
      BY <1>0, <2>2, <2>3, <2>4, FetchEffect DEF FetchBlock
    <3>2. v.pc = "check" /\ v.round = vr.round /\ v.height = sub[l].height
      BY <1>2 DEF FromAlgo
    <3> HIDE DEF v
    <3> QED  BY <1>1, <1>2, <3>1, <3>2, OpenGrows
  <2>5. CASE CheckParent(l)
    <3> DEFINE v == [sub[l] EXCEPT !.pc = "update"]
    <3>1. sub'[l] = v /\ sub[l].pc = "check"
      BY <1>0, <2>2, <2>3, <2>5, CheckEffect DEF CheckParent
    <3>2. v.pc = "update" /\ v.round = sub[l].round /\ v.height = sub[l].height
      BY <1>2 DEF FromAlgo
    <3> HIDE DEF v
    <3> QED  BY <1>1, <1>2, <3>1, <3>2, OpenGrows
  <2>6. CASE UpdateVerifier(l)
    <3>1. sub[l].pc = "update"  BY <2>6 DEF UpdateVerifier
    <3>2. sub[l].round <= vr.round  BY <3>1 DEF VerifierMoves
    <3>3. \/ sub'[l] = [sub[l] EXCEPT !.pc = "loop", !.todo = <<>>, !.receipts = <<>>]
          \/ sub'[l] = [sub[l] EXCEPT !.pc = "seq", !.todo = AlgoBlocks[sub[l].round],
                                      !.receipts = <<>>]
      BY <1>0, <2>2, <2>6, UpdateEffect
    <3>4. /\ sub'[l].height = sub[l].height /\ sub'[l].round = sub[l].round
          /\ sub'[l].pc \in {"loop", "seq"}
      BY <1>2, <3>3 DEF FromAlgo
    <3>5. sub[l].round <= vr'.round  BY <1>1, <1>2, <3>2
    <3> QED  BY <1>1, <1>2, <3>1, <3>4, <3>5, OpenGrows
  <2>7. CASE ExtractSeq(l) \/ ExtractHeight(l) \/ ExtractFail(l)
    <3>1. \/ sub'[l] = sub[l]
          \/ sub'[l] = [sub[l] EXCEPT !.pc = "height"] /\ sub[l].pc = "seq"
          \/ sub'[l] = [sub[l] EXCEPT !.pc = "label"] /\ sub[l].pc = "height"
      BY <1>0, <2>2, <2>3, <2>7, ExtractEffect
    <3>2. CASE sub'[l] # sub[l]
      <4>1. /\ sub'[l].height = sub[l].height /\ sub'[l].round = sub[l].round
            /\ sub'[l].pc \in {"height", "label"} /\ sub[l].pc \in {"seq", "height"}
        BY <1>2, <3>1, <3>2 DEF FromAlgo
      <4> QED  BY <1>1, <1>2, <4>1, OpenGrows
    <3> QED  BY <1>3, <3>2
  <2>8. CASE Label(l)
    <3> DEFINE p == IF Len(sub[l].todo) = 1 THEN "send" ELSE "seq"
               v == [sub[l] EXCEPT
                       !.seq = sub[l].seq + 1, !.todo = Tail(sub[l].todo),
                       !.receipts = Append(sub[l].receipts,
                                        [height |-> sub[l].round, seq |-> sub[l].seq,
                                         msg |-> Head(sub[l].todo)]),
                       !.pc = p]
    <3>1. sub'[l] = v /\ sub[l].pc = "label"
      BY <1>0, <2>2, <2>3, <2>8, LabelEffect DEF Label
    <3>2. v.pc = p /\ v.round = sub[l].round /\ v.height = sub[l].height
      BY <1>2 DEF FromAlgo
    <3>3. p # "loop"  OBVIOUS
    <3> HIDE DEF v, p
    <3> QED  BY <1>1, <1>2, <3>1, <3>2, <3>3, OpenGrows
  <2>9. CASE SendReceipts(l)
    <3> DEFINE v == [sub[l] EXCEPT !.pc = "loop", !.round = 0, !.receipts = <<>>]
    <3>1. sub[l].pc = "send" /\ SubMoves(l, v)  BY <2>9 DEF SendReceipts, SubMoves
    <3>2. sub'[l] = v  BY <2>2, <3>1
    <3>3. v.pc = "loop" /\ v.round = 0 /\ v.height = sub[l].height
      BY <1>2 DEF FromAlgo
    <3>4. sub[l].round < vr.round  BY <3>1 DEF VerifierMoves, BlockInHand
    <3>5. sub[l].round <= vr'.round  BY <1>1, <1>2, <3>4
    <3> HIDE DEF v
    <3> QED  BY <1>1, <1>2, <3>1, <3>2, <3>3, <3>5, OpenGrows
  <2> QED  BY <1>4, <2>4, <2>5, <2>6, <2>7, <2>8, <2>9 DEF SubStep
<1>5. sub'[l] = sub[l] \/ SubStep(l)
  <2>1. ASSUME NEW s \in Subs, SubStep(s) PROVE sub'[l] = sub[l] \/ SubStep(l)
    BY <1>0, <2>1, OthersStay
  <2>2. CASE ToIconStep  BY <2>2, IconLeaves DEF IconOnly
  <2> QED  BY <2>1, <2>2, NotSub DEF a2i
<1> QED  BY <1>3, <1>4, <1>5

\* Messages are dropped, and tx_seq grows.
LEMMA PendingLess ==
    ASSUME NEW bl, NEW dl, NEW rs \in Nat, NEW W \in SUBSET Labels, NEW H \in SUBSET Labels,
           NEW e \in Nat, NEW W2 \in SUBSET W, NEW H2 \in SUBSET H, NEW e2 \in Nat, e2 >= e,
           Pending(bl, dl, rs, W, H, e)
    PROVE  Pending(bl, dl, rs, W2, H2, e2)
<1>1. W2 \cup H2 \subseteq W \cup H  OBVIOUS
<1>2. rs <= e2  BY DEF Pending
<1>3. ASSUME NEW x \in W2 \cup H2 PROVE x.seq <= e2
  <2>1. x.seq \in Nat /\ x.seq <= e  BY <1>1 DEF Pending, Labels
  <2> QED  BY <2>1
<1> QED  BY <1>1, <1>2, <1>3 DEF Pending

\* SendReceipts: what was in hand is on its way.
LEMMA PendingSend ==
    ASSUME NEW bl, NEW dl, NEW rs, NEW W, NEW H, NEW e, Pending(bl, dl, rs, W, H, e),
           \A x \in H : Ahead(bl, x.msg, x.height + 1)
    PROVE  Pending(bl, dl, rs, W \cup H, {}, e)
BY DEF Pending

\* Label: a message x that follows all of them.
LEMMA PendingLabel ==
    ASSUME NEW bl, NEW dl, NEW rs \in Nat, NEW W \in SUBSET Labels, NEW H \in SUBSET Labels,
           NEW x \in Labels, Pending(bl, dl, rs, W, H, x.seq),
           \A i \in 1 .. Len(dl) : dl[i] < x.msg,
           \A y \in W \cup H : y.seq > rs => y.msg < x.msg
    PROVE  Pending(bl, dl, rs, W, H \cup {x}, x.seq)
<1>1. x.seq \in Nat /\ \A y \in W \cup H : y.seq \in Nat  BY DEF Labels
<1>2. \A y \in W \cup (H \cup {x}) : y.seq <= x.seq  BY <1>1 DEF Pending
<1>3. ASSUME NEW y \in W \cup (H \cup {x}), y.seq > rs,
             NEW z \in W \cup (H \cup {x}), y.seq < z.seq
      PROVE  y.msg < z.msg
  <2>1. y # x  BY <1>1, <1>2, <1>3
  <2>2. CASE z = x  BY <1>3, <2>1, <2>2
  <2>3. CASE z # x  BY <1>3, <2>1, <2>3 DEF Pending
  <2> QED  BY <2>2, <2>3
<1>4. ASSUME NEW y \in W \cup (H \cup {x}), y.seq > rs, NEW i \in 1 .. Len(dl)
      PROVE  dl[i] < y.msg
  BY <1>4 DEF Pending
<1> QED  BY <1>2, <1>3, <1>4 DEF Pending

\* IconExecute: the messages new of W are handled, which are then dl2, up to
\* height h2.
HandledNow(bl, dl, rs, h, W, H, e, new, h2, dl2) ==
    /\ bl \in Seq(Seq(Nat)) /\ dl \in Seq(Nat) /\ rs \in Nat /\ h \in Nat
    /\ W \in SUBSET Labels /\ H \in SUBSET Labels /\ e \in Nat
    /\ new \in Seq(Labels) /\ \A i \in 1 .. Len(new) : new[i] \in W
    /\ \A i \in 1 .. Len(new) : new[i].seq = rs + i
    /\ h2 \in Nat /\ h2 >= h /\ \A i \in 1 .. Len(new) : new[i].height <= h2
    /\ dl2 = dl \o [i \in 1 .. Len(new) |-> new[i].msg]
    /\ Ordered(bl, dl, h) /\ Pending(bl, dl, rs, W, H, e)

LEMMA PendingHandles ==
    ASSUME NEW bl, NEW dl, NEW rs, NEW h, NEW W, NEW H, NEW e, NEW new, NEW h2, NEW dl2,
           HandledNow(bl, dl, rs, h, W, H, e, new, h2, dl2)
    PROVE  /\ Ordered(bl, dl2, h2) /\ Pending(bl, dl2, rs + Len(new), W, H, e)
           /\ \A r : Passed(bl, dl, rs, W, r) => Passed(bl, dl2, rs + Len(new), W, r)
<1> USE DEF HandledNow
<1> DEFINE n == Len(new)  k == Len(dl)  ms == [i \in 1 .. n |-> new[i].msg]
<1>1. n \in Nat /\ k \in Nat  OBVIOUS
<1>2. \A i \in 1 .. n : new[i].msg \in Nat /\ new[i].seq \in Nat /\ new[i].height \in Nat
  <2>1. \A i \in 1 .. n : new[i] \in Labels  OBVIOUS
  <2> QED  BY <2>1 DEF Labels
<1>3. ms \in Seq(Nat) /\ Len(ms) = n /\ \A i \in 1 .. n : ms[i] = new[i].msg  BY <1>1, <1>2
<1> HIDE DEF ms, n, k
<1>4. /\ Len(dl2) = k + n /\ \A i \in 1 .. k + n : dl2[i] = IF i <= k THEN dl[i] ELSE ms[i - k]
  BY <1>1, <1>3, ConcatProperties DEF ms, n, k
<1>5. \A i \in 1 .. k : dl2[i] = dl[i]
  <2>1. \A i \in 1 .. k : i \in 1 .. k + n /\ i <= k  BY <1>1
  <2> QED  BY <1>4, <2>1
<1>6. \A i \in 1 .. n : dl2[k + i] = new[i].msg
  <2>1. \A i \in 1 .. n : k + i \in 1 .. k + n /\ ~(k + i <= k) /\ (k + i) - k = i
    BY <1>1, SMTT(30)
  <2> QED  BY <1>3, <1>4, <2>1
<1>7. \A i \in 1 .. Len(dl2) : i \in 1 .. k \/ \E j \in 1 .. n : i = k + j
  <2> SUFFICES ASSUME NEW i \in 1 .. Len(dl2), i \notin 1 .. k
               PROVE  \E j \in 1 .. n : i = k + j
    OBVIOUS
  <2>1. i - k \in 1 .. n /\ i = k + (i - k)  BY <1>1, <1>4
  <2> QED  BY <2>1
<1>8. \A i \in 1 .. n : new[i].seq > rs /\ new[i].seq = rs + i /\ new[i] \in W
  BY <1>1 DEF n
<1>9. \A i \in 1 .. k, j \in 1 .. n : dl[i] < new[j].msg  BY <1>8 DEF Pending, k
<1>10. \A i, j \in 1 .. n : i < j => new[i].msg < new[j].msg
  <2> SUFFICES ASSUME NEW i \in 1 .. n, NEW j \in 1 .. n, i < j
               PROVE  new[i].msg < new[j].msg
    OBVIOUS
  <2>1. rs + i < rs + j  BY <1>1
  <2>2. new[i].seq < new[j].seq  BY <1>8, <2>1
  <2> QED  BY <1>8, <2>2 DEF Pending
<1>11. ASSUME NEW i \in 1 .. Len(dl2), NEW j \in 1 .. Len(dl2), i < j PROVE dl2[i] < dl2[j]
  <2>1. CASE i \in 1 .. k /\ j \in 1 .. k  BY <1>5, <1>11, <2>1 DEF Ordered, k
  <2>2. ASSUME NEW y \in 1 .. n, j = k + y, i \in 1 .. k PROVE dl2[i] < dl2[j]
    BY <1>5, <1>6, <1>9, <2>2
  <2>3. ASSUME NEW y \in 1 .. n, j = k + y, NEW x \in 1 .. n, i = k + x
        PROVE  dl2[i] < dl2[j]
    <3>1. x < y  BY <1>1, <1>11, <2>3, SMTT(30)
    <3> QED  BY <1>6, <1>10, <2>3, <3>1
  <2>4. ASSUME j \in 1 .. k, NEW x \in 1 .. n, i = k + x PROVE FALSE
    BY <1>1, <1>11, <2>4, SMTT(30)
  <2> QED  BY <1>7, <2>1, <2>2, <2>3, <2>4
<1>12. ASSUME NEW i \in 1 .. Len(dl2) PROVE Ahead(bl, dl2[i], h2 + 1)
  <2>1. CASE i \in 1 .. k
    <3>1. Ahead(bl, dl[i], h + 1)  BY <2>1 DEF Ordered, k
    <3>2. h + 1 \in Nat /\ h2 + 1 \in Nat /\ h2 + 1 >= h + 1  OBVIOUS
    <3>3. Ahead(bl, dl[i], h2 + 1)  BY <3>1, <3>2, AheadLater
    <3> QED  BY <1>5, <2>1, <3>3
  <2>2. ASSUME NEW x \in 1 .. n, i = k + x PROVE Ahead(bl, dl2[i], h2 + 1)
    <3>1. Ahead(bl, new[x].msg, new[x].height + 1)  BY <1>8 DEF Pending
    <3>2. /\ new[x].height + 1 \in Nat /\ h2 + 1 \in Nat /\ h2 + 1 >= new[x].height + 1
      <4>1. new[x].height \in Nat /\ h2 \in Nat /\ new[x].height <= h2  BY <1>2 DEF n
      <4> HIDE DEF HandledNow
      <4> QED  BY <4>1
    <3>3. Ahead(bl, new[x].msg, h2 + 1)  BY <3>1, <3>2, AheadLater
    <3> QED  BY <1>6, <2>2, <3>3
  <2> QED  BY <1>7, <2>1, <2>2
<1>13. rs + n <= e
  <2>1. CASE n = 0  BY <2>1 DEF Pending
  <2>2. CASE n # 0
    <3>1. n \in 1 .. n  BY <1>1, <2>2
    <3>2. new[n].seq = rs + n /\ new[n].seq <= e  BY <1>8, <3>1 DEF Pending
    <3> QED  BY <3>2
  <2> QED  BY <2>1, <2>2
<1>14. ASSUME NEW x \in W \cup H, x.seq > rs + n
       PROVE  x.seq > rs /\ \A i \in 1 .. Len(dl2) : dl2[i] < x.msg
  <2>1. x.seq \in Nat  BY DEF Labels
  <2>2. x.seq > rs /\ \A j \in 1 .. n : rs + j < x.seq  BY <1>1, <1>14, <2>1
  <2>3. \A i \in 1 .. k : dl[i] < x.msg  BY <2>2 DEF Pending, k
  <2>4. \A j \in 1 .. n : new[j].msg < x.msg  BY <1>8, <2>2 DEF Pending
  <2> QED  BY <1>5, <1>6, <1>7, <2>2, <2>3, <2>4
<1>15. Pending(bl, dl2, rs + n, W, H, e)
  BY <1>13, <1>14 DEF Pending
<1>16. ASSUME NEW r, Passed(bl, dl, rs, W, r) PROVE Passed(bl, dl2, rs + n, W, r)
  <2>1. ASSUME NEW i \in 1 .. Len(dl2) PROVE Ahead(bl, dl2[i], r)
    <3>1. CASE i \in 1 .. k  BY <1>5, <1>16, <3>1 DEF Passed, k
    <3>2. ASSUME NEW x \in 1 .. n, i = k + x PROVE Ahead(bl, dl2[i], r)
      BY <1>6, <1>8, <1>16, <3>2 DEF Passed
    <3> QED  BY <1>7, <3>1, <3>2
  <2>2. \A x \in W : x.seq > rs + n => Ahead(bl, x.msg, r)  BY <1>14, <1>16 DEF Passed
  <2> QED  BY <2>1, <2>2 DEF Passed
<1> QED  BY <1>11, <1>12, <1>15, <1>16 DEF Ordered, n

\* Less is passed too, and later.
LEMMA PassedLater ==
    ASSUME NEW bl \in Seq(Seq(Nat)), NEW dl, NEW rs, NEW W, NEW W2 \in SUBSET W,
           NEW r \in Nat, NEW q \in Nat, q >= r, Passed(bl, dl, rs, W, r)
    PROVE  Passed(bl, dl, rs, W2, q)
BY AheadLater DEF Passed

\* A subscription that takes the next number.
Counting(s) == sub[s].pc = "seq" /\ sub'[s].pc = "height"

\* tx_seq counts these numbers, while the accesses do not meet.
LEMMA TxSeqStep ==
    ASSUME TypeOK, Next, NEW d, Held(d), races = 0, races' = 0
    PROVE  \E d2 : /\ Held(d2)'
                   /\ \/ d2.tx_seq = d.tx_seq /\ \A s \in Subs : ~Counting(s)
                      \/ d2.tx_seq = d.tx_seq + 1 /\ \E s \in Subs : ExtractSeq(s) /\ Counting(s)
<1>0. /\ chains \in Chains /\ UNCHANGED chains /\ FileTyped /\ IconTyped
  BY TypeParts DEF Next, Step
<1>1. 0 \in Procs /\ Subs \subseteq Procs  BY <1>0, ChainTypes DEF Procs, Subs
<1>2. Status' = Status /\ d \in Status  BY <1>0, SameChains DEF Held
<1>3. ASSUME UNCHANGED <<file, access>> PROVE Held(d)'  BY <1>2, <1>3 DEF Held
<1>4. \A p : ~ReadFails(p)  BY DEF ReadFails, Met
<1>5. ASSUME NEW p \in Procs, ReadFile(p) \/ Truncate(p) PROVE Held(d)'
  BY <1>0, <1>5, HeldRead
<1>6. ASSUME NEW p \in Procs, NEW x \in Status, WriteFile(p, x),
             access[p].data \in Status => x.tx_seq = access[p].data.tx_seq
      PROVE  Held(x)' /\ x.tx_seq = d.tx_seq
  BY <1>0, <1>2, <1>6, HeldWrite
<1>7. ASSUME UNCHANGED sub PROVE \A s \in Subs : ~Counting(s)  BY <1>7 DEF Counting
<1>8. CASE Crash
  <2>1. UNCHANGED file /\ file # NoStatus /\ access' = [p \in Procs |-> NoAccess]
    BY <1>8 DEF Crash, Met
  <2>2. file = d  BY <2>1, HeldContents
  <2>3. Held(d)'  BY <1>2, <2>1, <2>2 DEF Held, NoAccess
  <2>4. \A s \in Subs : ~Counting(s)  BY <1>8 DEF Crash, Counting, NoSub
  <2> QED  BY <2>3, <2>4
<1>9. CASE IconStart
  <2>1. UNCHANGED <<file, access>>  BY <1>9 DEF IconStart
  <2>2. PICK s \in Subs : sub[s] = NoSub /\ SubMoves(s, NewSub)  BY <1>0, <1>9, StartEffect
  <2>3. \A r \in Subs \ {s} : sub'[r] = sub[r]  BY <1>0, <2>2 DEF SubMoves, IconTyped
  <2>4. sub[s].pc = "done"  BY <2>2 DEF NoSub
  <2>5. \A r \in Subs : ~Counting(r)  BY <2>3, <2>4 DEF Counting
  <2> QED  BY <1>3, <2>1, <2>5
<1>10. CASE ToIconStep
  <2>1. UNCHANGED <<file, access, sub>>  BY <1>10, IconLeaves DEF IconOnly
  <2> QED  BY <1>3, <1>7, <2>1
<1>11. CASE SendFail
  <2>1. UNCHANGED <<file, access, sub>>  BY <1>11 DEF SendFail, a2i
  <2> QED  BY <1>3, <1>7, <2>1
<1>12. CASE AlgoStep
  <2>1. UNCHANGED sub
    BY <1>12 DEF AlgoStep, AlgoStart, AlgoReceive, AlgoRelay, Send, ReceiptSeq,
                 ReceiptHeight, ReceiptFail, a2i
  <2>2. CASE ReceiptSeq
    <3> DEFINE x == [access[0].data EXCEPT !.rx_seq = @ + 1]
    <3>1. CASE ReadFile(0) \/ Truncate(0)  BY <1>1, <1>5, <1>7, <2>1, <3>1
    <3>2. CASE WriteFile(0, x)
      <4>1. access[0].st = "truncated"  BY <3>2 DEF WriteFile
      <4>2. access[0].data \in Status /\ x \in Status  BY <1>1, <4>1, WrittenIsStatus
      <4>3. x.tx_seq = access[0].data.tx_seq  BY <4>2 DEF Status
      <4> QED  BY <1>1, <1>6, <1>7, <2>1, <3>2, <4>2, <4>3
    <3> QED  BY <2>2, <3>1, <3>2 DEF ReceiptSeq
  <2>3. CASE ReceiptHeight
    <3> DEFINE x == [access[0].data EXCEPT !.rx_height = algo.tx.height]
    <3>1. CASE ReadFile(0) \/ Truncate(0)  BY <1>1, <1>5, <1>7, <2>1, <3>1
    <3>2. CASE WriteFile(0, x)
      <4>1. access[0].st = "truncated"  BY <3>2 DEF WriteFile
      <4>2. algo.tx.height \in Nat  BY TypeParts, ToAlgoFields
      <4>3. access[0].data \in Status /\ x \in Status
        BY <1>1, <4>1, <4>2, WrittenIsStatus
      <4>4. x.tx_seq = access[0].data.tx_seq  BY <4>3 DEF Status
      <4> QED  BY <1>1, <1>6, <1>7, <2>1, <3>2, <4>3, <4>4
    <3> QED  BY <2>3, <3>1, <3>2 DEF ReceiptHeight
  <2>4. CASE ReceiptFail  BY <1>4, <2>4 DEF ReceiptFail
  <2>5. CASE UNCHANGED <<file, access>>  BY <1>3, <1>7, <2>1, <2>5
  <2> QED  BY <1>12, <2>2, <2>3, <2>4, <2>5
           DEF AlgoStep, AlgoStart, AlgoReceive, AlgoRelay, Send
<1>13. ASSUME NEW s \in Subs, SubStep(s)
       PROVE  \E d2 : /\ Held(d2)'
                      /\ \/ d2.tx_seq = d.tx_seq /\ \A r \in Subs : ~Counting(r)
                         \/ /\ d2.tx_seq = d.tx_seq + 1
                            /\ \E r \in Subs : ExtractSeq(r) /\ Counting(r)
  <2>0. s \in Procs  BY <1>1
  <2>1. \A r \in Subs \ {s} : ~Counting(r)  BY <1>0, <1>13, OthersStay DEF Counting
  <2>2. CASE ExtractSeq(s)
    <3> DEFINE x == [access[s].data EXCEPT !.tx_seq = @ + 1]
    <3>1. CASE (ReadFile(s) \/ Truncate(s)) /\ UNCHANGED sub  BY <1>5, <1>7, <2>0, <3>1
    <3>2. CASE WriteFile(s, x) /\ Goto(s, "height")
      <4>1. access[s].st = "truncated"  BY <3>2 DEF WriteFile
      <4>2. access[s].data \in Status /\ x \in Status  BY <2>0, <4>1, WrittenIsStatus
      <4>3. x.tx_seq = access[s].data.tx_seq + 1  BY <4>2 DEF Status
      <4>4. PICK y : y = x  OBVIOUS
      <4>5. access[s].data = d /\ Held(y)'  BY <1>0, <2>0, <3>2, <4>2, <4>4, HeldWrite
      <4>6. Counting(s)
        BY <1>0, <2>2, <3>2 DEF ExtractSeq, Goto, Counting, IconTyped, FromAlgo
      <4>7. y.tx_seq = d.tx_seq + 1  BY <4>3, <4>4, <4>5
      <4> QED  BY <2>2, <4>5, <4>6, <4>7
    <3> QED  BY <2>2, <3>1, <3>2 DEF ExtractSeq
  <2>3. CASE ExtractHeight(s)
    <3> DEFINE x == [access[s].data EXCEPT !.tx_height = sub[s].round]
    <3>0. ~Counting(s)  BY <2>3 DEF ExtractHeight, Counting
    <3>1. CASE ReadFile(s) \/ Truncate(s)  BY <1>5, <2>0, <2>1, <3>0, <3>1
    <3>2. CASE WriteFile(s, x)
      <4>1. access[s].st = "truncated"  BY <3>2 DEF WriteFile
      <4>2. sub[s].round \in 0 .. Len(AlgoBlocks)  BY <1>0, SubFields
      <4>3. access[s].data \in Status /\ x \in Status  BY <2>0, <4>1, <4>2, WrittenIsStatus
      <4>4. x.tx_seq = access[s].data.tx_seq  BY <4>3 DEF Status
      <4> QED  BY <1>6, <2>0, <2>1, <3>0, <3>2, <4>3, <4>4
    <3> QED  BY <2>3, <3>1, <3>2 DEF ExtractHeight
  <2>4. CASE ExtractFail(s)  BY <1>4, <2>4 DEF ExtractFail
  <2>5. CASE \/ FetchBlock(s) \/ CheckParent(s) \/ UpdateVerifier(s) \/ Label(s)
             \/ SendReceipts(s) \/ SendError(s)
    <3>1. UNCHANGED <<file, access>> /\ sub[s].pc # "seq"
      BY <2>5 DEF FetchBlock, CheckParent, UpdateVerifier, Label, SendReceipts, SendError
    <3> QED  BY <1>3, <2>1, <3>1 DEF Counting
  <2> QED  BY <1>13, <2>2, <2>3, <2>4, <2>5 DEF SubStep
<1> QED  BY <1>8, <1>9, <1>10, <1>11, <1>12, <1>13 DEF Next, Step

\* What a step leaves of a subscription that does not label.
LEMMA LiveNext ==
    ASSUME TypeOK, Next, ~Crash, ~IconStart, NEW l \in Subs,
           ~Label(l) \/ sub'[l].pc = "error"
    PROVE  /\ Range(sub'[l].receipts) \subseteq Range(sub[l].receipts)
           /\ sub'[l].seq = sub[l].seq
           /\ sub'[l].pc \in {"height", "label"} =>
                 sub[l].pc \in {"height", "label"} \/ Counting(l)
<1>0. IconTyped /\ sub[l] \in FromAlgo /\ Range(<<>>) = {}
  BY TypeParts DEF IconTyped, Range
<1>1. CASE sub'[l] = sub[l]  BY <1>1
<1>2. \A v : SubMoves(l, v) => sub'[l] = v  BY <1>0 DEF SubMoves, IconTyped
<1>3. ASSUME \/ sub'[l] = [sub[l] EXCEPT !.pc = "error"]
             \/ sub'[l] = [sub[l] EXCEPT !.pc = "update"]
             \/ sub'[l] = [sub[l] EXCEPT !.pc = "height"] /\ sub[l].pc = "seq"
             \/ sub'[l] = [sub[l] EXCEPT !.pc = "label"] /\ sub[l].pc = "height"
             \/ sub'[l] = [sub[l] EXCEPT !.pc = "check", !.round = vr.round]
      PROVE  /\ sub'[l].receipts = sub[l].receipts /\ sub'[l].seq = sub[l].seq
             /\ sub'[l].pc \in {"height", "label"} =>
                   sub[l].pc \in {"height", "label"} \/ Counting(l)
  BY <1>0, <1>3 DEF FromAlgo, Counting
<1>4. CASE FetchBlock(l)  BY <1>0, <1>2, <1>3, <1>4, FetchEffect
<1>5. CASE CheckParent(l)  BY <1>0, <1>2, <1>3, <1>5, CheckEffect
<1>6. CASE UpdateVerifier(l)
  <2>1. \/ sub'[l] = [sub[l] EXCEPT !.pc = "loop", !.todo = <<>>, !.receipts = <<>>]
        \/ sub'[l] = [sub[l] EXCEPT !.pc = "seq", !.todo = AlgoBlocks[sub[l].round],
                                    !.receipts = <<>>]
    BY <1>0, <1>2, <1>6, UpdateEffect
  <2>2. sub'[l].receipts = <<>> /\ sub'[l].seq = sub[l].seq /\ sub'[l].pc \in {"loop", "seq"}
    BY <1>0, <2>1 DEF FromAlgo
  <2> QED  BY <1>0, <2>2
<1>7. CASE ExtractSeq(l) \/ ExtractHeight(l) \/ ExtractFail(l)
  BY <1>0, <1>1, <1>2, <1>3, <1>7, ExtractEffect
<1>8. CASE Label(l)
  <2> DEFINE p == IF Len(sub[l].todo) = 1 THEN "send" ELSE "seq"
             v == [sub[l] EXCEPT
                     !.seq = sub[l].seq + 1, !.todo = Tail(sub[l].todo),
                     !.receipts = Append(sub[l].receipts,
                                      [height |-> sub[l].round, seq |-> sub[l].seq,
                                       msg |-> Head(sub[l].todo)]),
                     !.pc = p]
  <2>1. v.pc = p /\ p # "error"  BY <1>0 DEF FromAlgo
  <2>2. sub'[l] = v \/ sub'[l] = [sub[l] EXCEPT !.pc = "error"]
    BY <1>0, <1>2, <1>8, LabelEffect
  <2> HIDE DEF v, p
  <2> QED  BY <1>3, <1>8, <2>1, <2>2
<1>9. CASE SendReceipts(l) \/ SendError(l)
  <2>1. \/ sub'[l] = [sub[l] EXCEPT !.pc = "loop", !.round = 0, !.receipts = <<>>]
        \/ sub'[l] = [sub[l] EXCEPT !.pc = "loop", !.round = 0, !.todo = <<>>,
                                    !.receipts = <<>>]
    BY <1>0, <1>2, <1>9, SendEffect
  <2>2. sub'[l].receipts = <<>> /\ sub'[l].seq = sub[l].seq /\ sub'[l].pc = "loop"
    BY <1>0, <2>1 DEF FromAlgo
  <2> QED  BY <1>0, <2>2
<1>10. sub'[l] = sub[l] \/ SubStep(l)
  <2>1. ASSUME NEW s \in Subs, SubStep(s) PROVE sub'[l] = sub[l] \/ SubStep(l)
    BY <1>0, <2>1, OthersStay
  <2>2. CASE ToIconStep  BY <2>2, IconLeaves DEF IconOnly
  <2> QED  BY <2>1, <2>2, NotSub DEF a2i
<1> QED  BY <1>1, <1>4, <1>5, <1>6, <1>7, <1>8, <1>9, <1>10 DEF SubStep

LEMMA NextGrows ==
    ASSUME NEW p, NEW q, NEW e \in Nat, NEW f \in Nat, f = e \/ f = e + 1,
           f = e => (q \in {"height", "label"} => p \in {"height", "label"})
    PROVE  NextOf(p, e) \in Nat /\ NextOf(q, f) \in Nat /\ NextOf(p, e) <= NextOf(q, f)
BY DEF NextOf

\* The receipts that a subscription has in hand: in order, and of its round.
LEMMA HandOrder ==
    ASSUME TypeOK, VerifierMoves, NEW s \in Subs,
           sub[s].pc \in {"seq", "height", "label", "send"}
    PROVE  LET r == sub[s].round  rc == sub[s].receipts  bl == AlgoBlocks IN
           /\ r \in 1 .. Len(bl) /\ r > sub[s].height /\ r < vr.round
           /\ OpenAt(vr.round, sub[s]) = r
           /\ \A x \in Range(rc) : x.height = r /\ Ahead(bl, x.msg, r + 1)
           /\ sub[s].todo # <<>> /\ Head(sub[s].todo) # 0 =>
                 /\ \A x \in Range(rc) : x.msg < Head(sub[s].todo)
                 /\ \A m : Ahead(bl, m, r) => m < Head(sub[s].todo)
<1> DEFINE r == sub[s].round  rc == sub[s].receipts  bl == AlgoBlocks
<1>0. chains \in Chains /\ IconTyped /\ VerifierTyped  BY TypeParts
<1>1. /\ DOMAIN bl = 1 .. Len(bl) /\ Len(bl) \in Nat
      /\ \A q \in 1 .. Len(bl) :
            /\ DOMAIN bl[q] = 1 .. Len(bl[q]) /\ Len(bl[q]) \in Nat
            /\ \A i \in 1 .. Len(bl[q]) : bl[q][i] \in Nat
  BY <1>0, ChainTypes, BlockTypes
<1>2. /\ r \in DOMAIN bl /\ r > sub[s].height /\ r < vr.round
      /\ Len(rc) + Len(sub[s].todo) = Len(bl[r])
      /\ \A i \in 1 .. Len(rc) : rc[i].msg = bl[r][i] /\ rc[i].height = r
      /\ \A i \in 1 .. Len(sub[s].todo) : sub[s].todo[i] = bl[r][Len(rc) + i]
  BY DEF VerifierMoves, BlockInHand
<1>3. /\ rc \in Seq(Labeled) /\ Len(rc) \in Nat /\ DOMAIN rc = 1 .. Len(rc)
      /\ Len(sub[s].todo) \in Nat
  BY <1>0, SubFields
<1>4. OpenAt(vr.round, sub[s]) = r  BY <1>2 DEF OpenAt
<1>5. \A i \in 1 .. Len(rc) : bl[r][i] # 0
  <2> SUFFICES ASSUME NEW i \in 1 .. Len(rc) PROVE bl[r][i] # 0  OBVIOUS
  <2>1. rc[i] \in Labeled  BY <1>3
  <2>2. rc[i].msg \in Messages  BY <2>1 DEF Labeled
  <2> QED  BY <1>0, <1>2, <2>2, BlockTypes
<1>6. \A q \in 1 .. Len(bl) : \A i \in 1 .. Len(bl[r]), j \in 1 .. Len(bl[q]) :
         bl[r][i] # 0 /\ bl[q][j] # 0 /\ (r < q \/ (r = q /\ i < j)) => bl[r][i] < bl[q][j]
  BY <1>0, <1>1, <1>2, MessageOrder, SMTT(30)
<1> DEFINE td == sub[s].todo  k == Len(rc)
<1>7. r \in Nat /\ k \in Nat /\ Len(bl[r]) \in Nat  BY <1>1, <1>2, <1>3
<1> HIDE DEF r, rc, bl, td, k
<1>8. \A i \in 1 .. k : i \in 1 .. Len(bl[r])  BY <1>2, <1>3, <1>7 DEF k, td
<1>9. \A i \in 1 .. k : Ahead(bl, rc[i].msg, r + 1)
  <2> SUFFICES ASSUME NEW i \in 1 .. k, NEW q \in DOMAIN bl, q >= r + 1,
                      NEW j \in DOMAIN bl[q], bl[q][j] # 0
               PROVE  rc[i].msg < bl[q][j]
    BY DEF Ahead
  <2>1. q \in 1 .. Len(bl) /\ j \in 1 .. Len(bl[q]) /\ r < q  BY <1>1, <1>7
  <2>2. rc[i].msg = bl[r][i] /\ bl[r][i] # 0  BY <1>2, <1>5 DEF k
  <2> QED  BY <1>6, <1>8, <2>1, <2>2
<1>10. \A x \in Range(rc) : \E i \in 1 .. k : x = rc[i]  BY <1>3 DEF Range, k
<1>11. ASSUME td # <<>>, Head(td) # 0
       PROVE  /\ \A x \in Range(rc) : x.msg < Head(td)
              /\ \A m : Ahead(bl, m, r) => m < Head(td)
  <2>1. Head(td) = td[1] /\ Len(td) >= 1 /\ Len(td) \in Nat
    BY <1>0, <1>11, TodoTypes DEF td
  <2>2. 1 \in 1 .. Len(td)  BY <2>1
  <2>3. Head(td) = bl[r][k + 1]  BY <1>2, <2>1, <2>2 DEF td, k
  <2>4. k + 1 \in 1 .. Len(bl[r])  BY <1>2, <1>7, <2>1 DEF td, k
  <2>5. ASSUME NEW x \in Range(rc) PROVE x.msg < Head(td)
    <3>1. PICK i \in 1 .. k : x = rc[i]  BY <1>10
    <3>2. i < k + 1 /\ i \in 1 .. Len(bl[r])  BY <1>7, <1>8
    <3>3. x.msg = bl[r][i] /\ bl[r][i] # 0  BY <1>2, <1>5, <3>1 DEF k
    <3>4. r \in 1 .. Len(bl)  BY <1>1, <1>2
    <3>5. bl[r][k + 1] # 0  BY <1>11, <2>3
    <3> QED  BY <1>6, <2>3, <2>4, <3>2, <3>3, <3>4, <3>5
  <2>6. ASSUME NEW m, Ahead(bl, m, r) PROVE m < Head(td)
    <3>1. r \in DOMAIN bl /\ r >= r  BY <1>2, <1>7
    <3>2. k + 1 \in DOMAIN bl[r]  BY <1>1, <1>2, <2>4
    <3> QED  BY <1>11, <2>3, <2>6, <3>1, <3>2 DEF Ahead
  <2> QED  BY <2>5, <2>6
<1>12. \A x \in Range(rc) : x.height = r /\ Ahead(bl, x.msg, r + 1)
  BY <1>2, <1>9, <1>10 DEF k
<1> QED  BY <1>1, <1>2, <1>4, <1>11, <1>12 DEF r, rc, bl, td

\* The numbers and the sets that the order is about.
LEMMA GrowTypes ==
    ASSUME TypeOK
    PROVE  /\ AlgoBlocks \in Seq(Seq(Nat)) /\ delivered \in Seq(Nat)
           /\ icon.rxSeq \in Nat /\ icon.rxHeight \in Nat /\ Labeled \subseteq Labels
           /\ OnTheWay \in SUBSET Labels
           /\ \A s \in Subs : Range(sub[s].receipts) \in SUBSET Labels
           /\ icon.live \in Subs \/ icon.pc = "start" => InHand \in SUBSET Labels
<1>1. chains \in Chains /\ IconTyped  BY TypeParts
<1>2. /\ AlgoBlocks \in Seq(Seq(Nat)) /\ Messages \subseteq Nat /\ Len(AlgoBlocks) \in Nat
      /\ delivered \in Seq(Messages)
  BY <1>1, ChainTypes, BlockTypes DEF IconTyped
<1>3. /\ icon.srcMsg \in Seq(Labeled) /\ icon.newMsg \in Seq(Labeled)
      /\ icon.pool \in SUBSET Seq(Labeled)
      /\ icon.rxSeq \in Nat /\ icon.rxHeight \in 0 .. Len(AlgoBlocks)
  BY <1>1, ToIconFields
<1>4. Labeled \subseteq Labels
  <2>1. 0 .. Len(AlgoBlocks) \subseteq Nat  BY <1>2
  <2> QED  BY <1>2, <2>1 DEF Labeled, Labels
<1>5. \A m \in Seq(Labeled) : Range(m) \subseteq Labels  BY <1>4 DEF Range
<1>6. OnTheWay \in SUBSET Labels
  <2>1. ASSUME NEW x \in OnTheWay PROVE x \in Labels
    <3>1. PICK m \in icon.pool \cup {icon.srcMsg, icon.newMsg} : x \in Range(m)
      BY DEF OnTheWay
    <3>2. m \in Seq(Labeled)  BY <1>3
    <3> QED  BY <1>5, <3>1, <3>2
  <2> QED  BY <2>1
<1>7. \A s \in Subs : Range(sub[s].receipts) \in SUBSET Labels
  <2> TAKE s \in Subs
  <2>1. sub[s].receipts \in Seq(Labeled)  BY <1>1, SubFields
  <2> QED  BY <1>5, <2>1
<1>8. icon.live \in Subs \/ icon.pc = "start" => InHand \in SUBSET Labels
  BY <1>7 DEF InHand
<1>9. delivered \in Seq(Nat)
  <2> DEFINE M == Messages
  <2>1. M \subseteq Nat /\ delivered \in Seq(M)  BY <1>2
  <2> HIDE DEF M
  <2>2. \A i \in 1 .. Len(delivered) : delivered[i] \in M  BY <2>1, ElementOfSeq
  <2>3. \A i \in 1 .. Len(delivered) : delivered[i] \in Nat  BY <2>1, <2>2
  <2> QED  BY <2>1, <2>3
<1>10. icon.rxHeight \in Nat  BY <1>2, <1>3
<1> QED  BY <1>2, <1>3, <1>4, <1>6, <1>7, <1>8, <1>9, <1>10

\* Accesses that met are not forgotten.
LEMMA RacesStay ==
    ASSUME TypeOK, Next, races' = 0
    PROVE  races = 0
<1>1. races \in Nat
  <2>1. chains \in Chains /\ races \in 0 .. MaxFaults  BY TypeParts DEF FileTyped
  <2> QED  BY <2>1, ChainTypes
<1>2. ASSUME NEW p \in Procs, FileStep(p) PROVE races' = races \/ races' = races + 1
  BY <1>2 DEF FileStep, ReadFile, Truncate, ReadFails, WriteFile, Met
<1>3. CASE Crash  BY <1>1, <1>3 DEF Crash, Met
<1> QED  BY <1>1, <1>2, <1>3, FileSteps

\* The order of the messages to ICON, step by step.
LEMMA GrowNext ==
    ASSUME TypeOK, TypeOK', FileSound, VerifierMoves, LabelsGrow, Next
    PROVE  LabelsGrow'
<1> SUFFICES ASSUME races' = 0 PROVE LabelsGrow'  BY DEF LabelsGrow
<1>0. chains \in Chains /\ UNCHANGED chains /\ IconTyped /\ VerifierTyped
  BY TypeParts DEF Next, Step
<1>1. AlgoBlocks' = AlgoBlocks  BY <1>0, SameChains
<1>2. races = 0  BY RacesStay
<1>3. PICK d : Held(d)  BY <1>2, FileParts
<1>4. PICK d2 : /\ Held(d2)'
                /\ \/ d2.tx_seq = d.tx_seq /\ \A s \in Subs : ~Counting(s)
                   \/ d2.tx_seq = d.tx_seq + 1 /\ \E s \in Subs : ExtractSeq(s) /\ Counting(s)
  BY <1>2, <1>3, TxSeqStep
<1> DEFINE bl == AlgoBlocks  dl == delivered  rs == icon.rxSeq  h == icon.rxHeight
           W == OnTheWay  H == InHand  e == d.tx_seq  f == d2.tx_seq  l == icon.live
<1>5. e \in Nat /\ f \in Nat /\ f >= e /\ (f = e \/ f = e + 1)
  <2>1. d \in Status  BY <1>3 DEF Held
  <2>2. e \in Nat  BY <2>1 DEF Status
  <2> QED  BY <1>4, <2>2
<1>6. /\ bl \in Seq(Seq(Nat)) /\ dl \in Seq(Nat) /\ rs \in Nat /\ h \in Nat
      /\ W \in SUBSET Labels /\ Labeled \subseteq Labels
      /\ \A s \in Subs : Range(sub[s].receipts) \in SUBSET Labels
  BY GrowTypes
<1>7. /\ Ordered(bl, dl, h) /\ Pending(bl, dl, rs, W, H, e)
      /\ icon.pc # "start" => /\ l \in Subs
                              /\ OnTurn(bl, dl, rs, W, e, sub[l], vr.round)
  BY <1>2, <1>3, GrowParts
<1>8. H \in SUBSET Labels  BY <1>7, GrowTypes
<1> SUFFICES /\ Ordered(bl, delivered', icon'.rxHeight)
             /\ Pending(bl, delivered', icon'.rxSeq, OnTheWay', InHand', f)
             /\ icon'.pc # "start" =>
                   /\ icon'.live \in Subs
                   /\ OnTurn(bl, delivered', icon'.rxSeq, OnTheWay', f,
                             sub'[icon'.live], vr'.round)
  BY <1>1, <1>4, GrowPartsNext
<1>9. InHand = IF icon.pc = "start" THEN {} ELSE Range(sub[icon.live].receipts)
  BY DEF InHand
<1>10. InHand' = IF icon'.pc = "start" THEN {} ELSE Range(sub'[icon'.live].receipts)
  BY DEF InHand
<1>11. Range(<<>>) = {} /\ icon \in ToIcon  BY <1>0 DEF Range, IconTyped
<1> HIDE DEF bl, dl, rs, h, W, H, e, f, l
<1>12. CASE Crash \/ \E s \in Subs : SendError(s)
  <2>1. /\ UNCHANGED delivered /\ icon'.pc = "start" /\ icon'.rxHeight = icon.rxHeight
        /\ icon'.rxSeq = icon.rxSeq /\ icon'.srcMsg = <<>> /\ icon'.pool = icon.pool
        /\ icon'.newMsg \in {icon.newMsg, <<>>}
    BY <1>11, <1>12 DEF Crash, SendError, ToIcon
  <2>2. OnTheWay' \subseteq W  BY <1>11, <2>1, WayParts, WayPartsNext DEF W
  <2>3. InHand' = {} /\ {} \subseteq H  BY <1>10, <2>1
  <2>4. Pending(bl, dl, rs, OnTheWay', InHand', f)
    BY <1>5, <1>6, <1>7, <1>8, <2>2, <2>3, PendingLess
  <2> QED  BY <1>7, <2>1, <2>4 DEF dl, rs, h
<1>13. CASE IconStart
  <2>1. PICK s \in Subs : /\ SubMoves(s, NewSub) /\ UNCHANGED <<vr, delivered>>
                          /\ icon' = [icon EXCEPT !.pc = "run", !.live = s, !.srcMsg = <<>>]
    BY <1>0, <1>13, StartEffect
  <2>2. /\ icon'.live = s /\ icon'.srcMsg = <<>> /\ icon'.rxHeight = icon.rxHeight
        /\ icon'.rxSeq = icon.rxSeq /\ icon'.pool = icon.pool /\ icon'.newMsg = icon.newMsg
        /\ icon'.pc = "run"
    BY <1>11, <2>1 DEF ToIcon
  <2>3. sub'[s] = NewSub  BY <1>0, <2>1 DEF SubMoves, IconTyped
  <2>4. /\ NewSub.pc = "loop" /\ NewSub.height = h /\ NewSub.seq = rs + 1
        /\ NewSub.receipts = <<>>
    BY DEF NewSub, h, rs
  <2>5. OnTheWay' \subseteq W  BY <1>11, <2>2, WayParts, WayPartsNext DEF W
  <2>6. InHand' = {} /\ {} \subseteq H  BY <1>10, <1>11, <2>2, <2>3, <2>4
  <2>7. Pending(bl, dl, rs, OnTheWay', InHand', f)
    BY <1>5, <1>6, <1>7, <1>8, <2>5, <2>6, PendingLess
  <2>8. vr.round \in Nat /\ vr' = vr  BY <1>0, <2>1, VerifierFields
  <2> DEFINE o == OpenAt(vr.round, NewSub)
  <2>9. o \in Nat /\ o >= h + 1
    <3>1. o = IF vr.round > h THEN vr.round ELSE h + 1  BY <2>4 DEF OpenAt
    <3> QED  BY <1>6, <2>8, <3>1
  <2> HIDE DEF o
  <2>10. \A i \in 1 .. Len(dl) : Ahead(bl, dl[i], o)
    <3>1. h + 1 \in Nat  BY <1>6
    <3> QED  BY <1>6, <1>7, <2>9, <3>1, AheadLater DEF Ordered
  <2>11. NextOf("loop", f) = f + 1  BY DEF NextOf
  <2>12. rs + 1 <= f + 1  BY <1>5, <1>6, <2>7 DEF Pending
  <2>13. ASSUME rs + 1 = f + 1, NEW x \in OnTheWay', x.seq > rs PROVE FALSE
    <3>1. x.seq <= f /\ x.seq \in Nat  BY <1>6, <2>5, <2>7 DEF Pending, Labels
    <3> QED  BY <1>5, <1>6, <2>13, <3>1
  <2>14. rs + 1 = f + 1 => Passed(bl, dl, rs, OnTheWay', o)
    BY <2>10, <2>13 DEF Passed
  <2>15. OnTurn(bl, dl, rs, OnTheWay', f, NewSub, vr.round)
    BY <2>4, <2>11, <2>12, <2>14 DEF OnTurn, o
  <2> QED  BY <1>7, <2>1, <2>2, <2>3, <2>7, <2>8, <2>15 DEF dl, rs, h
<1>14. CASE ToIconStep
  <2>1. /\ IconOnly /\ icon'.live = icon.live /\ OnTheWay' \subseteq OnTheWay
        /\ Quiet \/ \E new : Handles(new)
    BY <1>0, <1>14, IconEffect
  <2>2. UNCHANGED <<sub, vr>>  BY <2>1 DEF IconOnly
  <2>3. icon'.pc # "start" => icon.pc # "start"
    BY <2>1 DEF Quiet, Handles
  <2>4. InHand' \subseteq H /\ OnTheWay' \subseteq W
    BY <1>9, <1>10, <2>1, <2>2, <2>3 DEF H, W
  <2>5. f = e
    <3>1. \A s \in Subs : ~Counting(s)  BY <2>2 DEF Counting
    <3> QED  BY <1>4, <3>1 DEF e, f
  <2>6. CASE Quiet
    <3>1. UNCHANGED delivered /\ icon'.rxSeq = icon.rxSeq /\ icon'.rxHeight = icon.rxHeight
      BY <2>6 DEF Quiet
    <3>2. Pending(bl, dl, rs, OnTheWay', InHand', f)
      BY <1>5, <1>6, <1>7, <1>8, <2>4, PendingLess
    <3>3. ASSUME icon'.pc # "start"
          PROVE  l \in Subs /\ OnTurn(bl, dl, rs, OnTheWay', f, sub[l], vr.round)
      <4>1. l \in Subs /\ OnTurn(bl, dl, rs, W, f, sub[l], vr.round)
        BY <1>7, <2>3, <2>5, <3>3
      <4>2. \A r : Passed(bl, dl, rs, W, r) => Passed(bl, dl, rs, OnTheWay', r)
        BY <2>4 DEF Passed
      <4> QED  BY <4>1, <4>2 DEF OnTurn
    <3> QED  BY <1>7, <2>1, <2>2, <3>1, <3>2, <3>3 DEF dl, rs, h, l
  <2>7. ASSUME NEW new, Handles(new)
        PROVE  /\ Ordered(bl, delivered', icon'.rxHeight)
               /\ Pending(bl, delivered', icon'.rxSeq, OnTheWay', InHand', f)
               /\ icon'.pc # "start" =>
                     /\ icon'.live \in Subs
                     /\ OnTurn(bl, delivered', icon'.rxSeq, OnTheWay', f,
                               sub'[icon'.live], vr'.round)
    <3>1. /\ new \in Seq(Labeled) /\ Range(new) \subseteq W
          /\ \A i \in 1 .. Len(new) : new[i].seq = rs + i
          /\ icon'.rxSeq = rs + Len(new)
          /\ icon'.rxHeight \in 0 .. Len(AlgoBlocks) /\ icon'.rxHeight >= h
          /\ \A i \in 1 .. Len(new) : new[i].height <= icon'.rxHeight
          /\ delivered' = dl \o [i \in 1 .. Len(new) |-> new[i].msg]
      BY <2>7 DEF Handles, W, rs, h, dl
    <3>2. icon'.rxHeight \in Nat /\ new \in Seq(Labels) /\ Len(new) \in Nat
      BY <1>6, <3>1
    <3>3. \A i \in 1 .. Len(new) : new[i] \in W  BY <3>1 DEF Range
    <3> DEFINE h2 == icon'.rxHeight  dl2 == delivered'
    <3>4. h2 \in Nat /\ h2 >= h /\ (\A i \in 1 .. Len(new) : new[i].height <= h2)
          /\ dl2 = dl \o [i \in 1 .. Len(new) |-> new[i].msg]
      BY <3>1, <3>2
    <3> HIDE DEF h2, dl2
    <3>5. /\ Ordered(bl, dl2, h2) /\ Pending(bl, dl2, rs + Len(new), W, H, e)
          /\ \A r : Passed(bl, dl, rs, W, r) => Passed(bl, dl2, rs + Len(new), W, r)
      <4>1. /\ bl \in Seq(Seq(Nat)) /\ dl \in Seq(Nat) /\ rs \in Nat /\ h \in Nat
            /\ W \in SUBSET Labels /\ H \in SUBSET Labels /\ e \in Nat
            /\ Ordered(bl, dl, h) /\ Pending(bl, dl, rs, W, H, e)
        BY <1>5, <1>6, <1>7, <1>8
      <4>2. /\ new \in Seq(Labels) /\ \A i \in 1 .. Len(new) : new[i].seq = rs + i
        BY <3>1, <3>2
      <4>3. HandledNow(bl, dl, rs, h, W, H, e, new, h2, dl2)
        BY <3>3, <3>4, <4>1, <4>2 DEF HandledNow
      <4> QED  BY <4>3, PendingHandles
    <3>6. rs + Len(new) \in Nat  BY <1>6, <3>2
    <3>7. Pending(bl, dl2, rs + Len(new), OnTheWay', InHand', f)
      BY <1>5, <1>6, <1>8, <2>4, <3>5, <3>6, PendingLess
    <3>8. ASSUME icon'.pc # "start"
          PROVE  /\ l \in Subs
                 /\ OnTurn(bl, dl2, rs + Len(new), OnTheWay', f, sub[l], vr.round)
      <4>1. l \in Subs /\ OnTurn(bl, dl, rs, W, f, sub[l], vr.round)
        BY <1>7, <2>3, <2>5, <3>8
      <4>2. \A r : Passed(bl, dl2, rs + Len(new), W, r)
                     => Passed(bl, dl2, rs + Len(new), OnTheWay', r)
        BY <2>4 DEF Passed
      <4>3. \A r : Passed(bl, dl, rs, W, r) => Passed(bl, dl2, rs + Len(new), OnTheWay', r)
        BY <3>5, <4>2
      <4> QED  BY <4>1, <4>3 DEF OnTurn
    <3> QED  BY <2>1, <2>2, <3>1, <3>5, <3>7, <3>8 DEF h2, dl2, l
  <2> QED  BY <2>1, <2>6, <2>7
<1>15. ASSUME NEW s \in Subs, SendReceipts(s)
       PROVE  /\ Ordered(bl, delivered', icon'.rxHeight)
              /\ Pending(bl, delivered', icon'.rxSeq, OnTheWay', InHand', f)
              /\ icon'.live \in Subs
              /\ OnTurn(bl, delivered', icon'.rxSeq, OnTheWay', f,
                        sub'[icon'.live], vr'.round)
  <2> DEFINE rc == sub[s].receipts  r == sub[s].round
             v == [sub[s] EXCEPT !.pc = "loop", !.round = 0, !.receipts = <<>>]
  <2>1. /\ sub[s].pc = "send" /\ icon.pc = "run" /\ icon.live = s
        /\ icon' = [icon EXCEPT !.srcMsg = icon.srcMsg \o rc]
        /\ UNCHANGED <<vr, delivered>> /\ SubMoves(s, v)
    BY <1>15 DEF SendReceipts, SubMoves
  <2>2. /\ icon'.srcMsg = icon.srcMsg \o rc /\ icon'.rxHeight = icon.rxHeight
        /\ icon'.live = s /\ icon'.rxSeq = icon.rxSeq /\ icon'.pool = icon.pool
        /\ icon'.newMsg = icon.newMsg /\ icon'.pc = "run"
    BY <1>11, <2>1 DEF ToIcon
  <2>3. /\ sub[s] \in FromAlgo /\ sub[s].height \in Nat /\ rc \in Seq(Labeled)
        /\ r \in Nat /\ vr.round \in Nat /\ icon.srcMsg \in Seq(Labeled)
    <3>1. /\ sub[s] \in FromAlgo /\ sub[s].height \in 0 .. Len(AlgoBlocks)
          /\ sub[s].round \in 0 .. Len(AlgoBlocks) /\ sub[s].receipts \in Seq(Labeled)
      BY <1>0, SubFields
    <3>2. vr.round \in Nat /\ Len(AlgoBlocks) \in Nat  BY <1>0, VerifierFields
    <3> QED  BY <1>0, <3>1, <3>2, ToIconFields
  <2>4. /\ r > sub[s].height /\ r < vr.round /\ OpenAt(vr.round, sub[s]) = r
        /\ \A x \in Range(rc) : x.height = r /\ Ahead(bl, x.msg, r + 1)
    BY <2>1, HandOrder DEF bl
  <2>5. /\ sub'[s] = v /\ v.pc = "loop" /\ v.height = sub[s].height
        /\ v.seq = sub[s].seq /\ v.receipts = <<>>
    BY <1>0, <2>1, <2>3 DEF SubMoves, IconTyped, FromAlgo
  <2>6. \A s1, s2 \in Seq(Labeled) : Range(s1 \o s2) = Range(s1) \cup Range(s2)
    BY RangeConcat
  <2> HIDE DEF v, r, rc
  <2>7. H = Range(rc)  BY <1>9, <2>1 DEF H, rc
  <2>8. OnTheWay' = W \cup H
    BY <2>2, <2>3, <2>6, <2>7, WayParts, WayPartsNext DEF W
  <2>9. InHand' = {}  BY <1>10, <1>11, <2>2, <2>5
  <2>10. f = e
    <3>1. UNCHANGED file /\ \A t \in Subs : ~Counting(t)
      <4>1. \A t \in Subs \ {s} : sub'[t] = sub[t]
        BY <1>0, <2>1 DEF SubMoves, IconTyped
      <4> QED  BY <1>15, <2>1, <4>1 DEF Counting, SendReceipts
    <3> QED  BY <1>4, <3>1 DEF e, f
  <2>11. Pending(bl, dl, rs, OnTheWay', InHand', f)
    <3>1. \A x \in H : Ahead(bl, x.msg, x.height + 1)  BY <2>4, <2>7
    <3> QED  BY <1>7, <2>8, <2>9, <2>10, <3>1, PendingSend
  <2>12. OpenAt(vr.round, v) = vr.round
    <3>1. vr.round > sub[s].height  BY <2>3, <2>4
    <3> QED  BY <2>5, <3>1 DEF OpenAt
  <2>13. Passed(bl, dl, rs, W, r) => Passed(bl, dl, rs, OnTheWay', vr.round)
    <3> SUFFICES ASSUME Passed(bl, dl, rs, W, r)
                 PROVE  Passed(bl, dl, rs, OnTheWay', vr.round)
      OBVIOUS
    <3>1. vr.round >= r /\ r + 1 \in Nat /\ vr.round >= r + 1  BY <2>3, <2>4
    <3>2. Passed(bl, dl, rs, W, vr.round)  BY <1>6, <2>3, <3>1, PassedLater
    <3>3. \A x \in H : Ahead(bl, x.msg, vr.round)
      BY <1>6, <2>3, <2>4, <2>7, <3>1, AheadLater
    <3> QED  BY <2>8, <3>2, <3>3 DEF Passed
  <2>14. OnTurn(bl, dl, rs, W, f, sub[s], vr.round)
    <3>1. icon.pc # "start" /\ l = s  BY <2>1 DEF l
    <3> QED  BY <1>7, <2>10, <3>1
  <2>15. NextOf("loop", f) = NextOf("send", f)  BY DEF NextOf
  <2>16. OnTurn(bl, dl, rs, OnTheWay', f, v, vr.round)
    BY <2>1, <2>4, <2>5, <2>12, <2>13, <2>14, <2>15 DEF OnTurn
  <2> QED  BY <1>7, <2>1, <2>2, <2>5, <2>11, <2>16 DEF dl, rs, h
<1>16. CASE UNCHANGED <<icon, delivered>> /\ ~Crash /\ ~IconStart
  <2>1. OnTheWay' = W  BY <1>16, WayParts, WayPartsNext DEF W
  <2>2. CASE icon.pc # "start" /\ Label(l) /\ sub'[l].pc # "error"
    <3>0. l \in Subs /\ OnTurn(bl, dl, rs, W, e, sub[l], vr.round)  BY <1>7, <2>2
    <3> DEFINE x == LabelOf(l)  rc == sub[l].receipts  r == sub[l].round
               p == IF Len(sub[l].todo) = 1 THEN "send" ELSE "seq"
               v == [sub[l] EXCEPT
                       !.seq = sub[l].seq + 1, !.todo = Tail(sub[l].todo),
                       !.receipts = Append(rc, x), !.pc = p]
    <3>1. sub[l].pc = "label" /\ file # NoStatus /\ UNCHANGED vr  BY <2>2 DEF Label
    <3>2. sub[l].todo # <<>>
      <4>1. BlockInHand(sub[l])  BY <3>0, <3>1 DEF VerifierMoves
      <4> QED  BY <3>1, <4>1 DEF BlockInHand
    <3>3. sub[l] \in FromAlgo /\ sub[l].seq \in Nat  BY <1>0, <3>0, SubFields
    <3>4. \A w : SubMoves(l, w) => sub'[l] = w  BY <1>0, <3>0 DEF SubMoves, IconTyped
    <3>5. [sub[l] EXCEPT !.pc = "error"].pc = "error"  BY <3>3 DEF FromAlgo
    <3>6. Head(sub[l].todo) # 0 /\ SubMoves(l, v)
      BY <1>0, <2>2, <3>0, <3>4, <3>5, LabelEffect DEF LabelOf
    <3>7. file.tx_seq = sub[l].seq
      <4>1. ASSUME file.tx_seq # sub[l].seq PROVE FALSE
        <5>1. sub' = [sub EXCEPT ![l].pc = "error"]  BY <2>2, <4>1 DEF Label, Goto
        <5> QED  BY <1>0, <2>2, <3>0, <5>1 DEF IconTyped, FromAlgo
      <4> QED  BY <4>1
    <3>8. file = d  BY <1>3, <3>1, HeldContents
    <3>9. x \in Labels /\ x.seq = e /\ x.msg = Head(sub[l].todo)
          /\ Append(rc, x) \in Seq(Labeled) /\ rc \in Seq(Labeled) /\ x \in Labeled
      <4>1. x \in Labeled /\ Append(rc, x) \in Seq(Labeled)
        BY <1>0, <3>0, <3>2, <3>6, LabelTypes
      <4>2. x.seq = sub[l].seq /\ x.msg = Head(sub[l].todo)  BY DEF LabelOf
      <4>3. rc \in Seq(Labeled)  BY <1>0, <3>0, SubFields
      <4> QED  BY <1>6, <3>7, <3>8, <4>1, <4>2, <4>3 DEF e
    <3>10. /\ OpenAt(vr.round, sub[l]) = r
           /\ \A y \in Range(rc) : y.msg < Head(sub[l].todo)
           /\ \A m : Ahead(bl, m, r) => m < Head(sub[l].todo)
      BY <3>0, <3>1, <3>2, <3>6, HandOrder DEF bl
    <3>11. /\ sub'[l] = v /\ v.pc = p /\ v.round = r /\ v.height = sub[l].height
           /\ v.seq = sub[l].seq + 1 /\ v.receipts = Append(rc, x) /\ p \in {"send", "seq"}
      BY <3>3, <3>4, <3>6 DEF FromAlgo
    <3> HIDE DEF x, rc, r, p, v
    <3>12. NextOf("label", e) = e /\ NextOf(p, f) = f + 1  BY <3>11 DEF NextOf
    <3>13. f = e
      <4>1. \A t \in Subs : ~Counting(t)
        <5>1. \A t \in Subs \ {l} : sub'[t] = sub[t]
          BY <1>0, <3>0, <3>6 DEF SubMoves, IconTyped
        <5> QED  BY <3>1, <5>1 DEF Counting
      <4> QED  BY <1>4, <4>1 DEF e, f
    <3>14. Passed(bl, dl, rs, W, r)
      <4>1. sub[l].seq = e  BY <3>7, <3>8 DEF e
      <4> QED  BY <3>0, <3>1, <3>10, <3>12, <4>1 DEF OnTurn
    <3>15. H = Range(rc)  BY <1>9, <2>2 DEF H, l, rc
    <3>16. InHand' = H \cup {x}
      <4>1. InHand' = Range(Append(rc, x))  BY <1>10, <1>16, <2>2, <3>11 DEF l
      <4>2. Range(Append(rc, x)) = Range(rc) \cup {x}
        <5>1. /\ Len(rc) \in Nat /\ DOMAIN rc = 1 .. Len(rc)
              /\ DOMAIN Append(rc, x) = 1 .. Len(rc) + 1
              /\ Append(rc, x)[Len(rc) + 1] = x
              /\ \A i \in 1 .. Len(rc) : Append(rc, x)[i] = rc[i]
          BY <3>9, AppendProperties
        <5>2. 1 .. Len(rc) + 1 = (1 .. Len(rc)) \cup {Len(rc) + 1}  BY <5>1
        <5> QED  BY <5>1, <5>2 DEF Range
      <4> QED  BY <3>15, <4>1, <4>2
    <3>17. \A i \in 1 .. Len(dl) : dl[i] < x.msg  BY <3>9, <3>10, <3>14 DEF Passed
    <3>18. \A y \in W \cup H : y.seq > rs => y.msg < x.msg
      BY <3>9, <3>10, <3>14, <3>15 DEF Passed
    <3>19. Pending(bl, dl, rs, W, H, x.seq)  BY <1>7, <3>9
    <3>20. Pending(bl, dl, rs, W, H \cup {x}, x.seq)
      BY <1>6, <1>8, <3>9, <3>17, <3>18, <3>19, PendingLabel
    <3>21. OpenAt(vr.round, v) = OpenAt(vr.round, sub[l])
      <4>1. p # "loop" /\ sub[l].pc # "loop"  BY <3>1, <3>11
      <4> QED  BY <3>11, <4>1 DEF OpenAt, r
    <3>22. OnTurn(bl, dl, rs, W, f, v, vr.round)
      <4>1. v.seq = f + 1  BY <3>7, <3>8, <3>11, <3>13 DEF e
      <4>2. f + 1 <= f + 1  BY <1>5
      <4> QED  BY <3>10, <3>11, <3>12, <3>14, <3>21, <4>1, <4>2 DEF OnTurn
    <3> QED
      BY <1>7, <1>16, <2>1, <3>0, <3>1, <3>9, <3>11, <3>13, <3>16, <3>20, <3>22
      DEF dl, rs, h, l
  <2>3. CASE ~(icon.pc # "start" /\ Label(l) /\ sub'[l].pc # "error")
    <3>1. icon.pc # "start" =>
            /\ l \in Subs
            /\ Range(sub'[l].receipts) \subseteq Range(sub[l].receipts)
            /\ sub'[l].seq = sub[l].seq
            /\ sub'[l].pc \in {"height", "label"} =>
                  sub[l].pc \in {"height", "label"} \/ Counting(l)
      BY <1>7, <1>16, <2>3, LiveNext
    <3>2. InHand' \subseteq H  BY <1>9, <1>10, <1>16, <3>1 DEF H, l
    <3>3. Pending(bl, dl, rs, W, InHand', f)
      BY <1>5, <1>6, <1>7, <1>8, <3>2, PendingLess
    <3>4. ASSUME icon.pc # "start", sub'[l].pc # "error", ~SendError(l)
          PROVE  OnTurn(bl, dl, rs, W, f, sub'[l], vr'.round)
      <4>0. l \in Subs  BY <3>1, <3>4
      <4>1. /\ sub[l].pc # "error"
            /\ OpenAt(vr.round, sub[l]) \in Nat /\ OpenAt(vr'.round, sub'[l]) \in Nat
            /\ OpenAt(vr.round, sub[l]) <= OpenAt(vr'.round, sub'[l])
        BY <1>16, <3>4, <4>0, RoundForward
      <4>2. f = e => ~Counting(l)  BY <1>4, <1>5, <4>0 DEF e, f
      <4> DEFINE a == NextOf(sub[l].pc, e)  b == NextOf(sub'[l].pc, f)
      <4>3. a \in Nat /\ b \in Nat /\ a <= b
        BY <1>5, <3>1, <3>4, <4>2, NextGrows
      <4>4. sub[l].seq \in Nat /\ sub'[l].seq = sub[l].seq
        BY <1>0, <3>1, <3>4, <4>0, SubFields
      <4>5. sub[l].seq <= a /\ (sub[l].seq = a => Passed(bl, dl, rs, W, OpenAt(vr.round, sub[l])))
        BY <1>7, <3>4, <4>1 DEF OnTurn
      <4> HIDE DEF a, b
      <4>6. sub'[l].seq <= b /\ (sub'[l].seq = b => sub[l].seq = a)  BY <4>3, <4>4, <4>5
      <4>7. sub'[l].seq = b => Passed(bl, dl, rs, W, OpenAt(vr'.round, sub'[l]))
        BY <1>6, <4>1, <4>5, <4>6, PassedLater
      <4> QED  BY <4>6, <4>7 DEF OnTurn, b
    <3>5. sub'[l].pc = "error" => OnTurn(bl, dl, rs, W, f, sub'[l], vr'.round)  BY DEF OnTurn
    <3>6. ~SendError(l)
      BY <1>11, <1>16 DEF SendError, ToIcon
    <3> QED  BY <1>7, <1>16, <2>1, <3>1, <3>3, <3>4, <3>5, <3>6 DEF dl, rs, h, l
  <2> QED  BY <2>2, <2>3
<1>17. \/ Crash \/ IconStart \/ ToIconStep \/ (\E s \in Subs : SendError(s) \/ SendReceipts(s))
       \/ UNCHANGED <<icon, delivered>>
  <2>1. ASSUME NEW s \in Subs, SubStep(s)
        PROVE  SendError(s) \/ SendReceipts(s) \/ UNCHANGED <<icon, delivered>>
    BY <2>1 DEF SubStep, FetchBlock, CheckParent, UpdateVerifier, ExtractSeq, ExtractHeight,
                ExtractFail, Label
  <2> QED  BY <2>1, NotSub DEF a2i
<1> QED  BY <1>12, <1>13, <1>14, <1>15, <1>16, <1>17

-----------------------------------------------------------------------------
(* The messages to ICON until something fails.                             *)

\* What was handled up to number rs, is on its way and in hand has its number.
Whole(dl, rs, W, H) ==
    /\ \A i \in 1 .. Len(dl) : dl[i] = i
    /\ Len(dl) = rs
    /\ \A x \in W \cup H : x.msg = x.seq

\* The messages from k on are those after the n first ones of round r.
Beyond(bl, k, r, n) ==
    \A q \in DOMAIN bl : \A i \in DOMAIN bl[q] : bl[q][i] # 0 =>
        (bl[q][i] >= k <=> q > r \/ (q = r /\ i > n))

\* The subscription, with the verifier at round v.
InPlace(sb, v) ==
    /\ sb.pc \notin {"error", "done"} /\ sb.height = 0 /\ sb.seq > 0
    /\ sb.pc \in {"loop", "check", "update"} => sb.receipts = <<>>
    /\ sb.pc \in {"check", "update"} => sb.round = v
    /\ sb.pc \in {"seq", "height", "label", "send"} => v = sb.round + 1

RoundAt(sb, v) == IF sb.pc = "loop" THEN v ELSE sb.round

\* It takes the next messages from where it is.
Continues(bl, sb, v) ==
    InPlace(sb, v) /\ Beyond(bl, sb.seq, RoundAt(sb, v), Len(sb.receipts))

\* The relay ic has the only subscription of sb, with a verifier w.
Alone(bl, ic, sb, w) ==
    /\ \A s \in Subs : s # ic.live => sb[s] = NoSub
    /\ ic.pc = "start" =>
          /\ ic.live = 0 /\ ic.rxHeight = 0 /\ ic.rxSeq = 0
          /\ ic.pool = {} /\ w = NewReceiver
    /\ ic.pc # "start" => ic.live \in Subs /\ Continues(bl, sb[ic.live], w.round)

LEMMA NoneParts ==
    ASSUME TypeOK
    PROVE  NoneLeftOut <=>
              (~failed => /\ Whole(delivered, icon.rxSeq, OnTheWay, InHand)
                          /\ Alone(AlgoBlocks, icon, sub, vr))
<1>1. DOMAIN delivered = 1 .. Len(delivered)  BY TypeParts DEF IconTyped
<1>2. RoundOf(sub[icon.live]) = RoundAt(sub[icon.live], vr.round)  BY DEF RoundOf, RoundAt
<1>3. ~failed => (DeliveredComplete <=> \A i \in 1 .. Len(delivered) : delivered[i] = i)
  BY <1>1 DEF DeliveredComplete
<1>4. failed \in BOOLEAN  BY TypeParts DEF IconTyped
<1> HIDE DEF RoundOf, RoundAt
<1> DEFINE sb == sub[icon.live]
<1>5. Continues(AlgoBlocks, sb, vr.round) <=>
        /\ sb.pc \notin {"error", "done"} /\ sb.height = 0 /\ sb.seq > 0
        /\ sb.pc \in {"loop", "check", "update"} => sb.receipts = <<>>
        /\ sb.pc \in {"check", "update"} => sb.round = vr.round
        /\ sb.pc \in {"seq", "height", "label", "send"} => vr.round = sb.round + 1
        /\ \A q \in DOMAIN AlgoBlocks : \A i \in DOMAIN AlgoBlocks[q] :
              AlgoBlocks[q][i] # 0 =>
                 (AlgoBlocks[q][i] >= sb.seq <=>
                    \/ q > RoundOf(sb)
                    \/ q = RoundOf(sb) /\ i > Len(sb.receipts))
  BY <1>2 DEF Continues, InPlace, Beyond
<1> QED  BY <1>3, <1>4, <1>5 DEF NoneLeftOut, Whole, Alone

LEMMA NonePartsNext ==
    (TypeOK => (NoneLeftOut <=>
              (~failed => /\ Whole(delivered, icon.rxSeq, OnTheWay, InHand)
                          /\ Alone(AlgoBlocks, icon, sub, vr))))'
<1>1. TypeOK => (NoneLeftOut <=>
              (~failed => /\ Whole(delivered, icon.rxSeq, OnTheWay, InHand)
                          /\ Alone(AlgoBlocks, icon, sub, vr)))
  BY NoneParts
<1> QED  BY <1>1, PTL

\* The next message of the round is the next number.
LEMMA NextMessage ==
    ASSUME chains \in Chains, NEW k \in Nat, k > 0, NEW r \in 1 .. Len(AlgoBlocks),
           NEW n \in Nat, n + 1 \in 1 .. Len(AlgoBlocks[r]), AlgoBlocks[r][n + 1] # 0,
           Beyond(AlgoBlocks, k, r, n)
    PROVE  AlgoBlocks[r][n + 1] = k /\ Beyond(AlgoBlocks, k + 1, r, n + 1)
<1> DEFINE bl == AlgoBlocks  m == bl[r][n + 1]
<1>1. /\ DOMAIN bl = 1 .. Len(bl) /\ Len(bl) \in Nat /\ Messages \subseteq Nat \ {0}
      /\ \A q \in 1 .. Len(bl) :
            /\ DOMAIN bl[q] = 1 .. Len(bl[q]) /\ Len(bl[q]) \in Nat
            /\ \A i \in 1 .. Len(bl[q]) : bl[q][i] \in Nat
                                         /\ (bl[q][i] # 0 => bl[q][i] \in Messages)
  BY ChainTypes, BlockTypes
<1>2. /\ \A q \in 1 .. Len(bl) : \A j \in 1 .. Len(bl[q]) :
            bl[q][j] # 0 /\ (r < q \/ (r = q /\ n + 1 < j)) => m < bl[q][j]
      /\ \A x \in Messages : \A y \in 1 .. x : y \in Messages
      /\ \A x \in Messages : \E q \in 1 .. Len(bl) : \E i \in 1 .. Len(bl[q]) : bl[q][i] = x
  BY MessageOrder
<1>3. \A q \in 1 .. Len(bl) : \A i \in 1 .. Len(bl[q]) : bl[q][i] # 0 =>
         (bl[q][i] >= k <=> q > r \/ (q = r /\ i > n))
  BY <1>1 DEF Beyond
<1>4. m \in Nat /\ m \in Messages /\ m >= k
  <2>1. m \in Nat /\ m \in Messages  BY <1>1
  <2>2. n + 1 > n  OBVIOUS
  <2> QED  BY <1>3, <2>1, <2>2
<1> HIDE DEF bl, m
<1>5. m = k
  <2> SUFFICES ASSUME m # k PROVE FALSE  OBVIOUS
  <2>1. k \in 1 .. m  BY <1>4
  <2> PICK q \in 1 .. Len(bl) : \E i \in 1 .. Len(bl[q]) : bl[q][i] = k
    BY <1>2, <1>4, <2>1
  <2>2. PICK i \in 1 .. Len(bl[q]) : bl[q][i] = k  OBVIOUS
  <2>3. bl[q][i] # 0 /\ bl[q][i] >= k  BY <2>2
  <2>4. q > r \/ (q = r /\ i > n)  BY <1>3, <2>3
  <2>5. ~(q = r /\ i = n + 1)  BY <2>2 DEF bl, m
  <2>6. r < q \/ (r = q /\ n + 1 < i)
    <3>1. q \in Nat /\ i \in Nat /\ r \in Nat  BY <1>1
    <3> QED  BY <2>4, <2>5, <3>1
  <2>7. m < bl[q][i]  BY <1>2, <2>3, <2>6
  <2> QED  BY <1>4, <2>2, <2>7
<1>6. ASSUME NEW q \in 1 .. Len(bl), NEW i \in 1 .. Len(bl[q]), bl[q][i] # 0
      PROVE  bl[q][i] >= k + 1 <=> q > r \/ (q = r /\ i > n + 1)
  <2>1. q \in Nat /\ i \in Nat /\ r \in Nat /\ bl[q][i] \in Nat  BY <1>1
  <2>2. ASSUME bl[q][i] >= k + 1 PROVE q > r \/ (q = r /\ i > n + 1)
    <3>1. bl[q][i] >= k  BY <2>1, <2>2
    <3>2. q > r \/ (q = r /\ i > n)  BY <1>3, <1>6, <3>1
    <3>3. ~(q = r /\ i = n + 1)
      <4>1. q = r /\ i = n + 1 => bl[q][i] = m  BY DEF bl, m
      <4> QED  BY <1>5, <2>1, <2>2, <4>1
    <3> QED  BY <2>1, <3>2, <3>3
  <2>3. ASSUME q > r \/ (q = r /\ i > n + 1) PROVE bl[q][i] >= k + 1
    <3>1. r < q \/ (r = q /\ n + 1 < i)  BY <2>1, <2>3
    <3>2. m < bl[q][i]  BY <1>2, <1>6, <3>1
    <3> QED  BY <1>5, <2>1, <3>2
  <2> QED  BY <2>2, <2>3
<1>7. Beyond(bl, k + 1, r, n + 1)  BY <1>1, <1>6 DEF Beyond
<1> QED  BY <1>5, <1>7 DEF bl, m

\* After all messages of a round come those of the next.
LEMMA NextRound ==
    ASSUME NEW bl \in Seq(Seq(Nat)), NEW k, NEW r \in DOMAIN bl,
           Beyond(bl, k, r, Len(bl[r]))
    PROVE  Beyond(bl, k, r + 1, 0)
<1> SUFFICES ASSUME NEW q \in DOMAIN bl, NEW i \in DOMAIN bl[q], bl[q][i] # 0
             PROVE  bl[q][i] >= k <=> q > r + 1 \/ (q = r + 1 /\ i > 0)
  BY DEF Beyond
<1>1. bl[q][i] >= k <=> q > r \/ (q = r /\ i > Len(bl[r]))  BY DEF Beyond
<1>2. /\ q \in Nat /\ r \in Nat /\ bl[q] \in Seq(Nat)  OBVIOUS
<1>3. i \in Nat /\ i >= 1 /\ i <= Len(bl[q]) /\ Len(bl[q]) \in Nat  BY <1>2
<1>4. ~(q = r /\ i > Len(bl[r]))  BY <1>3
<1> QED  BY <1>1, <1>2, <1>3, <1>4

\* A subscription that takes a step before anything failed is the relay's.
LEMMA LiveSteps ==
    ASSUME TypeOK, Alone(AlgoBlocks, icon, sub, vr), NEW s \in Subs, SubStep(s)
    PROVE  icon.pc # "start" /\ s = icon.live
<1>1. sub[s].pc # "done"
  BY DEF SubStep, FetchBlock, CheckParent, UpdateVerifier, ExtractSeq, ExtractHeight,
         ExtractFail, Label, SendReceipts, SendError
<1>2. sub[s] # NoSub  BY <1>1 DEF NoSub
<1>3. s = icon.live  BY <1>2 DEF Alone
<1>4. s # 0  BY DEF Subs
<1> QED  BY <1>3, <1>4 DEF Alone

\* The relay's subscription moves on, and the rest follows it.
LEMMA AloneMove ==
    ASSUME TypeOK, Alone(AlgoBlocks, icon, sub, vr), NEW s \in Subs,
           icon.pc # "start", s = icon.live, icon'.pc # "start", icon'.live = icon.live,
           NEW v, SubMoves(s, v), Continues(AlgoBlocks, v, vr'.round)
    PROVE  Alone(AlgoBlocks, icon', sub', vr')
<1>1. IconTyped  BY TypeParts
<1>2. sub'[s] = v /\ \A t \in Subs : t # s => sub'[t] = sub[t]  BY <1>1 DEF SubMoves, IconTyped
<1>3. \A t \in Subs : t # icon.live => sub[t] = NoSub  BY DEF Alone
<1> QED  BY <1>2, <1>3 DEF Alone

\* What is left over is whole.
LEMMA WholeLess ==
    ASSUME NEW dl, NEW rs, NEW W, NEW H, Whole(dl, rs, W, H),
           NEW V \in SUBSET (W \cup H), NEW G \in SUBSET (W \cup H)
    PROVE  Whole(dl, rs, V, G)
BY DEF Whole

\* ICON's BMC handles messages that are on their way.
LEMMA WholeHandles ==
    ASSUME NEW dl \in Seq(Nat), NEW rs \in Nat, NEW W, NEW H, Whole(dl, rs, W, H),
           NEW new \in Seq(Labels), \A i \in 1 .. Len(new) : new[i] \in W,
           \A i \in 1 .. Len(new) : new[i].seq = rs + i
    PROVE  Whole(dl \o [i \in 1 .. Len(new) |-> new[i].msg], rs + Len(new), W, H)
<1> DEFINE ms == [i \in 1 .. Len(new) |-> new[i].msg]  d2 == dl \o ms  n == Len(dl)
           k == Len(new)
<1>1. n \in Nat /\ k \in Nat /\ n = rs  BY DEF Whole
<1>2. \A i \in 1 .. k : ms[i] = rs + i /\ ms[i] \in Nat
  <2> TAKE i \in 1 .. k
  <2>1. new[i].msg = new[i].seq  BY DEF Whole
  <2>2. rs + i \in Nat  BY <1>1
  <2> QED  BY <2>1, <2>2
<1>3. ms \in Seq(Nat) /\ Len(ms) = k
  <2>1. ms \in [1 .. k -> Nat]  BY <1>2
  <2> HIDE DEF ms, k
  <2>2. \A i \in 1 .. k : ms[i] \in Nat  BY <1>2
  <2>3. ms = [i \in 1 .. k |-> ms[i]]  BY <2>1
  <2> QED  BY <1>1, <2>1, <2>2, <2>3
<1> HIDE DEF ms
<1>4. /\ Len(d2) = n + k
      /\ \A i \in 1 .. n + k : d2[i] = IF i <= n THEN dl[i] ELSE ms[i - n]
  <2>1. /\ Len(dl \o ms) = Len(dl) + Len(ms)
        /\ \A i \in 1 .. Len(dl) + Len(ms) :
              (dl \o ms)[i] = IF i <= Len(dl) THEN dl[i] ELSE ms[i - Len(dl)]
    BY <1>3, ConcatProperties
  <2> QED  BY <1>3, <2>1
<1> HIDE DEF d2, n, k
<1>5. \A i \in 1 .. Len(d2) : d2[i] = i
  <2> TAKE i \in 1 .. Len(d2)
  <2>1. i \in 1 .. n + k  BY <1>4
  <2>2. CASE i <= n
    <3>1. i \in 1 .. n  BY <1>1, <2>1, <2>2
    <3>2. dl[i] = i  BY <3>1 DEF Whole, n
    <3> QED  BY <1>4, <2>1, <2>2, <3>2
  <2>3. CASE ~(i <= n)
    <3>1. i - n \in 1 .. k /\ rs + (i - n) = i  BY <1>1, <2>1, <2>3
    <3>2. ms[i - n] = i  BY <1>2, <3>1
    <3> QED  BY <1>4, <2>1, <2>3, <3>2
  <2> QED  BY <2>2, <2>3
<1>6. Len(d2) = rs + k  BY <1>1, <1>4
<1>7. \A x \in W \cup H : x.msg = x.seq  BY DEF Whole
<1> QED  BY <1>5, <1>6, <1>7 DEF Whole, ms, d2, k

\* The relay's subscription labels the next message with its own number.
LEMMA LabelNumber ==
    ASSUME TypeOK, VerifierMoves, NEW s \in Subs, Label(s), Continues(AlgoBlocks, sub[s], vr.round),
           ~failed'
    PROVE  /\ UNCHANGED <<icon, delivered, vr>>
           /\ LabelOf(s) \in Labeled /\ LabelOf(s).msg = LabelOf(s).seq
           /\ Range(sub'[s].receipts) = Range(sub[s].receipts) \cup {LabelOf(s)}
           /\ \E v : SubMoves(s, v) /\ Continues(AlgoBlocks, v, vr'.round)
<1>0. chains \in Chains /\ IconTyped /\ VerifierTyped  BY TypeParts
<1> DEFINE sb == sub[s]  rc == sb.receipts  r == sb.round  n == Len(rc)
           p == IF Len(sub[s].todo) = 1 THEN "send" ELSE "seq"
           x == LabelOf(s)
           v == [sub[s] EXCEPT !.seq = sub[s].seq + 1, !.todo = Tail(sub[s].todo),
                               !.receipts = Append(rc, x), !.pc = p]
<1>1. /\ SubMoves(s, v) /\ Head(sb.todo) # 0 /\ sb.pc = "label"
      /\ UNCHANGED <<icon, delivered, vr>>
  BY <1>0, LabelEffect DEF Label, LabelOf
<1>2. BlockInHand(sb)  BY <1>1 DEF VerifierMoves
<1>3. sb.todo # <<>>  BY <1>1, <1>2 DEF BlockInHand
<1>4. /\ Len(sb.todo) \in Nat /\ Len(sb.todo) >= 1 /\ Head(sb.todo) = sb.todo[1]
      /\ x \in Labeled /\ sb \in FromAlgo /\ rc \in Seq(Labeled) /\ n \in Nat /\ sb.seq \in Nat
      /\ Len(AlgoBlocks) \in Nat /\ DOMAIN AlgoBlocks = 1 .. Len(AlgoBlocks)
  <2>1. /\ Len(sb.todo) \in Nat /\ Len(sb.todo) >= 1 /\ Head(sb.todo) = sb.todo[1]
        /\ x \in Labeled
    BY <1>0, <1>1, <1>3, TodoTypes, LabelTypes
  <2>2. sb \in FromAlgo /\ rc \in Seq(Labeled) /\ sb.seq \in Nat  BY <1>0, SubFields
  <2>3. n \in Nat  BY <2>2
  <2> QED  BY <1>0, <2>1, <2>2, <2>3, ChainTypes
<1>5. /\ r \in 1 .. Len(AlgoBlocks) /\ n + Len(sb.todo) = Len(AlgoBlocks[r])
      /\ Head(sb.todo) = AlgoBlocks[r][n + 1]
  <2>1. 1 \in 1 .. Len(sb.todo)  BY <1>4
  <2> QED  BY <1>2, <1>4, <2>1 DEF BlockInHand
<1>6. n + 1 \in 1 .. Len(AlgoBlocks[r])
  <2> HIDE DEF n
  <2> QED  BY <1>4, <1>5
<1>7. RoundAt(sb, vr.round) = r /\ sb.seq > 0 /\ sb.height = 0 /\ vr.round = r + 1
  BY <1>1 DEF RoundAt, Continues, InPlace
<1>8. AlgoBlocks[r][n + 1] = sb.seq /\ Beyond(AlgoBlocks, sb.seq + 1, r, n + 1)
  <2> DEFINE k == sb.seq
  <2>1. Beyond(AlgoBlocks, k, r, n)  BY <1>7 DEF Continues
  <2>2. AlgoBlocks[r][n + 1] # 0 /\ k \in Nat /\ k > 0  BY <1>1, <1>4, <1>5, <1>7
  <2> HIDE DEF n, r, k
  <2>3. AlgoBlocks[r][n + 1] = k /\ Beyond(AlgoBlocks, k + 1, r, n + 1)
    BY <1>0, <1>4, <1>5, <1>6, <2>1, <2>2, NextMessage
  <2> QED  BY <2>3 DEF k
<1>9. x.msg = x.seq  BY <1>5, <1>8 DEF LabelOf
<1>10. /\ v.pc = p /\ v.round = r /\ v.height = 0 /\ v.receipts = Append(rc, x)
       /\ v.seq = sb.seq + 1 /\ p \in {"send", "seq"} /\ sub'[s] = v
  BY <1>0, <1>1, <1>4, <1>7 DEF FromAlgo, SubMoves, IconTyped
<1> HIDE DEF v, p, x
<1>11. /\ DOMAIN rc = 1 .. n /\ DOMAIN Append(rc, x) = 1 .. n + 1
       /\ Len(Append(rc, x)) = n + 1 /\ Append(rc, x)[n + 1] = x
       /\ \A i \in 1 .. n : Append(rc, x)[i] = rc[i]
  BY <1>4, AppendProperties
<1>12. Range(Append(rc, x)) = Range(rc) \cup {x}
  <2>1. 1 .. n + 1 = (1 .. n) \cup {n + 1}  BY <1>4
  <2> QED  BY <1>11, <2>1 DEF Range
<1>13. Continues(AlgoBlocks, v, vr'.round)
  <2>1. InPlace(v, vr'.round)  BY <1>1, <1>4, <1>7, <1>10 DEF InPlace
  <2>2. RoundAt(v, vr'.round) = r  BY <1>10 DEF RoundAt
  <2>3. Len(v.receipts) = n + 1  BY <1>10, <1>11
  <2> QED  BY <1>8, <1>10, <2>1, <2>2, <2>3 DEF Continues
<1> QED  BY <1>1, <1>4, <1>9, <1>10, <1>12, <1>13 DEF x

\* The other steps of the relay's subscription.
LEMMA AloneSub ==
    ASSUME TypeOK, VerifierMoves, NEW s \in Subs, SubStep(s), ~Label(s), ~failed',
           Alone(AlgoBlocks, icon, sub, vr), icon.pc # "start", s = icon.live
    PROVE  Alone(AlgoBlocks, icon', sub', vr') /\ ~SendError(s)
<1>0. chains \in Chains /\ IconTyped /\ VerifierTyped  BY TypeParts
<1>1. /\ AlgoBlocks \in Seq(Seq(Nat)) /\ Len(AlgoBlocks) \in Nat
      /\ DOMAIN AlgoBlocks = 1 .. Len(AlgoBlocks)
      /\ vr.round \in Nat /\ vr.round >= VerifierRound /\ VerifierRound \in Nat
      /\ VerifierRound >= 1
  BY <1>0, ChainTypes, VerifierFields
<1> DEFINE sb == sub[s]  rc == sub[s].receipts
<1>2. InPlace(sb, vr.round) /\ Beyond(AlgoBlocks, sb.seq, RoundAt(sb, vr.round), Len(rc))
  BY DEF Alone, Continues
<1>3. /\ sb \in FromAlgo /\ sb.round \in 0 .. Len(AlgoBlocks) /\ rc \in Seq(Labeled)
      /\ sb.todo \in Seq(Messages \cup {0}) /\ Len(rc) \in Nat
  BY <1>0, SubFields
<1>5. sb.height = 0 /\ sb.pc # "error" /\ sb.seq > 0  BY <1>2 DEF InPlace
<1>6. ~SendError(s)  BY <1>5 DEF SendError
<1>7. CASE FetchBlock(s)
  <2> DEFINE v == [sub[s] EXCEPT !.pc = "check", !.round = vr.round]
  <2>1. /\ SubMoves(s, v) /\ sb.pc = "loop" /\ UNCHANGED <<icon, delivered, vr>>
    BY <1>0, <1>7, FetchEffect DEF FetchBlock
  <2>2. /\ v.pc = "check" /\ v.round = vr.round /\ v.height = 0 /\ v.receipts = rc
        /\ v.seq = sb.seq
    BY <1>3, <1>5 DEF FromAlgo
  <2>3. rc = <<>>  BY <1>2, <2>1 DEF InPlace
  <2> HIDE DEF v
  <2>4. InPlace(v, vr'.round)  BY <1>5, <2>1, <2>2, <2>3 DEF InPlace
  <2>5. RoundAt(v, vr'.round) = RoundAt(sb, vr.round)  BY <2>1, <2>2 DEF RoundAt
  <2>6. Continues(AlgoBlocks, v, vr'.round)  BY <1>2, <2>2, <2>4, <2>5 DEF Continues
  <2> QED  BY <1>6, <2>1, <2>6, AloneMove
<1>8. CASE CheckParent(s)
  <2> DEFINE v == [sub[s] EXCEPT !.pc = "update"]
  <2>1. /\ SubMoves(s, v) /\ sb.pc = "check" /\ UNCHANGED <<icon, delivered, vr>>
    BY <1>0, <1>8, CheckEffect DEF CheckParent
  <2>2. /\ v.pc = "update" /\ v.round = sb.round /\ v.height = 0 /\ v.receipts = rc
        /\ v.seq = sb.seq
    BY <1>3, <1>5 DEF FromAlgo
  <2>3. rc = <<>> /\ sb.round = vr.round  BY <1>2, <2>1 DEF InPlace
  <2> HIDE DEF v
  <2>4. InPlace(v, vr'.round)  BY <1>5, <2>1, <2>2, <2>3 DEF InPlace
  <2>5. RoundAt(v, vr'.round) = RoundAt(sb, vr.round)  BY <2>1, <2>2 DEF RoundAt
  <2>6. Continues(AlgoBlocks, v, vr'.round)  BY <1>2, <2>2, <2>4, <2>5 DEF Continues
  <2> QED  BY <1>6, <2>1, <2>6, AloneMove
<1>9. CASE UpdateVerifier(s)
  <2>1. sb.pc = "update" /\ UNCHANGED <<icon, delivered>>  BY <1>9 DEF UpdateVerifier
  <2>2. rc = <<>> /\ sb.round = vr.round /\ Len(rc) = 0  BY <1>2, <2>1 DEF InPlace
  <2>3. vr'.round = sb.round + 1
    <3>1. PICK r \in {vr.round + 1} \cup ({vr.round} \cap {sub[s].round + 1}) :
             vr' = [round |-> r, hash |-> sub[s].round]
      BY <1>9 DEF UpdateVerifier
    <3>2. vr'.round = r  BY <3>1
    <3> QED  BY <1>1, <2>2, <3>1, <3>2
  <2>4. sb.round \in DOMAIN AlgoBlocks /\ sb.round > sb.height
    BY <1>1, <1>3, <1>5, <2>2
  <2>5. RoundAt(sb, vr.round) = sb.round  BY <2>1 DEF RoundAt
  <2> DEFINE a == [sub[s] EXCEPT !.pc = "loop", !.todo = <<>>, !.receipts = <<>>]
             b == [sub[s] EXCEPT !.pc = "seq", !.todo = AlgoBlocks[sub[s].round],
                                 !.receipts = <<>>]
  <2>6. CASE AlgoBlocks[sb.round] = <<>>
    <3>1. SubMoves(s, a)  BY <1>0, <1>9, <2>6, UpdateEffect
    <3>2. a.pc = "loop" /\ a.height = 0 /\ a.receipts = <<>> /\ a.seq = sb.seq
      BY <1>3, <1>5 DEF FromAlgo
    <3> HIDE DEF a
    <3>3. InPlace(a, vr'.round)  BY <1>5, <3>2 DEF InPlace
    <3>4. RoundAt(a, vr'.round) = sb.round + 1  BY <2>3, <3>2 DEF RoundAt
    <3>5. Beyond(AlgoBlocks, sb.seq, sb.round + 1, 0)
      <4> DEFINE k == sb.seq
      <4>1. Len(AlgoBlocks[sb.round]) = 0  BY <2>6
      <4>2. Beyond(AlgoBlocks, k, sb.round, Len(AlgoBlocks[sb.round]))
        BY <1>2, <2>2, <2>5, <4>1
      <4> HIDE DEF k
      <4>3. Beyond(AlgoBlocks, k, sb.round + 1, 0)  BY <1>1, <2>4, <4>2, NextRound
      <4> QED  BY <4>3 DEF k
    <3>6. Continues(AlgoBlocks, a, vr'.round)
      BY <2>2, <3>2, <3>3, <3>4, <3>5 DEF Continues
    <3> QED  BY <1>6, <2>1, <3>1, <3>6, AloneMove
  <2>7. CASE AlgoBlocks[sb.round] # <<>>
    <3>1. SubMoves(s, b)
      <4>1. ~(sb.round <= sb.height)  BY <1>1, <1>5, <2>2, <2>4
      <4> QED  BY <1>0, <1>9, <2>7, <4>1, UpdateEffect
    <3>2. b.pc = "seq" /\ b.height = 0 /\ b.receipts = <<>> /\ b.round = sb.round
          /\ b.seq = sb.seq
      BY <1>3, <1>5 DEF FromAlgo
    <3> HIDE DEF b
    <3>3. InPlace(b, vr'.round)  BY <1>5, <2>3, <3>2 DEF InPlace
    <3>4. RoundAt(b, vr'.round) = sb.round  BY <3>2 DEF RoundAt
    <3>5. Continues(AlgoBlocks, b, vr'.round)
      BY <1>2, <2>2, <2>5, <3>2, <3>3, <3>4 DEF Continues
    <3> QED  BY <1>6, <2>1, <3>1, <3>5, AloneMove
  <2> QED  BY <2>6, <2>7
<1>10. CASE ExtractSeq(s) \/ ExtractHeight(s) \/ ExtractFail(s)
  <2>1. UNCHANGED <<icon, delivered, vr>>
    BY <1>10 DEF ExtractSeq, ExtractHeight, ExtractFail
  <2>2. CASE UNCHANGED sub  BY <1>6, <2>1, <2>2 DEF Alone
  <2>3. ASSUME NEW p \in {"height", "label"}, SubMoves(s, [sub[s] EXCEPT !.pc = p]),
               sub[s].pc \in {"seq", "height"}
        PROVE  Alone(AlgoBlocks, icon', sub', vr')
    <3> DEFINE v == [sub[s] EXCEPT !.pc = p]
    <3>1. v.pc = p /\ v.round = sb.round /\ v.height = 0 /\ v.receipts = rc /\ v.seq = sb.seq
      BY <1>3, <1>5, <2>3 DEF FromAlgo
    <3>2. SubMoves(s, v)  BY <2>3
    <3> HIDE DEF v
    <3>3. vr.round = sb.round + 1  BY <1>2, <2>3 DEF InPlace
    <3>4. InPlace(v, vr'.round)  BY <1>5, <2>1, <2>3, <3>1, <3>3 DEF InPlace
    <3>5. RoundAt(v, vr'.round) = RoundAt(sb, vr.round)
      BY <2>1, <2>3, <3>1 DEF RoundAt
    <3>6. Continues(AlgoBlocks, v, vr'.round)  BY <1>2, <3>1, <3>4, <3>5 DEF Continues
    <3> QED  BY <2>1, <3>2, <3>6, AloneMove
  <2> QED  BY <1>0, <1>6, <1>10, <2>2, <2>3, ExtractEffect
<1>11. CASE SendReceipts(s)
  <2> DEFINE v == [sub[s] EXCEPT !.pc = "loop", !.round = 0, !.receipts = <<>>]
             r == sb.round
  <2>1. /\ sb.pc = "send" /\ icon.pc = "run"
        /\ icon' = [icon EXCEPT !.srcMsg = icon.srcMsg \o rc]
        /\ UNCHANGED <<vr, delivered>> /\ SubMoves(s, v)
    BY <1>11 DEF SendReceipts, SubMoves
  <2>2. icon'.live = s /\ icon'.pc = "run"  BY <1>0, <2>1 DEF IconTyped, ToIcon
  <2>3. v.pc = "loop" /\ v.height = 0 /\ v.receipts = <<>> /\ v.seq = sb.seq
    BY <1>3, <1>5 DEF FromAlgo
  <2> HIDE DEF v
  <2>4. /\ r \in DOMAIN AlgoBlocks /\ Len(rc) = Len(AlgoBlocks[r]) /\ vr.round = r + 1
    <3>1. BlockInHand(sb)  BY <2>1 DEF VerifierMoves
    <3>2. /\ r \in DOMAIN AlgoBlocks /\ Len(rc) + Len(sb.todo) = Len(AlgoBlocks[r])
          /\ sb.todo = <<>>
      BY <2>1, <3>1 DEF BlockInHand
    <3>3. Len(sb.todo) = 0  BY <3>2
    <3>4. vr.round = r + 1  BY <1>2, <2>1 DEF InPlace
    <3> QED  BY <1>3, <3>2, <3>3, <3>4
  <2>5. Beyond(AlgoBlocks, sb.seq, r + 1, 0)
    <3> DEFINE k == sb.seq
    <3>1. Beyond(AlgoBlocks, k, r, Len(AlgoBlocks[r]))  BY <1>2, <2>1, <2>4 DEF RoundAt
    <3> HIDE DEF k, r
    <3>2. Beyond(AlgoBlocks, k, r + 1, 0)  BY <1>1, <2>4, <3>1, NextRound
    <3> QED  BY <3>2 DEF k
  <2>6. InPlace(v, vr'.round) /\ RoundAt(v, vr'.round) = r + 1 /\ Len(v.receipts) = 0
    BY <1>5, <2>1, <2>3, <2>4 DEF InPlace, RoundAt
  <2>7. Continues(AlgoBlocks, v, vr'.round)  BY <2>3, <2>5, <2>6 DEF Continues
  <2> QED  BY <1>6, <2>1, <2>2, <2>7, AloneMove
<1> QED  BY <1>6, <1>7, <1>8, <1>9, <1>10, <1>11 DEF SubStep

\* A relay that starts for the first time subscribes from the first message.
LEMMA AloneStart ==
    ASSUME TypeOK, IconStart, Alone(AlgoBlocks, icon, sub, vr)
    PROVE  Alone(AlgoBlocks, icon', sub', vr')
<1>0. chains \in Chains /\ IconTyped /\ VerifierTyped  BY TypeParts
<1>1. PICK s \in Subs : /\ icon.pc = "start" /\ SubMoves(s, NewSub)
                        /\ UNCHANGED <<vr, delivered>>
                        /\ icon' = [icon EXCEPT !.pc = "run", !.live = s, !.srcMsg = <<>>]
  BY <1>0, StartEffect
<1>2. icon'.live = s /\ icon'.pc = "run"  BY <1>0, <1>1 DEF IconTyped, ToIcon
<1>3. /\ icon.live = 0 /\ icon.rxHeight = 0 /\ icon.rxSeq = 0 /\ vr = NewReceiver
      /\ \A t \in Subs : t # icon.live => sub[t] = NoSub
  BY <1>1 DEF Alone
<1>4. \A t \in Subs : t # 0  BY DEF Subs
<1>5. sub'[s] = NewSub /\ \A t \in Subs : t # s => sub'[t] = NoSub
  BY <1>0, <1>1, <1>3, <1>4 DEF SubMoves, IconTyped
<1>6. vr'.round = VerifierRound  BY <1>1, <1>3 DEF NewReceiver
<1>7. /\ NewSub.pc = "loop" /\ NewSub.height = 0 /\ NewSub.receipts = <<>>
      /\ NewSub.seq = 1 /\ Len(<<>>) = 0
  BY <1>3 DEF NewSub
<1>8. InPlace(NewSub, VerifierRound)  BY <1>7 DEF InPlace
<1>9. Beyond(AlgoBlocks, 1, VerifierRound, 0)
  <2>1. /\ Len(AlgoBlocks) \in Nat /\ DOMAIN AlgoBlocks = 1 .. Len(AlgoBlocks)
        /\ VerifierRound \in 1 .. Len(AlgoBlocks)
    BY <1>0, ChainTypes
  <2> SUFFICES ASSUME NEW q \in 1 .. Len(AlgoBlocks), NEW i \in DOMAIN AlgoBlocks[q],
                      AlgoBlocks[q][i] # 0
               PROVE  AlgoBlocks[q][i] >= 1
                         <=> q > VerifierRound \/ (q = VerifierRound /\ i > 0)
    BY <2>1 DEF Beyond
  <2>2. i \in 1 .. Len(AlgoBlocks[q]) /\ AlgoBlocks[q][i] \in Nat
        /\ Len(AlgoBlocks[q]) \in Nat
    BY <1>0, BlockTypes
  <2>3. q \in Nat /\ q >= VerifierRound
    <3>1. ~(q \in 1 .. VerifierRound - 1)  BY <1>0, <2>2, MessageOrder
    <3> QED  BY <2>1, <3>1
  <2> QED  BY <2>1, <2>2, <2>3
<1>10. RoundAt(NewSub, VerifierRound) = VerifierRound  BY <1>7 DEF RoundAt
<1> HIDE DEF NewSub
<1>11. Continues(AlgoBlocks, NewSub, vr'.round)
  BY <1>6, <1>7, <1>8, <1>9, <1>10 DEF Continues
<1>12. sub'[icon'.live] = NewSub /\ icon'.pc # "start"  BY <1>2, <1>5
<1> QED  BY <1>2, <1>5, <1>11, <1>12 DEF Alone

\* Until something fails no message is left out.
LEMMA NoneNext ==
    ASSUME TypeOK, TypeOK', VerifierMoves, NoneLeftOut, Next
    PROVE  NoneLeftOut'
<1>0. chains \in Chains /\ UNCHANGED chains /\ IconTyped /\ VerifierTyped
  BY TypeParts DEF Next, Step
<1>1. AlgoBlocks' = AlgoBlocks  BY <1>0, SameChains
<1> SUFFICES ASSUME ~failed'
             PROVE  /\ Whole(delivered', icon'.rxSeq, OnTheWay', InHand')
                    /\ Alone(AlgoBlocks, icon', sub', vr')
  BY <1>1, NonePartsNext
<1>2. ~failed
  <2>1. CASE ToIconStep
    <3>1. failed' = TRUE \/ UNCHANGED failed  BY <1>0, <2>1, IconEffect DEF Quiet, Handles
    <3> QED  BY <3>1
  <2>2. CASE ~ToIconStep
    <3>1. failed' = TRUE \/ UNCHANGED failed
      BY <2>2, NotSub DEF SubStep, Crash, IconStart, FetchBlock, CheckParent, UpdateVerifier,
         ExtractSeq, ExtractHeight, ExtractFail, Label, SendReceipts, SendError
    <3> QED  BY <3>1
  <2> QED  BY <2>1, <2>2
<1>3. /\ Whole(delivered, icon.rxSeq, OnTheWay, InHand)
      /\ Alone(AlgoBlocks, icon, sub, vr)
  BY <1>2, NoneParts
<1>4. icon \in ToIcon /\ Range(<<>>) = {}  BY <1>0 DEF IconTyped, Range
<1>5. InHand = IF icon.pc = "start" THEN {} ELSE Range(sub[icon.live].receipts)
  BY DEF InHand
<1>6. InHand' = IF icon'.pc = "start" THEN {} ELSE Range(sub'[icon'.live].receipts)
  BY DEF InHand
<1>7. ~Crash  BY DEF Crash
<1>8. CASE IconStart
  <2>1. Alone(AlgoBlocks, icon', sub', vr')  BY <1>3, <1>8, AloneStart
  <2>2. PICK s \in Subs : /\ SubMoves(s, NewSub) /\ UNCHANGED <<vr, delivered>>
                          /\ icon' = [icon EXCEPT !.pc = "run", !.live = s, !.srcMsg = <<>>]
    BY <1>0, <1>8, StartEffect
  <2>3. /\ icon'.live = s /\ icon'.pc = "run" /\ icon'.srcMsg = <<>>
        /\ icon'.newMsg = icon.newMsg /\ icon'.pool = icon.pool /\ icon'.rxSeq = icon.rxSeq
    BY <1>4, <2>2 DEF ToIcon
  <2>4. sub'[s] = NewSub /\ NewSub.receipts = <<>>
    BY <1>0, <2>2 DEF SubMoves, IconTyped, NewSub
  <2>5. InHand' = {}  BY <1>4, <1>6, <2>3, <2>4
  <2>6. OnTheWay' \subseteq OnTheWay  BY <1>4, <2>3, WayParts, WayPartsNext
  <2> QED  BY <1>3, <2>1, <2>2, <2>3, <2>5, <2>6, WholeLess
<1>9. CASE ToIconStep
  <2>1. /\ IconOnly /\ icon'.live = icon.live /\ OnTheWay' \subseteq OnTheWay
        /\ Quiet \/ \E new : Handles(new)
    BY <1>0, <1>9, IconEffect
  <2>2. UNCHANGED <<sub, vr>>  BY <2>1 DEF IconOnly
  <2>3. icon.pc # "start"
    BY <1>3, <1>9 DEF Alone, ToIconStep, IconRelay, IconReceipt, IconGiveUp, IconExecute,
                      IconTxFail
  <2>4. icon'.pc # "start"  BY <2>1, <2>3 DEF Quiet, Handles
  <2>5. /\ InHand' \subseteq InHand
        /\ Alone(AlgoBlocks, icon', sub', vr')
    BY <1>3, <1>5, <1>6, <2>1, <2>2, <2>3, <2>4 DEF Alone
  <2>6. CASE Quiet
    <3>1. delivered' = delivered /\ icon'.rxSeq = icon.rxSeq  BY <2>6 DEF Quiet
    <3> QED  BY <1>3, <2>1, <2>5, <3>1, WholeLess
  <2>7. ASSUME NEW new, Handles(new)
        PROVE  /\ Whole(delivered', icon'.rxSeq, OnTheWay', InHand')
               /\ Alone(AlgoBlocks, icon', sub', vr')
    <3>1. /\ new \in Seq(Labeled) /\ Range(new) \subseteq OnTheWay
          /\ \A i \in 1 .. Len(new) : new[i].seq = icon.rxSeq + i
          /\ icon'.rxSeq = icon.rxSeq + Len(new)
          /\ delivered' = delivered \o [i \in 1 .. Len(new) |-> new[i].msg]
      BY <2>7 DEF Handles
    <3>2. /\ delivered \in Seq(Nat) /\ icon.rxSeq \in Nat /\ Labeled \subseteq Labels
          /\ new \in Seq(Labels)
      BY <3>1, GrowTypes
    <3>3. \A i \in 1 .. Len(new) : new[i] \in OnTheWay  BY <3>1 DEF Range
    <3>4. Whole(delivered', icon'.rxSeq, OnTheWay, InHand)
      <4> DEFINE W == OnTheWay  H == InHand
      <4>1. Whole(delivered, icon.rxSeq, W, H) /\ \A i \in 1 .. Len(new) : new[i] \in W
        BY <1>3, <3>3
      <4> HIDE DEF W, H
      <4>2. Whole(delivered \o [i \in 1 .. Len(new) |-> new[i].msg], icon.rxSeq + Len(new), W, H)
        BY <3>1, <3>2, <4>1, WholeHandles
      <4> QED  BY <3>1, <4>2 DEF W, H
    <3>5. Whole(delivered', icon'.rxSeq, OnTheWay', InHand')
      BY <2>1, <2>5, <3>4, WholeLess
    <3> QED  BY <2>5, <3>5
  <2> QED  BY <2>1, <2>6, <2>7
<1>10. ASSUME NEW s \in Subs, SubStep(s)
       PROVE  /\ Whole(delivered', icon'.rxSeq, OnTheWay', InHand')
              /\ Alone(AlgoBlocks, icon', sub', vr')
  <2>1. icon.pc # "start" /\ s = icon.live  BY <1>3, <1>10, LiveSteps
  <2>2. InHand = Range(sub[s].receipts)  BY <1>5, <2>1
  <2>3. CASE Label(s)
    <3>1. Continues(AlgoBlocks, sub[s], vr.round)  BY <1>3, <2>1 DEF Alone
    <3>2. /\ UNCHANGED <<icon, delivered, vr>> /\ LabelOf(s).msg = LabelOf(s).seq
          /\ Range(sub'[s].receipts) = Range(sub[s].receipts) \cup {LabelOf(s)}
          /\ \E v : SubMoves(s, v) /\ Continues(AlgoBlocks, v, vr'.round)
      BY <2>3, <3>1, LabelNumber
    <3>3. OnTheWay' = OnTheWay  BY <3>2, WayParts, WayPartsNext
    <3>4. InHand' = InHand \cup {LabelOf(s)}  BY <1>6, <2>1, <2>2, <3>2
    <3>5. Whole(delivered', icon'.rxSeq, OnTheWay', InHand')
      BY <1>3, <3>2, <3>3, <3>4 DEF Whole
    <3> QED  BY <1>3, <2>1, <3>2, <3>5, AloneMove
  <2>4. CASE ~Label(s)
    <3>1. Alone(AlgoBlocks, icon', sub', vr') /\ ~SendError(s)
      BY <1>3, <1>10, <2>1, <2>4, AloneSub
    <3>2. CASE SendReceipts(s)
      <4>1. /\ icon.pc = "run" /\ icon' = [icon EXCEPT !.srcMsg = icon.srcMsg \o sub[s].receipts]
            /\ UNCHANGED delivered
            /\ sub' = [sub EXCEPT ![s].pc = "loop", ![s].round = 0, ![s].receipts = <<>>]
        BY <3>2 DEF SendReceipts
      <4>2. /\ icon'.srcMsg = icon.srcMsg \o sub[s].receipts /\ icon'.newMsg = icon.newMsg
            /\ icon'.pool = icon.pool /\ icon'.rxSeq = icon.rxSeq /\ icon'.live = s
        BY <1>4, <2>1, <4>1 DEF ToIcon
      <4>3. sub'[s].receipts = <<>>  BY <1>0, <4>1 DEF IconTyped, FromAlgo
      <4>4. InHand' = {}  BY <1>4, <1>6, <4>2, <4>3
      <4>5. Range(icon.srcMsg \o sub[s].receipts) = Range(icon.srcMsg) \cup InHand
        <5>1. icon.srcMsg \in Seq(Labeled) /\ sub[s].receipts \in Seq(Labeled)
          BY <1>0, ToIconFields, SubFields
        <5> QED  BY <2>2, <5>1, RangeConcat
      <4>6. OnTheWay' \subseteq OnTheWay \cup InHand
        BY <4>2, <4>5, WayParts, WayPartsNext
      <4> QED  BY <1>3, <3>1, <4>1, <4>2, <4>4, <4>6, WholeLess
    <3>3. CASE ~SendReceipts(s)
      <4>1. UNCHANGED <<icon, delivered>>
        BY <1>10, <2>4, <3>1, <3>3 DEF SubStep, FetchBlock, CheckParent, UpdateVerifier,
           ExtractSeq, ExtractHeight, ExtractFail
      <4>2. OnTheWay' = OnTheWay  BY <4>1, WayParts, WayPartsNext
      <4>3. ~IconStart  BY <2>1 DEF IconStart
      <4>4. InHand' \subseteq InHand
        <5>1. Range(sub'[s].receipts) \subseteq Range(sub[s].receipts)
          BY <1>7, <2>4, <4>3, LiveNext
        <5> QED  BY <1>6, <2>1, <2>2, <4>1, <5>1
      <4> QED  BY <1>3, <3>1, <4>1, <4>2, <4>4, WholeLess
    <3> QED  BY <3>2, <3>3
  <2> QED  BY <2>3, <2>4
<1>11. CASE UNCHANGED a2i
  <2>1. UNCHANGED <<icon, sub, delivered, vr>>  BY <1>11 DEF a2i
  <2>2. OnTheWay' = OnTheWay /\ InHand' = InHand
    BY <1>5, <1>6, <2>1, WayParts, WayPartsNext
  <2> QED  BY <1>3, <2>1, <2>2
<1> QED  BY <1>7, <1>8, <1>9, <1>10, <1>11, NotSub

-----------------------------------------------------------------------------
(* The invariant, and what follows from it.                                *)

\* The file is set up with zeros and the process starts with an empty queue.
LEMMA AlgoInit == Init => AlgoInv
<1> SUFFICES ASSUME Init PROVE AlgoInv  OBVIOUS
<1> DEFINE d == [rx_seq |-> 0, rx_height |-> 0, tx_seq |-> 0, tx_height |-> 0]
<1>0. /\ chains \in Chains /\ file = d /\ access = [p \in Procs |-> NoAccess]
      /\ algo = Stopped /\ executed = <<>>
      /\ icon = [pc |-> "start", live |-> 0, srcMsg |-> <<>>, newMsg |-> <<>>,
                 pool |-> {}, rxSeq |-> 0, rxHeight |-> 0]
      /\ vr = NewReceiver /\ sub = [s \in Subs |-> NoSub] /\ delivered = <<>>
      /\ races = 0 /\ failed = FALSE /\ faults = 0
  BY DEF Init
<1>1. TypeOK
  <2>1. /\ Len(AlgoBlocks) \in Nat /\ MaxSubs \in Nat /\ MaxSubs >= 1 /\ MaxFaults \in Nat
        /\ VerifierRound \in Nat /\ VerifierRound >= 1 /\ VerifierRound <= Len(AlgoBlocks)
    BY <1>0, ChainTypes
  <2>2. FileTyped
    <3>1. d \in Status  BY <2>1 DEF Status
    <3>2. NoAccess \in [st : {"none", "read", "truncated"}, data : Status \cup {NoStatus}]
          /\ NoAccess.st = "none"
      BY DEF NoAccess
    <3>3. 0 \in 0 .. MaxFaults  BY <2>1
    <3> HIDE DEF d
    <3> QED  BY <1>0, <3>1, <3>2, <3>3 DEF FileTyped
  <2>3. AlgoTyped  BY <1>0, StoppedType DEF AlgoTyped
  <2>4. VerifierTyped
    <3>1. VerifierRound \in VerifierRound .. Len(AlgoBlocks) + MaxSubs - 1
          /\ VerifierRound - 1 \in 0 .. Len(AlgoBlocks)
      BY <2>1
    <3> QED  BY <1>0, <3>1 DEF VerifierTyped, NewReceiver
  <2>5. IconTyped
    <3>1. NoSub \in FromAlgo  BY <2>1 DEF NoSub, FromAlgo
    <3>2. icon \in ToIcon  BY <1>0, <2>1 DEF ToIcon
    <3>3. delivered \in Seq(Messages)  BY <1>0
    <3>4. sub \in [Subs -> FromAlgo]  BY <1>0, <3>1
    <3>5. failed \in BOOLEAN  BY <1>0, Zenon
    <3> QED  BY <3>2, <3>3, <3>4, <3>5 DEF IconTyped
  <2>6. faults \in 0 .. MaxFaults  BY <1>0, <2>1
  <2> QED  BY <1>0, <2>2, <2>3, <2>4, <2>5, <2>6, TypeParts
<1>2. FileSound
  <2>1. Held(d)
    <3>1. d \in Status  BY <1>0, ChainTypes DEF Status
    <3>2. NoAccess.st = "none"  BY DEF NoAccess
    <3> HIDE DEF d
    <3> QED  BY <1>0, <3>1, <3>2 DEF Held
  <2>2. Counted(d)
    <3>1. algo.pc = "start" /\ d.rx_seq = 0 /\ DOMAIN executed = {}  BY <1>0 DEF Stopped
    <3>2. 1 .. d.rx_seq = {}  BY <3>1
    <3> HIDE DEF d
    <3> QED  BY <3>1, <3>2 DEF Counted, InTurn
  <2> HIDE DEF d
  <2> QED  BY <1>1, <2>1, <2>2, FileParts
<1>3. VerifierMoves
  <2>1. \A s \in Subs : sub[s].pc = "done"  BY <1>0 DEF NoSub
  <2>2. InFlight = {}  BY <2>1 DEF InFlight
  <2>3. Cardinality(InFlight) = 0  BY <2>2, FS_EmptySet
  <2>4. /\ Len(AlgoBlocks) \in Nat /\ MaxSubs \in Nat /\ MaxSubs >= 1
        /\ VerifierRound \in Nat /\ VerifierRound <= Len(AlgoBlocks)
    BY <1>0, ChainTypes
  <2>5. vr.round = VerifierRound  BY <1>0 DEF NewReceiver
  <2>6. vr.round + Cardinality(InFlight) <= Len(AlgoBlocks) + MaxSubs - 1
    BY <2>3, <2>4, <2>5
  <2>7. \A s \in Subs : InStep(s)  BY <2>1 DEF InStep
  <2> QED  BY <2>6, <2>7, MovesParts
<1>4. /\ icon.pc = "start" /\ icon.live = 0 /\ icon.rxHeight = 0 /\ icon.rxSeq = 0
      /\ icon.pool = {} /\ Len(delivered) = 0 /\ OnTheWay = {} /\ InHand = {}
  <2>1. /\ icon.pc = "start" /\ icon.live = 0 /\ icon.rxHeight = 0 /\ icon.rxSeq = 0
        /\ icon.pool = {} /\ Len(delivered) = 0 /\ icon.srcMsg = <<>> /\ icon.newMsg = <<>>
    BY <1>0
  <2>2. Range(<<>>) = {}  BY DEF Range
  <2> QED  BY <2>1, <2>2, WayParts DEF InHand
<1>5. LabelsGrow
  <2>1. Held(d) /\ d.tx_seq = 0
    <3>1. d \in Status  BY <1>0, ChainTypes DEF Status
    <3>2. NoAccess.st = "none"  BY DEF NoAccess
    <3>3. d.tx_seq = 0  OBVIOUS
    <3> HIDE DEF d
    <3> QED  BY <1>0, <3>1, <3>2, <3>3 DEF Held
  <2> HIDE DEF d
  <2>2. Ordered(AlgoBlocks, delivered, icon.rxHeight)  BY <1>4 DEF Ordered
  <2>3. Pending(AlgoBlocks, delivered, icon.rxSeq, OnTheWay, InHand, d.tx_seq)
    BY <1>4, <2>1 DEF Pending
  <2> QED  BY <1>0, <1>1, <1>4, <2>1, <2>2, <2>3, GrowParts
<1>6. NoneLeftOut
  <2>1. Whole(delivered, icon.rxSeq, OnTheWay, InHand)  BY <1>4 DEF Whole
  <2>2. Alone(AlgoBlocks, icon, sub, vr)  BY <1>0, <1>4 DEF Alone
  <2> QED  BY <1>1, <2>1, <2>2, NoneParts
<1> QED  BY <1>1, <1>2, <1>3, <1>5, <1>6 DEF AlgoInv

\* A step that changes nothing keeps the invariant.
LEMMA AlgoStutter ==
    ASSUME AlgoInv, UNCHANGED vars
    PROVE  AlgoInv'
<1>1. /\ UNCHANGED chains /\ UNCHANGED <<file, access, races, algo, executed>>
      /\ UNCHANGED <<icon, vr, sub, delivered, failed, faults>>
      /\ TypeOK /\ FileSound /\ VerifierMoves /\ LabelsGrow /\ NoneLeftOut
  BY DEF vars, i2a, a2i, AlgoInv
<1>2. /\ AlgoBlocks' = AlgoBlocks /\ MaxEvents' = MaxEvents /\ Messages' = Messages
      /\ Status' = Status /\ ToAlgo' = ToAlgo /\ ToIcon' = ToIcon /\ FromAlgo' = FromAlgo
  BY <1>1, SameChains
<1>3. TypeOK'  BY <1>1, <1>2 DEF TypeOK
<1>4. FileSound'  BY <1>1 DEF FileSound, NoEventSkipped, Contents
<1>5. VerifierMoves'  BY <1>1, <1>2 DEF VerifierMoves, BlockInHand
<1>6. OnTheWay' = OnTheWay /\ InHand' = InHand /\ Contents' = Contents
  BY <1>1 DEF OnTheWay, InHand, Contents
<1>7. LabelsGrow'
  BY <1>1, <1>2, <1>6 DEF LabelsGrow, DeliveredInOrder, Before, FirstOpen, RoundOf, NextLabel
<1>8. NoneLeftOut'  BY <1>1, <1>2, <1>6 DEF NoneLeftOut, DeliveredComplete, RoundOf
<1> QED  BY <1>3, <1>4, <1>5, <1>7, <1>8 DEF AlgoInv

\* Every step keeps the invariant.
LEMMA AlgoNext ==
    ASSUME AlgoInv, [Next]_vars
    PROVE  AlgoInv'
<1>1. CASE Next
  <2>1. TypeOK /\ FileSound /\ VerifierMoves /\ LabelsGrow /\ NoneLeftOut  BY DEF AlgoInv
  <2>2. TypeOK'  BY <1>1, <2>1, TypeNext
  <2>3. FileSound'  BY <1>1, <2>1, <2>2, FileSoundNext
  <2>4. VerifierMoves'  BY <1>1, <2>1, MovesNext
  <2>5. LabelsGrow'  BY <1>1, <2>1, <2>2, GrowNext
  <2>6. NoneLeftOut'  BY <1>1, <2>1, <2>2, NoneNext
  <2> QED  BY <2>2, <2>3, <2>4, <2>5, <2>6 DEF AlgoInv
<1>2. CASE UNCHANGED vars  BY <1>2, AlgoStutter
<1> QED  BY <1>1, <1>2

\* The invariant of the link to Algorand holds in every state, for every pair
\* of chains, every limit of a group, any number of subscriptions that are
\* left over from failed ones, calls that fail and restarts: while the
\* accesses of linkStatus.json do not meet, rx_seq counts only events that
\* Algorand was called with, and of the messages to ICON that were not handled
\* yet, at the relay or in transactions it gave up, one with a higher label is
\* a later message; each subscription moves the shared verifier once for a
\* block; and until something fails the labels are the messages' own numbers.
THEOREM AlgoInvariant == Spec => []AlgoInv
<1>1. Init => AlgoInv  BY AlgoInit
<1>2. AlgoInv /\ [Next]_vars => AlgoInv'  BY AlgoNext
<1> QED  BY <1>1, <1>2, PTL DEF Spec

\* The variables keep their types: the round of the receiver's verifier, which
\* all subscriptions move without a lock, never runs further ahead of the
\* chain than there are subscriptions, and no segment is empty.
THEOREM AlgoTypeCorrect == Spec => []TypeOK
<1>1. AlgoInv => TypeOK  BY DEF AlgoInv
<1> QED  BY <1>1, AlgoInvariant, PTL

\* As long as the accesses of the file do not meet, Algorand's BMC was called
\* with every event that rx_seq counts, and with none before the one that
\* precedes it, although Receipt counts a whole group of calls as one event
\* and Send may be repeated after it took effect.
THEOREM NoneGivenUp == Spec => []NoEventSkipped
<1>1. AlgoInv => NoEventSkipped  BY DEF AlgoInv, FileSound, NoEventSkipped
<1> QED  BY <1>1, AlgoInvariant, PTL

\* As long as the accesses of the file do not meet, ICON's BMC never handles a
\* message of Algorand twice or after a later one, whatever old subscriptions
\* do to the verifier and to the file, wherever the process is restarted, and
\* however late a transaction is executed that the relay sent before.
THEOREM HandledInOrder == Spec => []DeliveredInOrder
<1>1. AlgoInv => DeliveredInOrder  BY DEF AlgoInv, LabelsGrow, DeliveredInOrder
<1> QED  BY <1>1, AlgoInvariant, PTL

\* Until a subscription fails or the process is restarted, ICON's BMC handles
\* every message of Algorand under the number that Algorand gave it, whatever
\* the file says and whichever transactions are lost, repeated or late.
THEOREM HandledComplete == Spec => []DeliveredComplete
<1>1. AlgoInv => DeliveredComplete  BY DEF AlgoInv, NoneLeftOut, DeliveredComplete
<1> QED  BY <1>1, AlgoInvariant, PTL
=============================================================================
