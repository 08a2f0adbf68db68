-------------------------- MODULE BTSBridge_proofs --------------------------
(***************************************************************************)
(* Proofs about BTSTransfer: between the two chains.  Each pending request *)
(* is decided by one message on the way, and what one BTS holds of a coin  *)
(* is what both of them owe.                                               *)
(***************************************************************************)
EXTENDS BTSTransfer_proofs

-----------------------------------------------------------------------------
\* How a step rearranges the messages: chain c takes the first t messages to
\* it (none or one) and sends n messages m (none or one) to the other chain.

Shift(c, t, d, j) == IF d = c THEN j + t ELSE j

NewPlace(c) == Len(chan[Other(c)]) + 1

Rearranged(c, t, n, m) ==
    /\ \A d \in Chains : DOMAIN chan[d] \subseteq Nat \ {0} /\ DOMAIN chan'[d] \subseteq Nat \ {0}
    /\ \A d \in Chains : \A j \in DOMAIN chan'[d] :
        \/ n = 1 /\ d = Other(c) /\ j = NewPlace(c) /\ chan'[d][j] = m
        \/ Shift(c, t, d, j) \in DOMAIN chan[d] /\ chan'[d][j] = chan[d][Shift(c, t, d, j)]
    /\ \A d \in Chains : \A i \in DOMAIN chan[d] : (d = c => i > t) =>
        \E j \in DOMAIN chan'[d] : Shift(c, t, d, j) = i /\ chan'[d][j] = chan[d][i]
    /\ n = 1 => /\ NewPlace(c) \in DOMAIN chan'[Other(c)]
                /\ chan'[Other(c)][NewPlace(c)] = m
    /\ NewPlace(c) \notin DOMAIN chan[Other(c)]

\* The places of a channel after a message is sent on it.
LEMMA AppendPlaces ==
    ASSUME NEW S, NEW s \in Seq(S), NEW m \in S, NEW s2, s2 = s \o <<m>>
    PROVE  /\ DOMAIN s = 1 .. Len(s) /\ DOMAIN s2 = 1 .. Len(s) + 1 /\ Len(s) \in Nat
           /\ s2[Len(s) + 1] = m
           /\ \A i \in 1 .. Len(s) : s2[i] = s[i]
<1>1. <<m>> \in Seq(S) /\ Len(<<m>>) = 1 /\ <<m>>[1] = m  OBVIOUS
<1>2. /\ s2 \in Seq(S) /\ Len(s2) = Len(s) + 1
      /\ \A i \in 1 .. Len(s) + 1 : s2[i] = IF i <= Len(s) THEN s[i] ELSE <<m>>[i - Len(s)]
  BY <1>1, ConcatProperties
<1>3. Len(s) \in Nat /\ DOMAIN s = 1 .. Len(s) /\ DOMAIN s2 = 1 .. Len(s2)  BY <1>2, LenProperties
<1> QED  BY <1>1, <1>2, <1>3

\* The places of a channel whose first message is taken.
LEMMA TailPlaces ==
    ASSUME NEW S, NEW s \in Seq(S), s # <<>>
    PROVE  /\ DOMAIN s = 1 .. Len(s) /\ Len(s) \in Nat /\ Len(s) >= 1
           /\ DOMAIN Tail(s) = 1 .. Len(s) - 1 /\ Head(s) = s[1]
           /\ \A i \in 1 .. Len(s) - 1 : Tail(s)[i] = s[i + 1]
<1>1. Tail(s) \in Seq(S) /\ Len(Tail(s)) = Len(s) - 1
      /\ \A i \in 1 .. Len(Tail(s)) : Tail(s)[i] = s[i + 1]
  BY HeadTailProperties
<1>2. Len(s) \in Nat /\ DOMAIN s = 1 .. Len(s) /\ DOMAIN Tail(s) = 1 .. Len(Tail(s))
  BY <1>1, LenProperties
<1>3. Len(s) # 0  BY EmptySeq, LenProperties
<1>4. Head(s) = s[1]  BY DEF Head
<1> QED  BY <1>1, <1>2, <1>3, <1>4

\* A BTS that sends one message adds one place to the other channel.
LEMMA SentPlaces ==
    ASSUME TypeOK, NEW c \in Chains, NEW m \in Message, chan' = Sent(c, <<m>>)
    PROVE  Rearranged(c, 0, 1, m)
<1> DEFINE o == Other(c)
<1>1. o \in Chains /\ o # c /\ \A d \in Chains : d = c \/ d = o  BY OtherChain
<1>2. chan[c] \in Seq(Message) /\ chan[o] \in Seq(Message)  BY <1>1 DEF TypeOK
<1>3. chan'[c] = chan[c] /\ chan'[o] = chan[o] \o <<m>>  BY <1>1 DEF Sent, TypeOK
<1>4. /\ DOMAIN chan[o] = 1 .. Len(chan[o]) /\ DOMAIN chan'[o] = 1 .. Len(chan[o]) + 1
      /\ Len(chan[o]) \in Nat
      /\ chan'[o][Len(chan[o]) + 1] = m
      /\ \A i \in 1 .. Len(chan[o]) : chan'[o][i] = chan[o][i]
  BY <1>2, <1>3, AppendPlaces
<1>5. DOMAIN chan[c] = 1 .. Len(chan[c]) /\ Len(chan[c]) \in Nat  BY <1>2, LenProperties
<1>6. NewPlace(c) = Len(chan[o]) + 1  BY DEF NewPlace
<1>7. ASSUME NEW d \in Chains
      PROVE  DOMAIN chan[d] \subseteq Nat \ {0} /\ DOMAIN chan'[d] \subseteq Nat \ {0}
  BY <1>1, <1>3, <1>4, <1>5
<1>8. ASSUME NEW d \in Chains, NEW j \in DOMAIN chan'[d]
      PROVE  \/ d = Other(c) /\ j = NewPlace(c) /\ chan'[d][j] = m
             \/ Shift(c, 0, d, j) \in DOMAIN chan[d] /\ chan'[d][j] = chan[d][Shift(c, 0, d, j)]
  <2>1. Shift(c, 0, d, j) = j  BY <1>7 DEF Shift
  <2> QED  BY SMTT(20), <1>1, <1>3, <1>4, <1>6, <2>1
<1>9. ASSUME NEW d \in Chains, NEW i \in DOMAIN chan[d]
      PROVE  \E j \in DOMAIN chan'[d] : Shift(c, 0, d, j) = i /\ chan'[d][j] = chan[d][i]
  <2>1. Shift(c, 0, d, i) = i  BY <1>7 DEF Shift
  <2>2. i \in DOMAIN chan'[d] /\ chan'[d][i] = chan[d][i]  BY <1>1, <1>3, <1>4
  <2> QED  BY <2>1, <2>2
<1>10. /\ NewPlace(c) \in DOMAIN chan'[o] /\ chan'[o][NewPlace(c)] = m
       /\ NewPlace(c) \notin DOMAIN chan[o]
  BY <1>4, <1>6
<1> QED  BY <1>7, <1>8, <1>9, <1>10 DEF Rearranged

\* A BTS that handles a message takes the first place of its channel, and
\* adds at most one to the other one.
LEMMA HandledPlaces ==
    ASSUME TypeOK, NEW c \in Chains, chan[c] # <<>>, NEW m \in Message,
           NEW n \in {0, 1}, chan' = Handled(c, IF n = 1 THEN <<m>> ELSE <<>>)
    PROVE  Rearranged(c, 1, n, m) /\ 1 \in DOMAIN chan[c] /\ Head(chan[c]) = chan[c][1]
<1> DEFINE o == Other(c)
<1>1. o \in Chains /\ o # c /\ \A d \in Chains : d = c \/ d = o  BY OtherChain
<1>2. chan[c] \in Seq(Message) /\ chan[o] \in Seq(Message)  BY <1>1 DEF TypeOK
<1>3. chan'[c] = Tail(chan[c]) /\ chan'[o] = chan[o] \o (IF n = 1 THEN <<m>> ELSE <<>>)
  BY <1>1 DEF Handled, TypeOK
<1>4. /\ DOMAIN chan[o] = 1 .. Len(chan[o]) /\ Len(chan[o]) \in Nat
      /\ \A i \in 1 .. Len(chan[o]) : chan'[o][i] = chan[o][i]
      /\ n = 1 => DOMAIN chan'[o] = 1 .. Len(chan[o]) + 1 /\ chan'[o][Len(chan[o]) + 1] = m
      /\ n = 0 => DOMAIN chan'[o] = 1 .. Len(chan[o])
  <2>1. CASE n = 1  BY <1>2, <1>3, <2>1, AppendPlaces
  <2>2. CASE n = 0
    <3>1. chan'[o] = chan[o] \o <<>>  BY <1>3, <2>2
    <3>2. chan'[o] = chan[o]  BY <1>2, <3>1, ConcatEmptySeq
    <3> QED  BY <1>2, <2>2, <3>2, LenProperties
  <2> QED  BY <2>1, <2>2
<1>5. /\ DOMAIN chan[c] = 1 .. Len(chan[c]) /\ Len(chan[c]) \in Nat /\ Len(chan[c]) >= 1
      /\ DOMAIN chan'[c] = 1 .. Len(chan[c]) - 1 /\ Head(chan[c]) = chan[c][1]
      /\ \A i \in 1 .. Len(chan[c]) - 1 : chan'[c][i] = chan[c][i + 1]
  BY <1>2, <1>3, TailPlaces
<1>6. NewPlace(c) = Len(chan[o]) + 1  BY DEF NewPlace
<1>7. ASSUME NEW d \in Chains
      PROVE  DOMAIN chan[d] \subseteq Nat \ {0} /\ DOMAIN chan'[d] \subseteq Nat \ {0}
  BY <1>1, <1>4, <1>5
<1>8. ASSUME NEW d \in Chains, NEW j \in DOMAIN chan'[d]
      PROVE  \/ n = 1 /\ d = Other(c) /\ j = NewPlace(c) /\ chan'[d][j] = m
             \/ Shift(c, 1, d, j) \in DOMAIN chan[d] /\ chan'[d][j] = chan[d][Shift(c, 1, d, j)]
  <2>1. CASE d = c
    <3>1. Shift(c, 1, d, j) = j + 1 /\ j \in 1 .. Len(chan[c]) - 1  BY <1>5, <2>1 DEF Shift
    <3>2. j + 1 \in 1 .. Len(chan[c])  BY <1>5, <3>1
    <3> QED  BY <1>5, <2>1, <3>1, <3>2
  <2>2. CASE d = o
    <3>1. Shift(c, 1, d, j) = j  BY <1>1, <2>2 DEF Shift
    <3> QED  BY <1>4, <1>6, <2>2, <3>1
  <2> QED  BY <1>1, <2>1, <2>2
<1>9. ASSUME NEW d \in Chains, NEW i \in DOMAIN chan[d], d = c => i > 1
      PROVE  \E j \in DOMAIN chan'[d] : Shift(c, 1, d, j) = i /\ chan'[d][j] = chan[d][i]
  <2>1. CASE d = c
    <3>1. i - 1 \in 1 .. Len(chan[c]) - 1 /\ (i - 1) + 1 = i  BY <1>5, <1>9, <2>1
    <3>2. Shift(c, 1, d, i - 1) = i  BY <2>1, <3>1 DEF Shift
    <3>3. i - 1 \in DOMAIN chan'[d] /\ chan'[d][i - 1] = chan[d][i]  BY <1>5, <2>1, <3>1
    <3> QED  BY <3>2, <3>3
  <2>2. CASE d = o
    <3>1. Shift(c, 1, d, i) = i  BY <1>1, <2>2 DEF Shift
    <3>2. i \in DOMAIN chan'[d] /\ chan'[d][i] = chan[d][i]  BY <1>4, <2>2
    <3> QED  BY <3>1, <3>2
  <2> QED  BY <1>1, <2>1, <2>2
<1>10. /\ n = 1 => NewPlace(c) \in DOMAIN chan'[o] /\ chan'[o][NewPlace(c)] = m
       /\ NewPlace(c) \notin DOMAIN chan[o]
  BY <1>4, <1>6
<1>11. Rearranged(c, 1, n, m)  BY <1>7, <1>8, <1>9, <1>10 DEF Rearranged
<1> QED  BY <1>5, <1>11

-----------------------------------------------------------------------------
\* One message decides each pending request, and no other.

Decided == DecidedOnce /\ DecidesPending /\ PendingDecided

\* A message that stays on the way decides what it decided, and comes from a
\* place of its own.
LEMMA OldPlace ==
    ASSUME NEW c \in Chains, NEW t \in {0, 1}, NEW n \in {0, 1}, NEW m, Rearranged(c, t, n, m),
           NEW d \in Chains, NEW j \in DOMAIN chan'[d],
           ~(n = 1 /\ d = Other(c) /\ j = NewPlace(c))
    PROVE  /\ Shift(c, t, d, j) \in DOMAIN chan[d]
           /\ chan'[d][j] = chan[d][Shift(c, t, d, j)]
           /\ t = 1 /\ d = c => Shift(c, t, d, j) # 1
           /\ Deciding(d, j)' <=> Deciding(d, Shift(c, t, d, j))
<1>1. /\ Shift(c, t, d, j) \in DOMAIN chan[d]
      /\ chan'[d][j] = chan[d][Shift(c, t, d, j)]
  BY DEF Rearranged
<1>2. j \in Nat \ {0}  BY DEF Rearranged
<1> QED  BY <1>1, <1>2 DEF Shift, Deciding

\* Two places of a channel come from two places before the step.
LEMMA ShiftInjective ==
    ASSUME NEW c \in Chains, NEW t \in {0, 1}, NEW n, NEW m, Rearranged(c, t, n, m),
           NEW d \in Chains, NEW i \in DOMAIN chan'[d], NEW j \in DOMAIN chan'[d],
           Shift(c, t, d, i) = Shift(c, t, d, j)
    PROVE  i = j
<1>1. i \in Nat /\ j \in Nat  BY DEF Rearranged
<1> QED  BY <1>1 DEF Shift

\* DecidedOnce is kept when what the new message decides was decided by the
\* message that is taken, or by none.
LEMMA StillDecidedOnce ==
    ASSUME DecidedOnce, NEW c \in Chains, NEW t \in {0, 1}, NEW n \in {0, 1}, NEW m,
           Rearranged(c, t, n, m),
           n = 1 /\ m.type # "gather" =>
                \A d \in Chains : \A i \in DOMAIN chan[d] :
                    Deciding(d, i) /\ Decides(d, chan[d][i]) = Decides(Other(c), m)
                        => t = 1 /\ d = c /\ i = 1
    PROVE  DecidedOnce'
<1> SUFFICES ASSUME NEW d \in Chains, NEW e \in Chains,
                    NEW i \in DOMAIN chan'[d], NEW j \in DOMAIN chan'[e],
                    Deciding(d, i)', Deciding(e, j)',
                    Decides(d, chan'[d][i]) = Decides(e, chan'[e][j])
             PROVE  d = e /\ i = j
  BY DEF DecidedOnce, Decides
<1> DEFINE New(f, k) == n = 1 /\ f = Other(c) /\ k = NewPlace(c)
<1>1. ASSUME NEW f \in Chains, NEW k \in DOMAIN chan'[f], New(f, k), Deciding(f, k)'
      PROVE  chan'[f][k] = m /\ m.type # "gather"
  BY <1>1 DEF Rearranged, Deciding
<1>2. ASSUME NEW f \in Chains, NEW k \in DOMAIN chan'[f], ~New(f, k), Deciding(f, k)',
             n = 1, m.type # "gather"
      PROVE  Decides(f, chan'[f][k]) # Decides(Other(c), m)
  <2>1. /\ Shift(c, t, f, k) \in DOMAIN chan[f] /\ chan'[f][k] = chan[f][Shift(c, t, f, k)]
        /\ t = 1 /\ f = c => Shift(c, t, f, k) # 1
        /\ Deciding(f, Shift(c, t, f, k))
    BY <1>2, OldPlace
  <2> QED  BY <1>2, <2>1
<1>3. CASE New(d, i) /\ New(e, j)  BY <1>3
<1>4. CASE New(d, i) /\ ~New(e, j)  BY <1>1, <1>2, <1>4
<1>5. CASE ~New(d, i) /\ New(e, j)  BY <1>1, <1>2, <1>5
<1>6. CASE ~New(d, i) /\ ~New(e, j)
  <2>1. /\ Shift(c, t, d, i) \in DOMAIN chan[d] /\ chan'[d][i] = chan[d][Shift(c, t, d, i)]
        /\ Deciding(d, Shift(c, t, d, i))
    BY <1>6, OldPlace
  <2>2. /\ Shift(c, t, e, j) \in DOMAIN chan[e] /\ chan'[e][j] = chan[e][Shift(c, t, e, j)]
        /\ Deciding(e, Shift(c, t, e, j))
    BY <1>6, OldPlace
  <2>3. d = e /\ Shift(c, t, d, i) = Shift(c, t, e, j)  BY <2>1, <2>2 DEF DecidedOnce
  <2> QED  BY <2>3, ShiftInjective
<1> QED  BY <1>3, <1>4, <1>5, <1>6

\* A message that stays on the way decides a request that stays.
StillDecides(d, i) ==
    \E e \in Chains : \E q \in requests'[e] :
        /\ Decides(d, chan[d][i]) = <<e, q.sn>>
        /\ chan[d][i].type = "request" => q.assets = chan[d][i].assets

\* Every message still decides about a pending request if the old ones do and
\* the new one does.
LEMMA StillDecidesPending ==
    ASSUME NEW c \in Chains, NEW t \in {0, 1}, NEW n \in {0, 1}, NEW m,
           Rearranged(c, t, n, m),
           \A d \in Chains : \A i \in DOMAIN chan[d] :
                Deciding(d, i) /\ ~(t = 1 /\ d = c /\ i = 1) => StillDecides(d, i),
           n = 1 /\ m.type # "gather" =>
                \E e \in Chains : \E q \in requests'[e] :
                    /\ Decides(Other(c), m) = <<e, q.sn>>
                    /\ m.type = "request" => q.assets = m.assets
    PROVE  DecidesPending'
<1> SUFFICES ASSUME NEW d \in Chains, NEW j \in DOMAIN chan'[d], Deciding(d, j)'
             PROVE  \E e \in Chains : \E q \in requests'[e] :
                        /\ Decides(d, chan'[d][j]) = <<e, q.sn>>
                        /\ chan'[d][j].type = "request" => q.assets = chan'[d][j].assets
  BY DEF DecidesPending, Decides
<1>1. CASE n = 1 /\ d = Other(c) /\ j = NewPlace(c)
  <2>1. chan'[d][j] = m /\ m.type # "gather"  BY <1>1 DEF Rearranged, Deciding
  <2> QED  BY <1>1, <2>1
<1>2. CASE ~(n = 1 /\ d = Other(c) /\ j = NewPlace(c))
  <2>1. /\ Shift(c, t, d, j) \in DOMAIN chan[d] /\ chan'[d][j] = chan[d][Shift(c, t, d, j)]
        /\ t = 1 /\ d = c => Shift(c, t, d, j) # 1
        /\ Deciding(d, Shift(c, t, d, j))
    BY <1>2, OldPlace
  <2>2. StillDecides(d, Shift(c, t, d, j))  BY <2>1
  <2> QED  BY <2>1, <2>2 DEF StillDecides
<1> QED  BY <1>1, <1>2

\* A request that is decided by a message that stays, or by the new one.
LEMMA StillPendingDecided ==
    ASSUME NEW c \in Chains, NEW t \in {0, 1}, NEW n \in {0, 1}, NEW m,
           Rearranged(c, t, n, m),
           \A e \in Chains : \A q \in requests'[e] :
                \/ n = 1 /\ m.type # "gather" /\ Decides(Other(c), m) = <<e, q.sn>>
                \/ \E d \in Chains : \E i \in DOMAIN chan[d] :
                        /\ Deciding(d, i) /\ Decides(d, chan[d][i]) = <<e, q.sn>>
                        /\ d = c => i > t
    PROVE  PendingDecided'
<1> SUFFICES ASSUME NEW e \in Chains, NEW q \in requests'[e]
             PROVE  \E d \in Chains : \E j \in DOMAIN chan'[d] :
                        Deciding(d, j)' /\ Decides(d, chan'[d][j]) = <<e, q.sn>>
  BY DEF PendingDecided, Decides
<1>1. CASE n = 1 /\ m.type # "gather" /\ Decides(Other(c), m) = <<e, q.sn>>
  <2>1. Other(c) \in Chains  BY OtherChain
  <2>2. PICK p \in DOMAIN chan'[Other(c)] : chan'[Other(c)][p] = m  BY <1>1 DEF Rearranged
  <2>3. Deciding(Other(c), p)'  BY <1>1, <2>2 DEF Deciding
  <2> QED  BY <1>1, <2>1, <2>2, <2>3
<1>2. ASSUME NEW d \in Chains, NEW i \in DOMAIN chan[d],
             Deciding(d, i), Decides(d, chan[d][i]) = <<e, q.sn>>, d = c => i > t
      PROVE  \E f \in Chains : \E j \in DOMAIN chan'[f] :
                Deciding(f, j)' /\ Decides(f, chan'[f][j]) = <<e, q.sn>>
  <2>1. PICK j \in DOMAIN chan'[d] : chan'[d][j] = chan[d][i]  BY <1>2 DEF Rearranged
  <2>2. Deciding(d, j)'  BY <1>2, <2>1 DEF Deciding
  <2> QED  BY <1>2, <2>1, <2>2
<1> QED  BY <1>1, <1>2

\* The message says that the request with this number was paid.
IsOk(x, sn) == x.type = "response" /\ x.sn = sn /\ x.code = "RC_OK"

\* A request stays accepted, or not, when no RC_OK about it is sent or taken.
LEMMA StillAccepted ==
    ASSUME NEW c \in Chains, NEW t \in {0, 1}, NEW n \in {0, 1}, NEW m, Rearranged(c, t, n, m),
           NEW d \in Chains, NEW q,
           n = 1 /\ d = Other(c) => ~IsOk(m, q.sn),
           t = 1 /\ d = c => ~IsOk(chan[c][1], q.sn)
    PROVE  Accepted(d, q)' <=> Accepted(d, q)
<1>1. ASSUME Accepted(d, q)' PROVE Accepted(d, q)
  <2>1. PICK j \in DOMAIN chan'[d] : IsOk(chan'[d][j], q.sn)  BY <1>1 DEF Accepted, IsOk
  <2>2. CASE n = 1 /\ d = Other(c) /\ j = NewPlace(c)
    <3>1. chan'[d][j] = m  BY <2>2 DEF Rearranged
    <3> QED  BY <2>1, <2>2, <3>1
  <2>3. CASE ~(n = 1 /\ d = Other(c) /\ j = NewPlace(c))
    <3>1. Shift(c, t, d, j) \in DOMAIN chan[d] /\ chan'[d][j] = chan[d][Shift(c, t, d, j)]
      BY <2>3, OldPlace
    <3> QED  BY <2>1, <3>1 DEF Accepted, IsOk
  <2> QED  BY <2>2, <2>3
<1>2. ASSUME Accepted(d, q) PROVE Accepted(d, q)'
  <2>1. PICK i \in DOMAIN chan[d] : IsOk(chan[d][i], q.sn)  BY <1>2 DEF Accepted, IsOk
  <2>2. i \in Nat \ {0}  BY DEF Rearranged
  <2>3. d = c => i > t  BY <2>1, <2>2
  <2>4. PICK j \in DOMAIN chan'[d] : chan'[d][j] = chan[d][i]  BY <2>3 DEF Rearranged
  <2> QED  BY <2>1, <2>4 DEF Accepted, IsOk
<1> QED  BY <1>1, <1>2

\* The steps that touch requests or messages.  A request is recorded and sent,
\* in answer to a gathering if t = 1.
LEMMA RequestSent ==
    ASSUME TypeOK, RequestsNumbered, Decided, NEW c \in Chains, NEW from \in Users \cup {BTS},
           NEW assets \in Seq(Asset), Record(c, from, assets), NEW to, NEW m,
           m = RequestMessage(c, to, assets), NEW t \in {0, 1}, Rearranged(c, t, 1, m),
           t = 1 => chan[c][1].type = "gather" /\ 1 \in DOMAIN chan[c]
    PROVE  /\ Decided'
           /\ \A d \in Chains : \A q \in requests[d] : Accepted(d, q)' <=> Accepted(d, q)
           /\ ~Accepted(c, NewRequest(c, from, assets))
           /\ \A q : q = NewRequest(c, from, assets) => ~Accepted(c, q)'
<1>1. /\ Other(c) \in Chains /\ Other(c) # c /\ Other(Other(c)) = c
      /\ \A d \in Chains : d = c \/ d = Other(c)
  BY OtherChain
<1>2. /\ requests'[c] = requests[c] \cup {NewRequest(c, from, assets)}
      /\ \A d \in Chains : d # c => requests'[d] = requests[d]
  BY RecordRequests
<1>3. m.type = "request" /\ m.sn = serialNo[c] + 1 /\ m.assets = assets  BY DEF RequestMessage
<1>4. Decides(Other(c), m) = <<c, serialNo[c] + 1>>  BY <1>1, <1>3 DEF Decides
<1>5. PICK r : r = NewRequest(c, from, assets)  OBVIOUS
<1>6. r.sn = serialNo[c] + 1 /\ r.assets = assets /\ r \in requests'[c]  BY <1>2, <1>5 DEF NewRequest
<1>7. \A d \in Chains : \A q \in requests[d] : <<d, q.sn>> # <<c, serialNo[c] + 1>>
  <2>1. serialNo[c] \in Nat  BY DEF TypeOK
  <2>2. \A q \in requests[c] : q.sn # serialNo[c] + 1  BY <2>1 DEF RequestsNumbered
  <2> QED  BY <2>2
<1>8. ASSUME NEW d \in Chains, NEW i \in DOMAIN chan[d], Deciding(d, i)
      PROVE  Decides(d, chan[d][i]) # <<c, serialNo[c] + 1>>
  BY <1>7, <1>8 DEF Decided, DecidesPending
<1>9. DecidedOnce'
  BY <1>4, <1>8, StillDecidedOnce DEF Decided
<1>10. DecidesPending'
  <2>1. ASSUME NEW d \in Chains, NEW i \in DOMAIN chan[d], Deciding(d, i)
        PROVE  StillDecides(d, i)
    <3>0. PICK e \in Chains : \E q \in requests[e] :
            /\ Decides(d, chan[d][i]) = <<e, q.sn>>
            /\ chan[d][i].type = "request" => q.assets = chan[d][i].assets
      BY <2>1 DEF Decided, DecidesPending
    <3>1. PICK q \in requests[e] :
            /\ Decides(d, chan[d][i]) = <<e, q.sn>>
            /\ chan[d][i].type = "request" => q.assets = chan[d][i].assets
      BY <3>0
    <3>2. q \in requests'[e]  BY <1>2
    <3> QED  BY <3>1, <3>2 DEF StillDecides
  <2>2. \E e \in Chains : \E q \in requests'[e] :
            /\ Decides(Other(c), m) = <<e, q.sn>>
            /\ m.type = "request" => q.assets = m.assets
    BY <1>3, <1>4, <1>6
  <2> QED  BY <2>1, <2>2, StillDecidesPending
<1>11. PendingDecided'
  <2>1. ASSUME NEW e \in Chains, NEW q \in requests'[e]
        PROVE  \/ m.type # "gather" /\ Decides(Other(c), m) = <<e, q.sn>>
               \/ \E d \in Chains : \E i \in DOMAIN chan[d] :
                        /\ Deciding(d, i) /\ Decides(d, chan[d][i]) = <<e, q.sn>>
                        /\ d = c => i > t
    <3>1. CASE q \in requests[e]
      <4>0. PICK d \in Chains : \E i \in DOMAIN chan[d] :
                Deciding(d, i) /\ Decides(d, chan[d][i]) = <<e, q.sn>>
        BY <3>1 DEF Decided, PendingDecided
      <4>1. PICK i \in DOMAIN chan[d] :
                Deciding(d, i) /\ Decides(d, chan[d][i]) = <<e, q.sn>>
        BY <4>0
      <4>2. i \in Nat \ {0}  BY DEF Rearranged
      <4>3. d = c => i > t  BY <4>1, <4>2 DEF Deciding
      <4> QED  BY <4>1, <4>3
    <3>2. CASE q \notin requests[e]
      <4>1. e = c /\ q = r  BY <1>2, <1>5, <3>2
      <4> QED  BY <1>3, <1>4, <1>6, <4>1
    <3> QED  BY <3>1, <3>2
  <2> QED  BY <2>1, StillPendingDecided
<1>12. ASSUME NEW d \in Chains, NEW q PROVE Accepted(d, q)' <=> Accepted(d, q)
  BY <1>3, StillAccepted DEF IsOk
<1>13. ~Accepted(c, r)
  <2> SUFFICES ASSUME NEW i \in DOMAIN chan[c], chan[c][i].type = "response",
                      chan[c][i].sn = r.sn
               PROVE  FALSE
    BY DEF Accepted
  <2>1. Deciding(c, i) /\ Decides(c, chan[c][i]) = <<c, serialNo[c] + 1>>
    BY <1>6 DEF Deciding, Decides
  <2> QED  BY <1>8, <2>1
<1> QED  BY <1>5, <1>9, <1>10, <1>11, <1>12, <1>13 DEF Decided

\* A request is answered.
LEMMA RequestAnswered ==
    ASSUME Decided, NEW c \in Chains, UNCHANGED requests, NEW m, Rearranged(c, 1, 1, m),
           1 \in DOMAIN chan[c], chan[c][1].type = "request",
           m.type \in {"response", "error"}, m.sn = chan[c][1].sn
    PROVE  /\ Decided'
           /\ \A d \in Chains : \A q \in requests[d] : ~(d = Other(c) /\ IsOk(m, q.sn)) =>
                    (Accepted(d, q)' <=> Accepted(d, q))
           /\ \E q \in requests[Other(c)] :
                /\ q.sn = m.sn /\ q.assets = chan[c][1].assets
                /\ ~Accepted(Other(c), q)
                /\ IsOk(m, q.sn) => Accepted(Other(c), q)'
<1> DEFINE o == Other(c)
<1>1. o \in Chains /\ o # c /\ Other(o) = c /\ \A d \in Chains : d = c \/ d = o  BY OtherChain
<1>2. Decides(c, chan[c][1]) = <<o, m.sn>> /\ Deciding(c, 1)  BY DEF Decides, Deciding
<1>3. Decides(o, m) = <<o, m.sn>> /\ m.type # "gather" /\ m.type # "request"  BY DEF Decides
<1>4. PICK q \in requests[o] : q.sn = m.sn /\ q.assets = chan[c][1].assets
  BY <1>2 DEF Decided, DecidesPending
<1>5. ASSUME NEW d \in Chains, NEW i \in DOMAIN chan[d], Deciding(d, i),
             Decides(d, chan[d][i]) = <<o, m.sn>>
      PROVE  d = c /\ i = 1
  BY <1>2, <1>5 DEF Decided, DecidedOnce
<1>6. DecidedOnce'  BY <1>3, <1>5, StillDecidedOnce DEF Decided
<1>7. DecidesPending'
  <2>1. ASSUME NEW d \in Chains, NEW i \in DOMAIN chan[d], Deciding(d, i) PROVE StillDecides(d, i)
    BY <2>1 DEF Decided, DecidesPending, StillDecides
  <2>2. \E e \in Chains : \E p \in requests'[e] :
            /\ Decides(Other(c), m) = <<e, p.sn>>
            /\ m.type = "request" => p.assets = m.assets
    BY <1>1, <1>3, <1>4
  <2> QED  BY <2>1, <2>2, StillDecidesPending
<1>8. PendingDecided'
  <2>1. ASSUME NEW e \in Chains, NEW p \in requests'[e]
        PROVE  \/ m.type # "gather" /\ Decides(Other(c), m) = <<e, p.sn>>
               \/ \E d \in Chains : \E i \in DOMAIN chan[d] :
                        /\ Deciding(d, i) /\ Decides(d, chan[d][i]) = <<e, p.sn>>
                        /\ d = c => i > 1
    <3>0. PICK d \in Chains : \E i \in DOMAIN chan[d] :
            Deciding(d, i) /\ Decides(d, chan[d][i]) = <<e, p.sn>>
      BY DEF Decided, PendingDecided
    <3>1. PICK i \in DOMAIN chan[d] :
            Deciding(d, i) /\ Decides(d, chan[d][i]) = <<e, p.sn>>
      BY <3>0
    <3>2. i \in Nat \ {0}  BY DEF Rearranged
    <3>3. CASE d = c /\ i = 1  BY <1>2, <1>3, <3>1, <3>3
    <3>4. CASE ~(d = c /\ i = 1)
      <4>1. d = c => i > 1  BY <3>2, <3>4
      <4> QED  BY <3>1, <4>1
    <3> QED  BY <3>3, <3>4
  <2> QED  BY <2>1, StillPendingDecided
<1>9. ASSUME NEW d \in Chains, NEW p, ~(d = Other(c) /\ IsOk(m, p.sn))
      PROVE  Accepted(d, p)' <=> Accepted(d, p)
  BY <1>9, StillAccepted DEF IsOk
<1>10. ~Accepted(o, q)
  <2> SUFFICES ASSUME NEW i \in DOMAIN chan[o], chan[o][i].type = "response",
                      chan[o][i].sn = q.sn
               PROVE  FALSE
    BY DEF Accepted
  <2>1. Deciding(o, i) /\ Decides(o, chan[o][i]) = <<o, m.sn>>
    BY <1>4 DEF Deciding, Decides
  <2> QED  BY <1>1, <1>5, <2>1
<1>11. ASSUME IsOk(m, q.sn) PROVE Accepted(o, q)'
  <2>1. PICK p \in DOMAIN chan'[o] : chan'[o][p] = m  BY DEF Rearranged
  <2> QED  BY <1>11, <2>1 DEF Accepted, IsOk
<1> QED  BY <1>4, <1>6, <1>7, <1>8, <1>9, <1>10, <1>11 DEF Decided

\* An answer settles a request.
LEMMA RequestSettled ==
    ASSUME TypeOK, RequestsNumbered, Decided, NEW c \in Chains, NEW q \in requests[c],
           Forgets(c, q), NEW m, Rearranged(c, 1, 0, m), 1 \in DOMAIN chan[c],
           chan[c][1].type \in {"response", "error"}, chan[c][1].sn = q.sn
    PROVE  /\ Decided'
           /\ \A d \in Chains : \A p \in requests'[d] : Accepted(d, p)' <=> Accepted(d, p)
           /\ Accepted(c, q) <=> IsOk(chan[c][1], q.sn)
<1>1. Decides(c, chan[c][1]) = <<c, q.sn>> /\ Deciding(c, 1)  BY DEF Decides, Deciding
<1>2. ASSUME NEW d \in Chains, NEW i \in DOMAIN chan[d], Deciding(d, i),
             Decides(d, chan[d][i]) = <<c, q.sn>>
      PROVE  d = c /\ i = 1
  BY <1>1, <1>2 DEF Decided, DecidedOnce
<1>3. /\ requests'[c] = requests[c] \ {q}
      /\ \A d \in Chains : d # c => requests'[d] = requests[d]
  BY ForgetRequests
<1>4. \A p \in requests[c] : p.sn = q.sn => p = q  BY DEF RequestsNumbered
<1>5. DecidedOnce'  BY StillDecidedOnce DEF Decided
<1>6. DecidesPending'
  <2>1. ASSUME NEW d \in Chains, NEW i \in DOMAIN chan[d], Deciding(d, i), ~(d = c /\ i = 1)
        PROVE  StillDecides(d, i)
    <3>0. PICK e \in Chains : \E p \in requests[e] :
            /\ Decides(d, chan[d][i]) = <<e, p.sn>>
            /\ chan[d][i].type = "request" => p.assets = chan[d][i].assets
      BY <2>1 DEF Decided, DecidesPending
    <3>1. PICK p \in requests[e] :
            /\ Decides(d, chan[d][i]) = <<e, p.sn>>
            /\ chan[d][i].type = "request" => p.assets = chan[d][i].assets
      BY <3>0
    <3>2. <<e, p.sn>> # <<c, q.sn>>  BY <1>2, <2>1, <3>1
    <3>3. p \in requests'[e]  BY <1>3, <3>2
    <3> QED  BY <3>1, <3>3 DEF StillDecides
  <2> QED  BY <2>1, StillDecidesPending
<1>7. PendingDecided'
  <2>1. ASSUME NEW e \in Chains, NEW p \in requests'[e]
        PROVE  \E d \in Chains : \E i \in DOMAIN chan[d] :
                        /\ Deciding(d, i) /\ Decides(d, chan[d][i]) = <<e, p.sn>>
                        /\ d = c => i > 1
    <3>1. p \in requests[e] /\ <<e, p.sn>> # <<c, q.sn>>  BY <1>3, <1>4
    <3>0. PICK d \in Chains : \E i \in DOMAIN chan[d] :
            Deciding(d, i) /\ Decides(d, chan[d][i]) = <<e, p.sn>>
      BY <3>1 DEF Decided, PendingDecided
    <3>2. PICK i \in DOMAIN chan[d] :
            Deciding(d, i) /\ Decides(d, chan[d][i]) = <<e, p.sn>>
      BY <3>0
    <3>3. i \in Nat \ {0}  BY DEF Rearranged
    <3>4. d = c => i > 1  BY <1>1, <3>1, <3>2, <3>3
    <3> QED  BY <3>2, <3>4
  <2> QED  BY <2>1, StillPendingDecided
<1>8. ASSUME NEW d \in Chains, NEW p \in requests'[d] PROVE Accepted(d, p)' <=> Accepted(d, p)
  <2>1. d = c => ~IsOk(chan[c][1], p.sn)  BY <1>3, <1>4 DEF IsOk
  <2> QED  BY <2>1, StillAccepted
<1>9. Accepted(c, q) <=> IsOk(chan[c][1], q.sn)
  <2>1. ASSUME NEW i \in DOMAIN chan[c], IsOk(chan[c][i], q.sn) PROVE i = 1
    <3>1. Deciding(c, i) /\ Decides(c, chan[c][i]) = <<c, q.sn>>
      BY <2>1 DEF Deciding, Decides, IsOk
    <3> QED  BY <1>2, <3>1
  <2> QED  BY <2>1 DEF Accepted, IsOk
<1> QED  BY <1>5, <1>6, <1>7, <1>8, <1>9 DEF Decided

\* The other chain is told to gather its fees.
LEMMA GatherSent ==
    ASSUME Decided, NEW c \in Chains, UNCHANGED requests, NEW m, Rearranged(c, 0, 1, m),
           m.type = "gather"
    PROVE  /\ Decided'
           /\ \A d \in Chains : \A q \in requests[d] : Accepted(d, q)' <=> Accepted(d, q)
<1>1. DecidedOnce'  BY StillDecidedOnce DEF Decided
<1>2. DecidesPending'
  <2>1. ASSUME NEW d \in Chains, NEW i \in DOMAIN chan[d], Deciding(d, i) PROVE StillDecides(d, i)
    BY <2>1 DEF Decided, DecidesPending, StillDecides
  <2> QED  BY <2>1, StillDecidesPending
<1>3. PendingDecided'
  <2>1. ASSUME NEW e \in Chains, NEW p \in requests'[e]
        PROVE  \E d \in Chains : \E i \in DOMAIN chan[d] :
                        /\ Deciding(d, i) /\ Decides(d, chan[d][i]) = <<e, p.sn>>
                        /\ d = c => i > 0
    <3>0. PICK d \in Chains : \E i \in DOMAIN chan[d] :
            Deciding(d, i) /\ Decides(d, chan[d][i]) = <<e, p.sn>>
      BY DEF Decided, PendingDecided
    <3>1. PICK i \in DOMAIN chan[d] :
            Deciding(d, i) /\ Decides(d, chan[d][i]) = <<e, p.sn>>
      BY <3>0
    <3>2. i > 0  BY DEF Rearranged
    <3> QED  BY <3>1, <3>2
  <2> QED  BY <2>1, StillPendingDecided
<1>4. ASSUME NEW d \in Chains, NEW q PROVE Accepted(d, q)' <=> Accepted(d, q)
  BY StillAccepted DEF IsOk
<1> QED  BY <1>1, <1>2, <1>3, <1>4 DEF Decided

-----------------------------------------------------------------------------
\* What is owed of the pending requests.

OwedOn(c, q, k)   == Fee(q.assets, k) + IF Accepted(c, q) THEN 0 ELSE Amount(q.assets, k)
PendingOwed(c, k) == Sum([q \in requests[c] |-> OwedOn(c, q, k)], requests[c])

\* What is owed for requests is a number.
LEMMA OwedNat ==
    ASSUME TypeOK, RequestsNumbered, NEW c \in Chains, NEW k \in Coins
    PROVE  /\ PendingOwed(c, k) \in Nat
           /\ \A q \in requests[c] :
                /\ OwedOn(c, q, k) \in Nat /\ OwedOn(c, q, k)' \in Nat
                /\ Amount(q.assets, k) \in Nat /\ Fee(q.assets, k) \in Nat
<1>1. requests[c] \subseteq Request /\ IsFiniteSet(requests[c])  BY DEF TypeOK, RequestsNumbered
<1>2. ASSUME NEW q \in requests[c]
      PROVE  /\ OwedOn(c, q, k) \in Nat /\ OwedOn(c, q, k)' \in Nat
             /\ Amount(q.assets, k) \in Nat /\ Fee(q.assets, k) \in Nat
  <2>1. q.assets \in Seq(Asset)  BY <1>1, RequestFields
  <2>2. Amount(q.assets, k) \in Nat /\ Fee(q.assets, k) \in Nat  BY <2>1, AssetSums
  <2> QED  BY <2>2 DEF OwedOn
<1> DEFINE F == [q \in requests[c] |-> OwedOn(c, q, k)]
<1>3. \A q \in requests[c] : F[q] \in Nat  BY <1>2
<1>4. Sum(F, requests[c]) \in Nat
  <2> HIDE DEF F
  <2> QED  BY <1>1, <1>3, SumNat
<1> QED  BY <1>2, <1>4 DEF PendingOwed

\* What is owed does not change when neither the requests do nor which of them
\* were accepted.
LEMMA OwedSame ==
    ASSUME RequestsNumbered, NEW c \in Chains, NEW k \in Coins, requests'[c] = requests[c],
           \A q \in requests[c] : Accepted(c, q)' <=> Accepted(c, q)
    PROVE  PendingOwed(c, k)' = PendingOwed(c, k)
<1> DEFINE F == [q \in requests[c] |-> OwedOn(c, q, k)]
           G == [q \in requests'[c] |-> OwedOn(c, q, k)']
<1>1. \A q \in requests[c] : F[q] = G[q]  BY DEF OwedOn
<1>2. IsFiniteSet(requests[c])  BY DEF RequestsNumbered
<1>3. Sum(F, requests[c]) = Sum(G, requests[c])
  <2> HIDE DEF F, G
  <2> QED  BY <1>1, <1>2, SumEqual
<1> QED  BY <1>3 DEF PendingOwed

\* A new request is owed in full.
LEMMA OwedRecorded ==
    ASSUME TypeOK, RequestsNumbered, NEW c \in Chains, NEW k \in Coins,
           NEW r, r \notin requests[c], requests'[c] = requests[c] \cup {r}, r.assets \in Seq(Asset),
           \A q \in requests[c] : Accepted(c, q)' <=> Accepted(c, q), ~Accepted(c, r)'
    PROVE  PendingOwed(c, k)' = PendingOwed(c, k) + Total(r.assets, k)
<1> DEFINE F == [q \in requests[c] |-> OwedOn(c, q, k)]
           G == [q \in requests'[c] |-> OwedOn(c, q, k)']
<1>1. \A q \in requests[c] : F[q] \in Nat /\ F[q] = G[q]
  <2>1. \A q \in requests[c] : OwedOn(c, q, k) \in Nat  BY OwedNat
  <2>2. \A q \in requests[c] : OwedOn(c, q, k)' = OwedOn(c, q, k)  BY DEF OwedOn
  <2> QED  BY <2>1, <2>2
<1>2. IsFiniteSet(requests[c])  BY DEF RequestsNumbered
<1>3. G[r] = Total(r.assets, k) /\ Total(r.assets, k) \in Nat
  <2>1. /\ Amount(r.assets, k) \in Nat /\ Fee(r.assets, k) \in Nat
        /\ Total(r.assets, k) = Amount(r.assets, k) + Fee(r.assets, k)
    BY AssetSums
  <2>2. OwedOn(c, r, k)' = Fee(r.assets, k) + Amount(r.assets, k)  BY DEF OwedOn
  <2> QED  BY <2>1, <2>2
<1>4. Sum(G, requests[c] \cup {r}) = Sum(F, requests[c]) + G[r]
  <2> HIDE DEF F, G
  <2> QED  BY <1>1, <1>2, <1>3, SumGrow
<1> QED  BY <1>3, <1>4 DEF PendingOwed

\* A request that is deleted takes away what was owed for it.
LEMMA OwedForgotten ==
    ASSUME TypeOK, RequestsNumbered, NEW c \in Chains, NEW k \in Coins,
           NEW q \in requests[c], requests'[c] = requests[c] \ {q},
           \A p \in requests'[c] : Accepted(c, p)' <=> Accepted(c, p)
    PROVE  /\ PendingOwed(c, k)' = PendingOwed(c, k) + (0 - OwedOn(c, q, k))
           /\ OwedOn(c, q, k) \in Nat
<1> DEFINE F == [p \in requests[c] |-> OwedOn(c, p, k)]
           G == [p \in requests'[c] |-> OwedOn(c, p, k)']
<1>1. \A p \in requests[c] : OwedOn(c, p, k) \in Nat  BY OwedNat
<1>2. \A p \in requests[c] : F[p] \in Nat  BY <1>1
<1>3. \A p \in requests[c] \ {q} : F[p] = G[p]  BY DEF OwedOn
<1>4. IsFiniteSet(requests[c]) /\ IsFiniteSet(requests[c] \ {q})  BY FS_Subset DEF RequestsNumbered
<1>5. Sum(F, requests[c]) = Sum(G, requests[c] \ {q}) + F[q]
  <2> HIDE DEF F, G
  <2> QED  BY <1>2, <1>3, <1>4, SumShrink
<1>6. Sum(G, requests[c] \ {q}) \in Nat
  <2>1. \A p \in requests[c] \ {q} : G[p] \in Nat
    <3> HIDE DEF F, G
    <3> QED  BY <1>2, <1>3
  <2> HIDE DEF G
  <2> QED  BY <1>4, <2>1, SumNat
<1>7. PendingOwed(c, k) = PendingOwed(c, k)' + OwedOn(c, q, k) /\ PendingOwed(c, k)' \in Nat
  BY <1>5, <1>6 DEF PendingOwed
<1>8. OwedOn(c, q, k) \in Nat /\ PendingOwed(c, k) \in Nat  BY OwedNat
<1> QED  BY <1>7, <1>8

\* A request that is accepted is no longer owed but for its fee.
LEMMA OwedPaid ==
    ASSUME TypeOK, RequestsNumbered, NEW c \in Chains, NEW k \in Coins,
           NEW q \in requests[c], requests'[c] = requests[c],
           \A p \in requests[c] : p # q => (Accepted(c, p)' <=> Accepted(c, p)),
           ~Accepted(c, q), Accepted(c, q)'
    PROVE  PendingOwed(c, k)' = PendingOwed(c, k) + (0 - Amount(q.assets, k))
<1> DEFINE F == [p \in requests[c] |-> OwedOn(c, p, k)]
           G == [p \in requests'[c] |-> OwedOn(c, p, k)']
<1>1. \A p \in requests[c] : OwedOn(c, p, k) \in Nat /\ OwedOn(c, p, k)' \in Nat  BY OwedNat
<1>2. \A p \in requests[c] : F[p] \in Nat /\ G[p] \in Nat  BY <1>1
<1>3. \A p \in requests[c] \ {q} : F[p] = G[p]  BY DEF OwedOn
<1>4. IsFiniteSet(requests[c])  BY DEF RequestsNumbered
<1>5. Sum(G, requests[c]) + F[q] = Sum(F, requests[c]) + G[q]
  <2> HIDE DEF F, G
  <2> QED  BY <1>2, <1>3, <1>4, SumChange
<1>6. Sum(G, requests[c]) \in Nat /\ Sum(F, requests[c]) \in Nat
  <2> HIDE DEF F, G
  <2> QED  BY <1>2, <1>4, SumNat
<1>7. Amount(q.assets, k) \in Nat /\ Fee(q.assets, k) \in Nat  BY OwedNat
<1>8. F[q] = Fee(q.assets, k) + Amount(q.assets, k) /\ G[q] = Fee(q.assets, k)  BY <1>7 DEF OwedOn
<1>9. /\ PendingOwed(c, k)' = Sum(G, requests[c]) /\ PendingOwed(c, k) = Sum(F, requests[c])
  BY DEF PendingOwed
<1> DEFINE s == Sum(F, requests[c])
           t == Sum(G, requests[c])
           amt == Amount(q.assets, k)
           fee == Fee(q.assets, k)
<1>10. /\ s \in Nat /\ t \in Nat /\ amt \in Nat /\ fee \in Nat
       /\ t + (fee + amt) = s + fee
  <2> HIDE DEF F, G
  <2> QED  BY <1>5, <1>6, <1>7, <1>8
<1>11. t = s + (0 - amt)
  <2> HIDE DEF s, t, amt, fee
  <2> QED  BY <1>10
<1> HIDE DEF F, G
<1> QED  BY <1>9, <1>11

-----------------------------------------------------------------------------
\* What the BTS of the home chain holds of coin k is what is owed.

BackedCoin(k) ==
    LET h == Home(k)
        w == Other(h)
    IN  bts[h][k].held =
            (Claims(h, k) + bts[h][k].fees + PendingOwed(h, k))
                + (Claims(w, k) + bts[w][k].fees + PendingOwed(w, k)) + Wallets(w, k)

\* WrappedBacked, coin by coin.
LEMMA BackedByCoin ==
    WrappedBacked <=> (~wrappedUsable => \A k \in Coins : BackedCoin(k))
BY DEF WrappedBacked, BackedCoin, Owed, SumPending, PendingOwed, OwedOn, Claims, Claim, Wallets

\* What is owed of the requests changes by E[k] on chain c, by G[k] on the other.
OwedChange(c, E, G) ==
    \A k \in Coins : /\ PendingOwed(c, k)' = PendingOwed(c, k) + E[k]
                     /\ PendingOwed(Other(c), k)' = PendingOwed(Other(c), k) + G[k]

ClaimOf(c, x, k) == x.refundable + IF IsWrapped(c, k) THEN 0 ELSE x.usable

\* What is moved of coin k, and what is owed of it, cancel out.
Balanced(c, a, X, Y, E, G, k) ==
    /\ ~IsWrapped(c, k) =>
        Y[k].held + Claim(c, a, k) + bts[c][k].fees =
            bts[c][k].held + ClaimOf(c, X[k], k) + Y[k].fees + E[k] + G[k]
    /\ IsWrapped(c, k) =>
        Claim(c, a, k) + bts[c][k].fees + bal[c][a][k].wallet =
            ClaimOf(c, X[k], k) + Y[k].fees + X[k].wallet + E[k] + G[k]

\* The sums of the next state are numbers, too.
LEMMA AccountSumsNext ==
    ASSUME TypeOK', NEW c \in Chains, NEW k \in Coins
    PROVE  Wallets(c, k)' \in Nat /\ Claims(c, k)' \in Nat
<1>1. IsFiniteSet(Accounts)  BY AccountsFinite
<1>2. ASSUME NEW x \in Accounts
      PROVE  bal'[c][x][k].wallet \in Nat /\ Claim(c, x, k)' \in Nat
  <2>1. bal'[c][x][k] \in Balance  BY DEF TypeOK
  <2> QED  BY <2>1 DEF Claim, Balance
<1> DEFINE W == [u \in Accounts |-> bal'[c][u][k].wallet]
           C == [u \in Accounts |-> Claim(c, u, k)']
<1>3. \A x \in Accounts : W[x] \in Nat /\ C[x] \in Nat  BY <1>2
<1>4. Sum(W, Accounts) \in Nat /\ Sum(C, Accounts) \in Nat
  <2> HIDE DEF W, C
  <2> QED  BY <1>1, <1>3, SumNat
<1> QED  BY <1>4 DEF Wallets, Claims

\* A step whose changes of balances, treasury and debts balance for a coin
\* leaves it backed.
LEMMA BackedStep ==
    ASSUME TypeOK, TypeOK', RequestsNumbered, NEW c \in Chains, NEW a \in Accounts,
           NEW X \in [Coins -> Balance], NEW Y \in [Coins -> Treasury], Moves(c, a, X, Y),
           NEW E \in [Coins -> Int], NEW G \in [Coins -> Int], OwedChange(c, E, G),
           NEW k \in Coins, BackedCoin(k), Balanced(c, a, X, Y, E, G, k)
    PROVE  BackedCoin(k)'
<1> DEFINE o == Other(c)
<1>1. o \in Chains /\ o # c /\ Other(o) = c /\ \A d \in Chains : d = c \/ d = o  BY OtherChain
<1>2. /\ bts'[c] = Y /\ bts'[o] = bts[o] /\ bal'[c][a] = X
  BY <1>1, MovesPointwise
<1>3. /\ Wallets(c, k)' + bal[c][a][k].wallet = Wallets(c, k) + X[k].wallet
      /\ Claims(c, k)' + Claim(c, a, k) = Claims(c, k) + Claim(c, a, k)'
      /\ Wallets(o, k)' = Wallets(o, k) /\ Claims(o, k)' = Claims(o, k)
  BY <1>1, MovesSums
<1>4. Claim(c, a, k)' = ClaimOf(c, X[k], k)  BY <1>2 DEF Claim, ClaimOf
<1>5. /\ PendingOwed(c, k)' = PendingOwed(c, k) + E[k]
      /\ PendingOwed(o, k)' = PendingOwed(o, k) + G[k]
      /\ E[k] \in Int /\ G[k] \in Int
  BY DEF OwedChange
<1>6. /\ bts[c][k].held \in Nat /\ bts[c][k].fees \in Nat
      /\ bts[o][k].held \in Nat /\ bts[o][k].fees \in Nat
  BY <1>1, TreasuryFields
<1>7. /\ Claims(c, k) \in Nat /\ Claims(o, k) \in Nat
      /\ Wallets(c, k) \in Nat /\ Wallets(o, k) \in Nat
      /\ PendingOwed(c, k) \in Nat /\ PendingOwed(o, k) \in Nat
  BY <1>1, AccountSums, OwedNat
<1>8. Claims(c, k)' \in Nat /\ Wallets(c, k)' \in Nat  BY AccountSumsNext
<1>9. /\ Y[k].held \in Nat /\ Y[k].fees \in Nat /\ X[k].wallet \in Nat
      /\ X[k].refundable \in Nat /\ X[k].usable \in Nat
      /\ bal[c][a][k].wallet \in Nat /\ bal[c][a][k].refundable \in Nat /\ bal[c][a][k].usable \in Nat
  BY BalanceFields DEF Balance, Treasury
<1>10. Claim(c, a, k) \in Nat /\ ClaimOf(c, X[k], k) \in Nat  BY <1>9 DEF Claim, ClaimOf
<1>11. Home(k) \in Chains  BY DEF Home, Chains
<1>12. CASE Home(k) = c
  <2>1. bts[c][k].held = (Claims(c, k) + bts[c][k].fees + PendingOwed(c, k))
                            + (Claims(o, k) + bts[o][k].fees + PendingOwed(o, k)) + Wallets(o, k)
    BY <1>12 DEF BackedCoin
  <2>2. Y[k].held + Claim(c, a, k) + bts[c][k].fees =
            bts[c][k].held + ClaimOf(c, X[k], k) + Y[k].fees + E[k] + G[k]
    BY <1>12 DEF Balanced, IsWrapped
  <2>3. Claims(c, k)' + Claim(c, a, k) = Claims(c, k) + ClaimOf(c, X[k], k)  BY <1>3, <1>4
  <2>4. Y[k].held = (Claims(c, k)' + Y[k].fees + (PendingOwed(c, k) + E[k]))
                        + (Claims(o, k) + bts[o][k].fees + (PendingOwed(o, k) + G[k])) + Wallets(o, k)
    <3> DEFINE h == bts[c][k].held
               h2 == Y[k].held
               f == bts[c][k].fees
               f2 == Y[k].fees
               C == Claims(c, k)
               C2 == Claims(c, k)'
               p == PendingOwed(c, k)
               C1 == Claims(o, k)
               f1 == bts[o][k].fees
               p1 == PendingOwed(o, k)
               w == Wallets(o, k)
               x == Claim(c, a, k)
               x2 == ClaimOf(c, X[k], k)
               e == E[k]
               g == G[k]
    <3>1. /\ h \in Nat /\ h2 \in Nat /\ f \in Nat /\ f2 \in Nat /\ C \in Nat /\ C2 \in Nat
          /\ p \in Nat /\ C1 \in Nat /\ f1 \in Nat /\ p1 \in Nat /\ w \in Nat
          /\ x \in Nat /\ x2 \in Nat /\ e \in Int /\ g \in Int
      BY <1>5, <1>6, <1>7, <1>8, <1>9, <1>10
    <3>2. /\ h = (C + f + p) + (C1 + f1 + p1) + w
          /\ C2 + x = C + x2 /\ h2 + x + f = h + x2 + f2 + e + g
      BY <2>1, <2>2, <2>3
    <3> HIDE DEF h, h2, f, f2, C, C2, p, C1, f1, p1, w, x, x2, e, g
    <3>3. h2 = (C2 + f2 + (p + e)) + (C1 + f1 + (p1 + g)) + w  BY <3>1, <3>2
    <3> QED  BY <3>3 DEF h2, f2, C2, p, C1, f1, p1, w, e, g
  <2>5. bts'[c][k].held = (Claims(c, k)' + bts'[c][k].fees + PendingOwed(c, k)')
                        + (Claims(o, k)' + bts'[o][k].fees + PendingOwed(o, k)') + Wallets(o, k)'
    BY <1>2, <1>3, <1>5, <2>4
  <2> QED  BY <1>12, <2>5 DEF BackedCoin
<1>13. CASE Home(k) = o
  <2>1. bts[o][k].held = (Claims(o, k) + bts[o][k].fees + PendingOwed(o, k))
                            + (Claims(c, k) + bts[c][k].fees + PendingOwed(c, k)) + Wallets(c, k)
    BY <1>1, <1>13 DEF BackedCoin
  <2>2. Claim(c, a, k) + bts[c][k].fees + bal[c][a][k].wallet =
            ClaimOf(c, X[k], k) + Y[k].fees + X[k].wallet + E[k] + G[k]
    BY <1>1, <1>13 DEF Balanced, IsWrapped
  <2>3. Claims(c, k)' + Claim(c, a, k) = Claims(c, k) + ClaimOf(c, X[k], k)  BY <1>3, <1>4
  <2>4. bts[o][k].held = (Claims(o, k) + bts[o][k].fees + (PendingOwed(o, k) + G[k]))
                            + (Claims(c, k)' + Y[k].fees + (PendingOwed(c, k) + E[k])) + Wallets(c, k)'
    <3> DEFINE h == bts[o][k].held
               f == bts[c][k].fees
               f2 == Y[k].fees
               C == Claims(c, k)
               C2 == Claims(c, k)'
               p == PendingOwed(c, k)
               C1 == Claims(o, k)
               f1 == bts[o][k].fees
               p1 == PendingOwed(o, k)
               w == Wallets(c, k)
               w2 == Wallets(c, k)'
               x == Claim(c, a, k)
               x2 == ClaimOf(c, X[k], k)
               y == bal[c][a][k].wallet
               y2 == X[k].wallet
               e == E[k]
               g == G[k]
    <3>1. /\ h \in Nat /\ f \in Nat /\ f2 \in Nat /\ C \in Nat /\ C2 \in Nat /\ p \in Nat
          /\ C1 \in Nat /\ f1 \in Nat /\ p1 \in Nat /\ w \in Nat /\ w2 \in Nat
          /\ x \in Nat /\ x2 \in Nat /\ y \in Nat /\ y2 \in Nat /\ e \in Int /\ g \in Int
      BY <1>5, <1>6, <1>7, <1>8, <1>9, <1>10
    <3>2. /\ h = (C1 + f1 + p1) + (C + f + p) + w
          /\ C2 + x = C + x2 /\ w2 + y = w + y2 /\ x + f + y = x2 + f2 + y2 + e + g
      BY <1>3, <2>1, <2>2, <2>3
    <3> HIDE DEF h, f, f2, C, C2, p, C1, f1, p1, w, w2, x, x2, y, y2, e, g
    <3>3. h = (C1 + f1 + (p1 + g)) + (C2 + f2 + (p + e)) + w2  BY <3>1, <3>2
    <3> QED  BY <3>3 DEF h, f2, C2, p, C1, f1, p1, w2, e, g
  <2>5. bts'[o][k].held = (Claims(o, k)' + bts'[o][k].fees + PendingOwed(o, k)')
                            + (Claims(c, k)' + bts'[c][k].fees + PendingOwed(c, k)') + Wallets(c, k)'
    BY <1>2, <1>3, <1>5, <2>4
  <2> QED  BY <1>1, <1>13, <2>5 DEF BackedCoin
<1> QED  BY <1>1, <1>11, <1>12, <1>13

-----------------------------------------------------------------------------
\* Each action keeps the two chains together.

Bridged == RequestsFit /\ Decided /\ \A k \in Coins : BackedCoin(k)

Zero == [k \in Coins |-> 0]

\* A step that balances for every coin keeps the bridge.
LEMMA BridgedStep ==
    ASSUME TypeOK, TypeOK', RequestsNumbered, Bridged, RequestsFit', Decided',
           NEW c \in Chains, NEW a \in Accounts,
           NEW X \in [Coins -> Balance], NEW Y \in [Coins -> Treasury], Moves(c, a, X, Y),
           NEW E \in [Coins -> Int], NEW G \in [Coins -> Int], OwedChange(c, E, G),
           \A k \in Coins : Balanced(c, a, X, Y, E, G, k)
    PROVE  Bridged'
<1>1. ASSUME NEW k \in Coins PROVE BackedCoin(k)'
  <2>1. BackedCoin(k)  BY DEF Bridged
  <2> QED  BY <2>1, BackedStep
<1> QED  BY <1>1 DEF Bridged

\* Nothing is recorded, forgotten or paid.
LEMMA OwedAsBefore ==
    ASSUME TypeOK, RequestsNumbered, UNCHANGED requests, NEW c \in Chains,
           \A d \in Chains : \A q \in requests[d] : Accepted(d, q)' <=> Accepted(d, q)
    PROVE  OwedChange(c, Zero, Zero) /\ Zero \in [Coins -> Int]
<1>1. Other(c) \in Chains  BY OtherChain
<1>2. ASSUME NEW k \in Coins, NEW d \in Chains
      PROVE  PendingOwed(d, k)' = PendingOwed(d, k) /\ PendingOwed(d, k) \in Nat
  <2>1. requests'[d] = requests[d]  OBVIOUS
  <2> QED  BY <2>1, OwedSame, OwedNat
<1>3. ASSUME NEW k \in Coins
      PROVE  /\ PendingOwed(c, k)' = PendingOwed(c, k) + Zero[k]
             /\ PendingOwed(Other(c), k)' = PendingOwed(Other(c), k) + Zero[k]
  <2>1. Zero[k] = 0  BY DEF Zero
  <2> QED  BY <1>1, <1>2, <2>1
<1> QED  BY <1>3 DEF OwedChange, Zero

\* Requests that do not change still fit into a batch.
LEMMA SameRequestsFit ==
    ASSUME RequestsFit, UNCHANGED requests
    PROVE  RequestsFit'
BY DEF RequestsFit

\* A step that neither sends nor records leaves the debts alone.
LEMMA NothingSent ==
    ASSUME TypeOK, RequestsNumbered, Bridged, UNCHANGED <<requests, chan>>, NEW c \in Chains
    PROVE  /\ RequestsFit' /\ Decided'
           /\ OwedChange(c, Zero, Zero) /\ Zero \in [Coins -> Int]
<1>1. RequestsFit'  BY SameRequestsFit DEF Bridged
<1>2. Decided'
  <2>1. \A d, i : Deciding(d, i)' <=> Deciding(d, i)  BY DEF Deciding
  <2>3. chan' = chan /\ requests' = requests  OBVIOUS
  <2>4. DecidedOnce'
    <3>1. DecidedOnce  BY DEF Bridged, Decided
    <3> QED  BY <2>1, <2>3, <3>1 DEF DecidedOnce, Decides
  <2>5. DecidesPending'
    <3>1. DecidesPending  BY DEF Bridged, Decided
    <3> QED  BY <2>1, <2>3, <3>1 DEF DecidesPending, Decides
  <2>6. PendingDecided'
    <3>1. PendingDecided  BY DEF Bridged, Decided
    <3> QED  BY <2>1, <2>3, <3>1 DEF PendingDecided, Decides
  <2> QED  BY <2>4, <2>5, <2>6 DEF Decided
<1>3. \A d \in Chains : \A q \in requests[d] : Accepted(d, q)' <=> Accepted(d, q)  BY DEF Accepted
<1> QED  BY <1>1, <1>2, <1>3, OwedAsBefore

\* A coin that a step does not touch stays balanced.
LEMMA BalancedAsBefore ==
    ASSUME TypeOK, NEW c \in Chains, NEW a \in Accounts, NEW k \in Coins,
           NEW X, NEW Y, X[k] = bal[c][a][k], Y[k] = bts[c][k]
    PROVE  Balanced(c, a, X, Y, Zero, Zero, k)
<1>1. Zero[k] = 0  BY DEF Zero
<1>2. /\ bal[c][a][k].wallet \in Nat /\ bal[c][a][k].usable \in Nat
      /\ bal[c][a][k].refundable \in Nat
      /\ bts[c][k].held \in Nat /\ bts[c][k].fees \in Nat
  BY BalanceFields, TreasuryFields
<1> QED  BY <1>1, <1>2 DEF Balanced, Claim, ClaimOf

\* A user deposits tokens at the BTS of ICON.
LEMMA DepositBridged ==
    ASSUME BooksInv, BooksInv', ~wrappedUsable, Bridged,
           NEW u \in Users, NEW k \in Coins, NEW v \in Nat, Deposit(u, k, v)
    PROVE  Bridged'
<1>1. TypeOK /\ RequestsNumbered /\ TypeOK'  BY DEF BooksInv
<1>2. "icon" \in Chains /\ u \in Accounts  BY DEF Chains, Accounts
<1>3. PICK X \in [Coins -> Balance], Y \in [Coins -> Treasury] :
            Moves("icon", u, X, Y) /\ Deposits(u, k, v, X, Y)
  BY <1>1, DepositEffect
<1>4. ~IsWrapped("icon", k) /\ UNCHANGED <<requests, chan>>  BY DEF Deposit
<1>5. /\ RequestsFit' /\ Decided'
      /\ OwedChange("icon", Zero, Zero) /\ Zero \in [Coins -> Int]
  BY <1>1, <1>2, <1>4, NothingSent
<1>6. ASSUME NEW j \in Coins PROVE Balanced("icon", u, X, Y, Zero, Zero, j)
  <2>1. CASE j # k
    <3>1. X[j] = bal["icon"][u][j] /\ Y[j] = bts["icon"][j]  BY <1>3, <2>1 DEF Deposits
    <3> QED  BY <1>1, <1>2, <3>1, BalancedAsBefore
  <2>2. CASE j = k
    <3>1. Zero[k] = 0  BY DEF Zero
    <3>2. /\ bal["icon"][u][k].usable \in Nat /\ bal["icon"][u][k].refundable \in Nat
          /\ bts["icon"][k].held \in Nat /\ bts["icon"][k].fees \in Nat
      BY <1>1, <1>2, BalanceFields, TreasuryFields
    <3>3. /\ X[k].refundable = bal["icon"][u][k].refundable
          /\ X[k].usable = bal["icon"][u][k].usable + v
          /\ Y[k].held = bts["icon"][k].held + v /\ Y[k].fees = bts["icon"][k].fees
      BY <1>3 DEF Deposits
    <3> QED  BY <1>4, <2>2, <3>1, <3>2, <3>3 DEF Balanced, Claim, ClaimOf
  <2> QED  BY <2>1, <2>2
<1> QED  BY <1>1, <1>2, <1>3, <1>5, <1>6, BridgedStep

\* A user reclaims what could not be refunded.
LEMMA ReclaimBridged ==
    ASSUME BooksInv, BooksInv', ~wrappedUsable, Bridged,
           NEW c \in Chains, NEW u \in Users, NEW k \in Coins, NEW v \in Nat,
           Reclaim(c, u, k, v)
    PROVE  Bridged'
<1>1. TypeOK /\ RequestsNumbered /\ TypeOK'  BY DEF BooksInv
<1>2. u \in Accounts  BY DEF Accounts
<1>3. PICK X \in [Coins -> Balance], Y \in [Coins -> Treasury], r \in Nat :
            Moves(c, u, X, Y) /\ Reclaims(c, u, k, v, r, X, Y)
  BY <1>1, ReclaimEffect
<1>4. UNCHANGED <<requests, chan>>  BY DEF Reclaim
<1>5. /\ RequestsFit' /\ Decided'
      /\ OwedChange(c, Zero, Zero) /\ Zero \in [Coins -> Int]
  BY <1>1, <1>4, NothingSent
<1>6. ASSUME NEW j \in Coins PROVE Balanced(c, u, X, Y, Zero, Zero, j)
  <2>1. CASE j # k
    <3>1. X[j] = bal[c][u][j] /\ Y[j] = bts[c][j]  BY <1>3, <2>1 DEF Reclaims
    <3> QED  BY <1>1, <1>2, <3>1, BalancedAsBefore
  <2>2. CASE j = k
    <3>1. Zero[k] = 0  BY DEF Zero
    <3>2. /\ bal[c][u][k].usable \in Nat /\ bal[c][u][k].refundable \in Nat
          /\ bal[c][u][k].wallet \in Nat
          /\ bts[c][k].held \in Nat /\ bts[c][k].fees \in Nat
      BY <1>1, <1>2, BalanceFields, TreasuryFields
    <3>3. /\ X[k].wallet = bal[c][u][k].wallet + v
          /\ X[k].refundable = bal[c][u][k].refundable - r
          /\ X[k].usable = bal[c][u][k].usable - (v - r)
          /\ Y[k].held = bts[c][k].held - v /\ Y[k].fees = bts[c][k].fees
          /\ IsWrapped(c, k) => r = v
      BY <1>3 DEF Reclaims
    <3> QED  BY <2>2, <3>1, <3>2, <3>3 DEF Balanced, Claim, ClaimOf
  <2> QED  BY <2>1, <2>2
<1> QED  BY <1>1, <1>2, <1>3, <1>5, <1>6, BridgedStep

\* A request without a fee, or of coins that are all different.
LEMMA FitRecorded ==
    ASSUME TypeOK, RequestsNumbered, RequestsFit,
           NEW c \in Chains, NEW from \in Users \cup {BTS}, NEW assets \in Seq(Asset),
           Record(c, from, assets), Len(assets) <= MaxBatchSize,
           \A i, j \in DOMAIN assets : assets[i].coin = assets[j].coin => i = j,
           from = BTS => \A i \in DOMAIN assets : assets[i].fee = 0
    PROVE  RequestsFit'
<1>1. PICK r : r = NewRequest(c, from, assets)  OBVIOUS
<1>2. /\ requests'[c] = requests[c] \cup {r}
      /\ \A d \in Chains : d # c => requests'[d] = requests[d]
  BY <1>1, RecordRequests
<1>3. r.assets = assets /\ r.from = from  BY <1>1 DEF NewRequest
<1>4. ASSUME NEW d \in Chains, NEW q \in requests'[d] PROVE q \in requests[d] \/ q = r
  BY <1>2
<1> QED  BY <1>3, <1>4 DEF RequestsFit

\* A request that is recorded and sent is owed by the chain that sent it.
LEMMA OwedSent ==
    ASSUME TypeOK, RequestsNumbered,
           NEW c \in Chains, NEW from \in Users \cup {BTS}, NEW assets \in Seq(Asset),
           Record(c, from, assets),
           \A d \in Chains : \A q \in requests[d] : Accepted(d, q)' <=> Accepted(d, q),
           \A q : q = NewRequest(c, from, assets) => ~Accepted(c, q)'
    PROVE  /\ OwedChange(c, [k \in Coins |-> Total(assets, k)], Zero)
           /\ [k \in Coins |-> Total(assets, k)] \in [Coins -> Int] /\ Zero \in [Coins -> Int]
<1>1. PICK r : r = NewRequest(c, from, assets)  OBVIOUS
<1>2. /\ requests'[c] = requests[c] \cup {r} /\ r \notin requests[c]
      /\ \A d \in Chains : d # c => requests'[d] = requests[d]
  BY <1>1, RecordRequests
<1>3. r.assets = assets /\ ~Accepted(c, r)'  BY <1>1 DEF NewRequest
<1>4. Other(c) \in Chains /\ Other(c) # c  BY OtherChain
<1>5. ASSUME NEW k \in Coins
      PROVE  /\ PendingOwed(c, k)' = PendingOwed(c, k) + Total(assets, k)
             /\ PendingOwed(Other(c), k)' = PendingOwed(Other(c), k) + Zero[k]
             /\ Total(assets, k) \in Int
  <2>1. PendingOwed(c, k)' = PendingOwed(c, k) + Total(r.assets, k)
    BY <1>2, <1>3, OwedRecorded
  <2>2. PICK o \in Chains : o = Other(c)  BY <1>4
  <2>3. requests'[o] = requests[o]  BY <1>2, <1>4, <2>2
  <2>4. PendingOwed(o, k)' = PendingOwed(o, k) /\ PendingOwed(o, k) \in Nat
    BY <2>3, OwedSame, OwedNat
  <2>5. Zero[k] = 0 /\ Total(assets, k) \in Int  BY AssetSums DEF Zero
  <2> QED  BY <1>3, <2>1, <2>2, <2>4, <2>5
<1> QED  BY <1>5 DEF OwedChange, Zero

\* A transfer locks or burns and sends its request.
LEMMA TransferBridged ==
    ASSUME BooksInv, BooksInv', SmallBatches, ~wrappedUsable, Bridged,
           NEW c \in Chains, NEW u \in Users, NEW v \in Users, NEW b \in Batches(c),
           Transfer(c, u, v, b)
    PROVE  Bridged'
<1>1. TypeOK /\ RequestsNumbered /\ TypeOK'  BY DEF BooksInv
<1>2. u \in Accounts /\ u \in Users \cup {BTS} /\ u # BTS /\ v \in Accounts
  BY AccountsAssumption DEF Accounts
<1> DEFINE assets == BatchAssets(c, b)
           E == [k \in Coins |-> Total(assets, k)]
<1>3. /\ assets \in Seq(Asset) /\ Record(c, u, assets)
      /\ chan' = Sent(c, <<RequestMessage(c, v, assets)>>)
      /\ \E X \in [Coins -> Balance], Y \in [Coins -> Treasury] :
                /\ Moves(c, u, X, Y)
                /\ \A k \in Coins : Locks(c, u, assets, X, Y, k)
  BY <1>1, TransferEffect
<1>4. /\ Len(assets) <= MaxBatchSize
      /\ \A i, j \in DOMAIN assets : assets[i].coin = assets[j].coin => i = j
  <2>1. CoversFee(c, b) /\ Len(b) <= MaxBatchSize  BY DEF Transfer
  <2>2. Len(assets) = Len(b)  BY <2>1, BatchAssetsType
  <2>3. \A i, j \in DOMAIN b : b[i][1] = b[j][1] => i = j  BY DEF Batches, SmallBatches
  <2>4. DOMAIN assets = DOMAIN b /\ \A i \in DOMAIN b : assets[i].coin = b[i][1]
    BY DEF BatchAssets
  <2> HIDE DEF assets
  <2> QED  BY <2>1, <2>2, <2>3, <2>4
<1> HIDE DEF assets
<1>5. PICK X \in [Coins -> Balance], Y \in [Coins -> Treasury] :
            Moves(c, u, X, Y) /\ \A k \in Coins : Locks(c, u, assets, X, Y, k)
  BY <1>3
<1>6. PICK m : m = RequestMessage(c, v, assets)  OBVIOUS
<1>7. m \in Message
  <2>1. serialNo[c] + 1 \in Nat  BY <1>1 DEF TypeOK
  <2> QED  BY <1>2, <1>3, <1>6, <2>1 DEF RequestMessage, Message
<1>8. Rearranged(c, 0, 1, m)  BY <1>1, <1>3, <1>6, <1>7, SentPlaces
<1>9. /\ Decided'
      /\ \A d \in Chains : \A q \in requests[d] : Accepted(d, q)' <=> Accepted(d, q)
      /\ \A q : q = NewRequest(c, u, assets) => ~Accepted(c, q)'
  <2>1. Decided  BY DEF Bridged
  <2> QED  BY <1>1, <1>2, <1>3, <1>6, <1>8, <2>1, RequestSent
<1>10. /\ OwedChange(c, E, Zero) /\ E \in [Coins -> Int] /\ Zero \in [Coins -> Int]
  BY <1>1, <1>2, <1>3, <1>9, OwedSent
<1>11. RequestsFit'  BY <1>1, <1>2, <1>3, <1>4, FitRecorded DEF Bridged
<1>12. ASSUME NEW k \in Coins PROVE Balanced(c, u, X, Y, E, Zero, k)
  <2>1. Zero[k] = 0 /\ E[k] = Total(assets, k) /\ Total(assets, k) \in Nat
    BY <1>3, AssetSums DEF Zero
  <2>2. /\ bal[c][u][k].usable \in Nat /\ bal[c][u][k].refundable \in Nat
        /\ bal[c][u][k].wallet \in Nat
        /\ bts[c][k].held \in Nat /\ bts[c][k].fees \in Nat
    BY <1>1, <1>2, BalanceFields, TreasuryFields
  <2>3. Locks(c, u, assets, X, Y, k)  BY <1>5
  <2>4. Deposited(c, k) => ~IsWrapped(c, k)  BY DEF Deposited, IsToken, IsWrapped
  <2> HIDE DEF E
  <2> QED  BY <2>1, <2>2, <2>3, <2>4 DEF Balanced, Claim, ClaimOf, Locks
<1> HIDE DEF E
<1> QED  BY <1>1, <1>2, <1>5, <1>9, <1>10, <1>11, <1>12, BridgedStep

\* A request that names each coin once pays out what it says.
LEMMA PaidOutAmount ==
    ASSUME NEW c, NEW assets \in Seq(Asset), NEW k,
           \A i, j \in DOMAIN assets : assets[i].coin = assets[j].coin => i = j
    PROVE  PaidOut(c, assets, k) = Amount(assets, k)
<1>1. Len(assets) \in Nat /\ DOMAIN assets = 1 .. Len(assets)  BY LenProperties
<1> DEFINE P == Positions(assets, k)
           F == [i \in DOMAIN assets |-> assets[i].amount]
<1>2. P \in SUBSET (1 .. Len(assets))  BY <1>1, PositionsFinite
<1>3. ASSUME P # {} PROVE assets[Max(P)].amount = Amount(assets, k)
  <2>1. Max(P) \in P  BY <1>1, <1>2, <1>3, MaxIn
  <2>2. P = {Max(P)}  BY <2>1 DEF Positions
  <2>3. assets[Max(P)] \in Asset /\ Max(P) \in DOMAIN assets
    BY <1>1, <1>2, <2>1, ElementOfSeq
  <2>4. F[Max(P)] = assets[Max(P)].amount /\ F[Max(P)] \in Nat  BY <2>3 DEF Asset
  <2>5. Sum(F, {Max(P)}) = F[Max(P)]
    <3> HIDE DEF F, P
    <3> QED  BY <2>4, SumSingle
  <2> QED  BY <2>2, <2>4, <2>5 DEF Amount
<1> QED  BY <1>3 DEF PaidOut

\* The places after a message is handled and answered.
LEMMA AnsweredPlaces ==
    ASSUME TypeOK, NEW c \in Chains, chan[c] # <<>>, NEW m \in Message,
           chan' = Handled(c, <<m>>)
    PROVE  Rearranged(c, 1, 1, m) /\ 1 \in DOMAIN chan[c] /\ Head(chan[c]) = chan[c][1]
<1>1. PICK n \in {0, 1} : n = 1  OBVIOUS
<1>2. chan' = Handled(c, IF n = 1 THEN <<m>> ELSE <<>>)  BY <1>1
<1> QED  BY <1>1, <1>2, HandledPlaces

\* The places after a message is handled without an answer.
LEMMA ConsumedPlaces ==
    ASSUME TypeOK, NEW c \in Chains, chan[c] # <<>>, NEW m \in Message,
           chan' = Handled(c, <<>>)
    PROVE  Rearranged(c, 1, 0, m) /\ 1 \in DOMAIN chan[c] /\ Head(chan[c]) = chan[c][1]
<1>1. PICK n \in {0, 1} : n = 0  OBVIOUS
<1>2. chan' = Handled(c, IF n = 1 THEN <<m>> ELSE <<>>)  BY <1>1
<1> QED  BY <1>1, <1>2, HandledPlaces

\* A request is accepted: what is minted or paid is no longer owed.
LEMMA AcceptBridged ==
    ASSUME BooksInv, BooksInv', ~wrappedUsable, Bridged,
           NEW c \in Chains, AcceptRequest(c)
    PROVE  Bridged'
<1>1. TypeOK /\ RequestsNumbered /\ TypeOK'  BY DEF BooksInv
<1>2. Receives(c, "request") /\ UNCHANGED requests  BY DEF AcceptRequest
<1>3. PICK m : m = Head(chan[c])  OBVIOUS
<1>4. /\ m \in Message /\ m.type = "request" /\ chan[c] # <<>>
      /\ m.sn \in Nat /\ m.to \in Accounts /\ m.assets \in Seq(Asset)
  BY <1>1, <1>2, <1>3, HeadType, MessageFields
<1>5. PICK X \in [Coins -> Balance], Y \in [Coins -> Treasury] :
            Moves(c, m.to, X, Y) /\ \A k \in Coins : Pays(c, m.to, m.assets, X, Y, k)
  BY <1>1, <1>3, AcceptEffect
<1>6. PICK ok : ok = [type |-> "response", sn |-> m.sn, code |-> "RC_OK"]  OBVIOUS
<1>7. ok \in Message  BY <1>4, <1>6 DEF Message
<1>8. chan' = Handled(c, <<ok>>)  BY <1>3, <1>6 DEF AcceptRequest
<1>9. Rearranged(c, 1, 1, ok) /\ 1 \in DOMAIN chan[c] /\ m = chan[c][1]
  BY <1>1, <1>3, <1>4, <1>7, <1>8, AnsweredPlaces
<1>10. PICK o \in Chains : o = Other(c) /\ o # c  BY OtherChain
<1>11. /\ Decided'
       /\ \A d \in Chains : \A q \in requests[d] : ~(d = o /\ IsOk(ok, q.sn)) =>
                    (Accepted(d, q)' <=> Accepted(d, q))
       /\ \E q \in requests[o] :
                /\ q.sn = ok.sn /\ q.assets = m.assets
                /\ ~Accepted(o, q)
                /\ IsOk(ok, q.sn) => Accepted(o, q)'
  <2>1. Decided /\ ok.type = "response" /\ ok.sn = m.sn  BY <1>6 DEF Bridged
  <2> QED  BY <1>2, <1>4, <1>9, <1>10, <2>1, RequestAnswered
<1>12. PICK q \in requests[o] :
            /\ q.sn = ok.sn /\ q.assets = m.assets
            /\ ~Accepted(o, q) /\ Accepted(o, q)'
  BY <1>6, <1>11 DEF IsOk
<1>13. /\ \A p \in requests[o] : p # q => (Accepted(o, p)' <=> Accepted(o, p))
       /\ \A p \in requests[c] : Accepted(c, p)' <=> Accepted(c, p)
  <2>1. \A p \in requests[o] : p # q => p.sn # ok.sn  BY <1>1, <1>12 DEF RequestsNumbered
  <2> QED  BY <1>10, <1>11, <2>1 DEF IsOk
<1> DEFINE G == [k \in Coins |-> 0 - Amount(m.assets, k)]
<1>14. OwedChange(c, Zero, G) /\ Zero \in [Coins -> Int] /\ G \in [Coins -> Int]
  <2>1. ASSUME NEW k \in Coins
        PROVE  /\ PendingOwed(c, k)' = PendingOwed(c, k) + Zero[k]
               /\ PendingOwed(o, k)' = PendingOwed(o, k) + (0 - Amount(m.assets, k))
               /\ 0 - Amount(m.assets, k) \in Int
    <3>1. requests'[c] = requests[c] /\ requests'[o] = requests[o]  BY <1>2
    <3>2. PendingOwed(c, k)' = PendingOwed(c, k) /\ PendingOwed(c, k) \in Nat
      BY <1>1, <1>13, <3>1, OwedSame, OwedNat
    <3>3. PendingOwed(o, k)' = PendingOwed(o, k) + (0 - Amount(q.assets, k))
      BY <1>1, <1>12, <1>13, <3>1, OwedPaid
    <3>4. Zero[k] = 0 /\ Amount(m.assets, k) \in Nat  BY <1>4, AssetSums DEF Zero
    <3> QED  BY <1>12, <3>2, <3>3, <3>4
  <2> QED  BY <1>10, <2>1 DEF OwedChange, Zero
<1>15. RequestsFit'  BY <1>2, SameRequestsFit DEF Bridged
<1>16. ASSUME NEW k \in Coins PROVE Balanced(c, m.to, X, Y, Zero, G, k)
  <2>1. Zero[k] = 0 /\ G[k] = 0 - Amount(m.assets, k) /\ Amount(m.assets, k) \in Nat
    BY <1>4, AssetSums DEF Zero
  <2>2. /\ bal[c][m.to][k].usable \in Nat /\ bal[c][m.to][k].refundable \in Nat
        /\ bal[c][m.to][k].wallet \in Nat
        /\ bts[c][k].held \in Nat /\ bts[c][k].fees \in Nat
    BY <1>1, <1>4, BalanceFields, TreasuryFields
  <2>3. Pays(c, m.to, m.assets, X, Y, k)  BY <1>5
  <2>4. PaidOut(c, m.assets, k) = Amount(m.assets, k)
    <3>1. \A i, j \in DOMAIN m.assets : m.assets[i].coin = m.assets[j].coin => i = j
      BY <1>12 DEF Bridged, RequestsFit
    <3> QED  BY <1>4, <3>1, PaidOutAmount
  <2> HIDE DEF G
  <2> QED  BY <2>1, <2>2, <2>3, <2>4 DEF Balanced, Claim, ClaimOf, Pays
<1> HIDE DEF G
<1> QED  BY <1>1, <1>4, <1>5, <1>11, <1>14, <1>15, <1>16, BridgedStep

\* Nothing is moved, recorded, forgotten or paid.
LEMMA NothingMoved ==
    ASSUME BooksInv, BooksInv', Bridged, UNCHANGED <<bal, bts, requests>>, Decided',
           \A d \in Chains : \A q \in requests[d] : Accepted(d, q)' <=> Accepted(d, q)
    PROVE  Bridged'
<1>1. TypeOK /\ RequestsNumbered /\ TypeOK'  BY DEF BooksInv
<1>2. PICK c \in Chains : c = "icon"  BY DEF Chains
<1>3. Aggregator \in Accounts  BY DEF Accounts
<1> DEFINE X == bal[c][Aggregator]
           Y == bts[c]
<1>4. Moves(c, Aggregator, X, Y) /\ X \in [Coins -> Balance] /\ Y \in [Coins -> Treasury]
  BY <1>1, <1>3, NoMoves
<1>5. OwedChange(c, Zero, Zero) /\ Zero \in [Coins -> Int]  BY <1>1, OwedAsBefore
<1>6. RequestsFit'  BY SameRequestsFit DEF Bridged
<1>7. ASSUME NEW k \in Coins PROVE Balanced(c, Aggregator, X, Y, Zero, Zero, k)
  BY <1>1, <1>3, BalancedAsBefore
<1> HIDE DEF X, Y
<1> QED  BY <1>1, <1>3, <1>4, <1>5, <1>6, <1>7, BridgedStep

\* A request is rejected: nothing moves.
LEMMA RejectBridged ==
    ASSUME BooksInv, BooksInv', Bridged, NEW c \in Chains, RejectRequest(c)
    PROVE  Bridged'
<1>1. TypeOK  BY DEF BooksInv
<1>2. Receives(c, "request") /\ UNCHANGED <<bal, bts, requests>>  BY DEF RejectRequest
<1>3. PICK m : m = Head(chan[c])  OBVIOUS
<1>4. m \in Message /\ m.type = "request" /\ chan[c] # <<>> /\ m.sn \in Nat
  BY <1>1, <1>2, <1>3, HeadType, MessageFields
<1>5. PICK err : /\ err = [type |-> "error", sn |-> m.sn]
                        \/ err = [type |-> "response", sn |-> m.sn, code |-> "RC_ERR"]
                 /\ chan' = Handled(c, <<err>>)
  BY <1>3 DEF RejectRequest
<1>6. /\ err \in Message /\ err.type \in {"response", "error"} /\ err.sn = m.sn
      /\ \A sn : ~IsOk(err, sn)
  BY <1>4, <1>5 DEF Message, IsOk
<1>7. Rearranged(c, 1, 1, err) /\ 1 \in DOMAIN chan[c] /\ m = chan[c][1]
  BY <1>1, <1>3, <1>4, <1>5, <1>6, AnsweredPlaces
<1>8. /\ Decided'
      /\ \A d \in Chains : \A q \in requests[d] : Accepted(d, q)' <=> Accepted(d, q)
  <2>1. Decided  BY DEF Bridged
  <2>2. /\ Decided'
        /\ \A d \in Chains : \A q \in requests[d] : ~(d = Other(c) /\ IsOk(err, q.sn)) =>
                    (Accepted(d, q)' <=> Accepted(d, q))
    BY <1>2, <1>4, <1>6, <1>7, <2>1, RequestAnswered
  <2> QED  BY <1>6, <2>2
<1> QED  BY <1>2, <1>8, NothingMoved

\* Assets without fees cost no fee.
LEMMA NoFee ==
    ASSUME NEW assets \in Seq(Asset), NEW k, \A i \in DOMAIN assets : assets[i].fee = 0
    PROVE  Fee(assets, k) = 0
<1> DEFINE F == [i \in DOMAIN assets |-> assets[i].fee]
           P == Positions(assets, k)
<1>1. IsFiniteSet(P) /\ P \subseteq DOMAIN assets  BY PositionsFinite
<1>2. \A i \in P : F[i] = 0  BY <1>1
<1>3. Sum(F, P) = 0
  <2> HIDE DEF F, P
  <2> QED  BY <1>1, <1>2, SumZero
<1> QED  BY <1>3 DEF Fee

\* An answer settles its request.
LEMMA SettleBridged ==
    ASSUME BooksInv, BooksInv', Bridged, NEW c \in Chains, NEW q \in requests[c],
           NEW code \in {"RC_OK", "RC_ERR"}, Settle(c, q, code),
           chan[c] # <<>>, chan' = Handled(c, <<>>),
           Head(chan[c]).type \in {"response", "error"}, Head(chan[c]).sn = q.sn,
           code = "RC_OK" <=> IsOk(Head(chan[c]), q.sn)
    PROVE  Bridged'
<1>1. TypeOK /\ RequestsNumbered /\ LockedMatchesPending /\ TypeOK'  BY DEF BooksInv
<1>2. /\ q \in Request /\ q.assets \in Seq(Asset) /\ q.from \in Users \cup {BTS}
      /\ q.from # BTS => q.from \in Accounts
  BY <1>1, RequestFields DEF TypeOK
<1>3. /\ Forgets(c, q)
      /\ \/ q.from # BTS /\ \E refused : SettleTransfer(c, q, code, refused)
         \/ q.from = BTS /\ SettleGathering(c, q, code)
  BY DEF Settle, Forgets
<1>4. PICK m \in Message : m.type = "gather"
  <2>1. [type |-> "gather"] \in Message  BY DEF Message
  <2> QED  BY <2>1
<1>5. Rearranged(c, 1, 0, m) /\ 1 \in DOMAIN chan[c] /\ Head(chan[c]) = chan[c][1]
  BY <1>1, ConsumedPlaces
<1>6. /\ Decided'
      /\ \A d \in Chains : \A p \in requests'[d] : Accepted(d, p)' <=> Accepted(d, p)
      /\ Accepted(c, q) <=> code = "RC_OK"
  <2>1. Decided  BY DEF Bridged
  <2> QED  BY <1>1, <1>3, <1>5, <2>1, RequestSettled
<1>7. /\ requests'[c] = requests[c] \ {q}
      /\ \A d \in Chains : d # c => requests'[d] = requests[d]
  BY <1>1, <1>3, ForgetRequests
<1>8. RequestsFit'
  <2>1. \A d \in Chains : requests'[d] \subseteq requests[d]  BY <1>7
  <2> QED  BY <2>1 DEF Bridged, RequestsFit
<1> DEFINE E == [k \in Coins |-> 0 - (Fee(q.assets, k) + IF code = "RC_OK" THEN 0 ELSE Amount(q.assets, k))]
<1>9. ASSUME NEW k \in Coins
      PROVE  /\ Amount(q.assets, k) \in Nat /\ Fee(q.assets, k) \in Nat
             /\ E[k] = 0 - (Fee(q.assets, k) + IF code = "RC_OK" THEN 0 ELSE Amount(q.assets, k))
             /\ E[k] \in Int /\ Zero[k] = 0
  BY <1>2, AssetSums DEF Zero
<1>10. OwedChange(c, E, Zero) /\ E \in [Coins -> Int] /\ Zero \in [Coins -> Int]
  <2>1. PICK o \in Chains : o = Other(c) /\ o # c  BY OtherChain
  <2>2. ASSUME NEW k \in Coins
        PROVE  /\ PendingOwed(c, k)' = PendingOwed(c, k) + E[k]
               /\ PendingOwed(o, k)' = PendingOwed(o, k) + Zero[k]
    <3>1. PendingOwed(c, k)' = PendingOwed(c, k) + (0 - OwedOn(c, q, k))
      BY <1>1, <1>6, <1>7, OwedForgotten
    <3>2. OwedOn(c, q, k) = Fee(q.assets, k) + IF code = "RC_OK" THEN 0 ELSE Amount(q.assets, k)
      BY <1>6 DEF OwedOn
    <3>3. requests'[o] = requests[o]  BY <1>7, <2>1
    <3>4. \A p \in requests[o] : Accepted(o, p)' <=> Accepted(o, p)  BY <1>6, <3>3
    <3>5. PendingOwed(o, k)' = PendingOwed(o, k) /\ PendingOwed(o, k) \in Nat
      BY <1>1, <3>3, <3>4, OwedSame, OwedNat
    <3>6. E[k] = 0 - OwedOn(c, q, k) /\ Zero[k] = 0  BY <1>9, <3>2
    <3> HIDE DEF E
    <3> QED  BY <3>1, <3>5, <3>6
  <2>3. E \in [Coins -> Int] /\ Zero \in [Coins -> Int]  BY <1>9 DEF Zero
  <2> HIDE DEF E
  <2> QED  BY <2>1, <2>2, <2>3 DEF OwedChange
<1> HIDE DEF E
<1>11. CASE q.from # BTS
  <2>1. PICK refused : SettleTransfer(c, q, code, refused)  BY <1>3, <1>11
  <2>2. PICK X \in [Coins -> Balance], Y \in [Coins -> Treasury] :
            Moves(c, q.from, X, Y) /\ \A k \in Coins : Unlocks(c, q, code, X, Y, k)
    BY <1>1, <1>11, <2>1, SettleTransferEffect
  <2>3. ASSUME NEW k \in Coins PROVE Balanced(c, q.from, X, Y, E, Zero, k)
    <3>1. /\ bal[c][q.from][k].usable \in Nat /\ bal[c][q.from][k].refundable \in Nat
          /\ bal[c][q.from][k].wallet \in Nat
          /\ bts[c][k].held \in Nat /\ bts[c][k].fees \in Nat
      BY <1>1, <1>2, <1>11, BalanceFields, TreasuryFields
    <3>2. Unlocks(c, q, code, X, Y, k)  BY <2>2
    <3>3. /\ Amount(q.assets, k) \in Nat /\ Fee(q.assets, k) \in Nat /\ Zero[k] = 0
          /\ E[k] = 0 - (Fee(q.assets, k) + IF code = "RC_OK" THEN 0 ELSE Amount(q.assets, k))
      BY <1>9
    <3> DEFINE x == bal[c][q.from][k]
               y == bts[c][k]
               amt == Amount(q.assets, k)
               fee == Fee(q.assets, k)
    <3>4. \/ /\ code = "RC_OK" /\ E[k] = 0 - fee
             /\ X[k].wallet = x.wallet /\ X[k].refundable = x.refundable
             /\ ~IsWrapped(c, k) => Y[k].held = y.held
          \/ /\ code # "RC_OK" /\ E[k] = 0 - (fee + amt)
             /\ X[k].wallet = x.wallet /\ X[k].refundable = x.refundable + amt
             /\ Y[k].held = y.held
          \/ /\ code # "RC_OK" /\ E[k] = 0 - (fee + amt)
             /\ X[k].wallet = x.wallet + amt /\ X[k].refundable = x.refundable
             /\ Y[k].held = y.held - amt
      BY <3>1, <3>2, <3>3 DEF Unlocks
    <3>5. X[k].usable = x.usable /\ Y[k].fees = y.fees + fee  BY <3>2 DEF Unlocks
    <3>6. /\ x.usable \in Nat /\ x.refundable \in Nat /\ x.wallet \in Nat
          /\ y.held \in Nat /\ y.fees \in Nat /\ amt \in Nat /\ fee \in Nat /\ Zero[k] = 0
      BY <3>1, <3>3
    <3>7. Claim(c, q.from, k) = ClaimOf(c, x, k)  BY DEF Claim, ClaimOf
    <3> HIDE DEF x, y, amt, fee
    <3>8. IsWrapped(c, k) => /\ ClaimOf(c, x, k) = x.refundable
                             /\ ClaimOf(c, X[k], k) = X[k].refundable
      BY <3>4, <3>6 DEF ClaimOf
    <3>9. ~IsWrapped(c, k) => /\ ClaimOf(c, x, k) = x.refundable + x.usable
                              /\ ClaimOf(c, X[k], k) = X[k].refundable + x.usable
      BY <3>5 DEF ClaimOf
    <3>10. ~IsWrapped(c, k) => Y[k].held + ClaimOf(c, x, k) + y.fees =
                y.held + ClaimOf(c, X[k], k) + Y[k].fees + E[k] + Zero[k]
      <4> DEFINE h == y.held
                 h2 == Y[k].held
                 f == y.fees
                 f2 == Y[k].fees
                 r == x.refundable
                 r2 == X[k].refundable
                 s == x.usable
                 e == E[k]
      <4>1. /\ h \in Nat /\ f \in Nat /\ r \in Nat /\ s \in Nat /\ f2 = f + fee
            /\ amt \in Nat /\ fee \in Nat
        BY <3>5, <3>6
      <4>2. ~IsWrapped(c, k) => \/ e = 0 - fee /\ r2 = r /\ h2 = h
                                \/ e = 0 - (fee + amt) /\ r2 = r + amt /\ h2 = h
                                \/ e = 0 - (fee + amt) /\ r2 = r /\ h2 = h - amt
        BY <3>4
      <4> HIDE DEF h, h2, f, f2, r, r2, s, e
      <4>3. ~IsWrapped(c, k) => h2 + (r + s) + f = h + (r2 + s) + f2 + e + 0  BY <4>1, <4>2
      <4> QED  BY <3>6, <3>9, <4>3 DEF h, h2, f, f2, r, r2, s, e
    <3>11. IsWrapped(c, k) => ClaimOf(c, x, k) + y.fees + x.wallet =
                ClaimOf(c, X[k], k) + Y[k].fees + X[k].wallet + E[k] + Zero[k]
      <4> DEFINE w == x.wallet
                 w2 == X[k].wallet
                 f == y.fees
                 f2 == Y[k].fees
                 r == x.refundable
                 r2 == X[k].refundable
                 e == E[k]
      <4>1. /\ w \in Nat /\ f \in Nat /\ r \in Nat /\ f2 = f + fee
            /\ amt \in Nat /\ fee \in Nat
        BY <3>5, <3>6
      <4>2. \/ e = 0 - fee /\ r2 = r /\ w2 = w
            \/ e = 0 - (fee + amt) /\ r2 = r + amt /\ w2 = w
            \/ e = 0 - (fee + amt) /\ r2 = r /\ w2 = w + amt
        BY <3>4
      <4> HIDE DEF w, w2, f, f2, r, r2, e
      <4>3. r + f + w = r2 + f2 + w2 + e + 0  BY <4>1, <4>2
      <4> QED  BY <3>6, <3>8, <4>3 DEF w, w2, f, f2, r, r2, e
    <3> QED  BY <3>7, <3>10, <3>11 DEF Balanced, x, y
  <2> QED  BY <1>1, <1>2, <1>6, <1>8, <1>10, <1>11, <2>2, <2>3, BridgedStep
<1>12. CASE q.from = BTS
  <2>1. Aggregator \in Accounts  BY DEF Accounts
  <2>2. SettleGathering(c, q, code)  BY <1>3, <1>12
  <2> DEFINE X == bal[c][Aggregator]
  <2>3. PICK Y \in [Coins -> Treasury] :
            /\ Moves(c, Aggregator, X, Y) /\ X \in [Coins -> Balance]
            /\ \A k \in Coins : SavesBack(c, q, code, Y, k)
    BY <1>1, <2>1, <2>2, SettleGatheringEffect
  <2>4. ASSUME NEW k \in Coins PROVE Balanced(c, Aggregator, X, Y, E, Zero, k)
    <3>1. /\ bal[c][Aggregator][k].usable \in Nat /\ bal[c][Aggregator][k].refundable \in Nat
          /\ bal[c][Aggregator][k].wallet \in Nat
          /\ bts[c][k].held \in Nat /\ bts[c][k].fees \in Nat
      BY <1>1, <2>1, BalanceFields, TreasuryFields
    <3>2. SavesBack(c, q, code, Y, k)  BY <2>3
    <3>3. /\ Amount(q.assets, k) \in Nat /\ Fee(q.assets, k) \in Nat /\ Zero[k] = 0
          /\ E[k] = 0 - (Fee(q.assets, k) + IF code = "RC_OK" THEN 0 ELSE Amount(q.assets, k))
      BY <1>9
    <3>4. Fee(q.assets, k) = 0  BY <1>2, <1>12, NoFee DEF Bridged, RequestsFit
    <3> DEFINE x == bal[c][Aggregator][k]
               y == bts[c][k]
               C == Claim(c, Aggregator, k)
    <3>5. C \in Nat /\ C = ClaimOf(c, X[k], k)  BY <3>1 DEF Claim, ClaimOf
    <3>6. /\ y.held \in Nat /\ y.fees \in Nat /\ x.wallet \in Nat /\ X[k].wallet = x.wallet
          /\ Y[k].held = y.held /\ E[k] \in Int
          /\ Y[k].fees + E[k] = y.fees
      BY <3>1, <3>2, <3>3, <3>4 DEF SavesBack
    <3>7. Y[k].fees \in Nat  BY DEF Treasury
    <3> HIDE DEF x, y, C, X
    <3>8. Y[k].held + C + y.fees = y.held + C + Y[k].fees + E[k] + 0  BY <3>5, <3>6, <3>7
    <3>9. C + y.fees + x.wallet = C + Y[k].fees + X[k].wallet + E[k] + 0  BY <3>5, <3>6, <3>7
    <3> QED  BY <3>3, <3>5, <3>8, <3>9 DEF Balanced, x, y, C
  <2> HIDE DEF X
  <2> QED  BY <1>1, <1>6, <1>8, <1>10, <2>1, <2>3, <2>4, BridgedStep
<1> QED  BY <1>11, <1>12

\* A BTS never holds less than an answer makes it burn, and every answer finds
\* its request.
LEMMA AnswerSettles ==
    ASSUME BooksInv, ~wrappedUsable, Bridged, NEW c \in Chains, chan[c] # <<>>,
           Head(chan[c]).type \in {"response", "error"}, NEW code
    PROVE  \E q \in Pending(c, Head(chan[c]).sn) : Settles(c, q, code)
<1>1. TypeOK /\ RequestsNumbered /\ BurnCovered  BY DEF BooksInv
<1>2. chan[c] \in Seq(Message)  BY <1>1 DEF TypeOK
<1>3. 1 \in DOMAIN chan[c] /\ Head(chan[c]) = chan[c][1]  BY <1>2, TailPlaces
<1>4. PICK d \in Chains : \E q \in requests[d] : Decides(c, chan[c][1]) = <<d, q.sn>>
  BY <1>3 DEF Bridged, Decided, DecidesPending, Deciding
<1>5. PICK q \in requests[d] : Decides(c, chan[c][1]) = <<d, q.sn>>  BY <1>4
<1>6. d = c /\ q.sn = Head(chan[c]).sn  BY <1>3, <1>5 DEF Decides
<1>7. Len(q.assets) <= MaxBatchSize  BY DEF Bridged, RequestsFit
<1>8. ASSUME NEW k \in Coins PROVE Burned(c, q, k) <= bts[c][k].held
  <2>1. bts[c][k].held \in Nat /\ bts[c][k].fees \in Nat  BY <1>1, TreasuryFields
  <2>2. CASE ~IsWrapped(c, k)  BY <2>1, <2>2 DEF Burned
  <2>3. CASE IsWrapped(c, k)
    <3> DEFINE F == [p \in requests[c] |-> Total(p.assets, k)]
    <3>1. bts[c][k].held >= bts[c][k].fees + Refundables(c, k) + PendingTotal(c, k)
      BY <1>1, <2>3, BooksByCoin
    <3>2. /\ Refundables(c, k) \in Nat /\ PendingTotal(c, k) \in Nat
          /\ \A p \in requests[c] : Total(p.assets, k) \in Nat
      BY <1>1, AccountSums, PendingSums
    <3>3. Total(q.assets, k) <= PendingTotal(c, k)
      <4>1. F[q] = Total(q.assets, k) /\ IsFiniteSet(requests[c]) /\ \A p \in requests[c] : F[p] \in Nat
        BY <1>1, <1>6, <3>2 DEF RequestsNumbered
      <4>2. F[q] <= Sum(F, requests[c])
        <5> HIDE DEF F
        <5> QED  BY <1>6, <4>1, SumBounds
      <4> QED  BY <4>1, <4>2 DEF PendingTotal
    <3>4. q.assets \in Seq(Asset)  BY <1>1, RequestFields DEF TypeOK
    <3>5. /\ Amount(q.assets, k) \in Nat /\ Fee(q.assets, k) \in Nat
          /\ Total(q.assets, k) = Amount(q.assets, k) + Fee(q.assets, k)
      BY <3>4, AssetSums
    <3>6. Burned(c, q, k) <= Total(q.assets, k) /\ Burned(c, q, k) \in Nat
      BY <3>5 DEF Burned
    <3> QED  BY <2>1, <3>1, <3>2, <3>3, <3>5, <3>6
  <2> QED  BY <2>2, <2>3
<1> QED  BY <1>6, <1>7, <1>8 DEF Pending, Settles

\* A response or an error is handled or dropped.
LEMMA AnswerBridged ==
    ASSUME BooksInv, BooksInv', ~wrappedUsable, Bridged, NEW c \in Chains,
           \/ HandleResponse(c) \/ RejectResponse(c) \/ HandleError(c) \/ DropError(c)
    PROVE  Bridged'
<1>1. TypeOK  BY DEF BooksInv
<1>2. CASE HandleResponse(c)
  <2>1. Receives(c, "response") /\ chan' = Handled(c, <<>>)  BY <1>2 DEF HandleResponse
  <2>2. PICK q \in Pending(c, Head(chan[c]).sn) : Settle(c, q, Head(chan[c]).code)
    BY <1>2 DEF HandleResponse
  <2>3. /\ Head(chan[c]).type = "response" /\ chan[c] # <<>>
        /\ Head(chan[c]).code \in {"RC_OK", "RC_ERR"}
    BY <1>1, <2>1, HeadType, MessageFields
  <2>4. q \in requests[c] /\ Head(chan[c]).sn = q.sn  BY DEF Pending
  <2>5. Head(chan[c]).code = "RC_OK" <=> IsOk(Head(chan[c]), q.sn)  BY <2>3, <2>4 DEF IsOk
  <2> QED  BY <2>1, <2>2, <2>3, <2>4, <2>5, SettleBridged
<1>3. CASE HandleError(c)
  <2>1. Receives(c, "error") /\ chan' = Handled(c, <<>>)  BY <1>3 DEF HandleError
  <2>2. PICK q \in Pending(c, Head(chan[c]).sn) : Settle(c, q, "RC_ERR")
    BY <1>3 DEF HandleError
  <2>3. Head(chan[c]).type = "error" /\ chan[c] # <<>>  BY <2>1 DEF Receives
  <2>4. q \in requests[c] /\ Head(chan[c]).sn = q.sn  BY DEF Pending
  <2>5. "RC_ERR" = "RC_OK" <=> IsOk(Head(chan[c]), q.sn)  BY <2>3 DEF IsOk
  <2> QED  BY <2>1, <2>2, <2>3, <2>4, <2>5, SettleBridged
<1>4. CASE RejectResponse(c)
  BY <1>4, AnswerSettles DEF RejectResponse, Receives
<1>5. CASE DropError(c)
  BY <1>5, AnswerSettles DEF DropError, Receives
<1> QED  BY <1>2, <1>3, <1>4, <1>5

\* Fee gathering of ICON keeps the bridge.
LEMMA GatherFeesBridged ==
    ASSUME BooksInv, BooksInv', Bridged, GatherFees
    PROVE  Bridged'
<1>1. TypeOK /\ RequestsNumbered /\ TypeOK'  BY DEF BooksInv
<1>2. "icon" \in Chains /\ Aggregator \in Accounts  BY DEF Chains, Accounts
<1>3. UNCHANGED requests /\ chan' = Sent("icon", <<[type |-> "gather"]>>)  BY DEF GatherFees
<1>4. PICK m \in Message : m = [type |-> "gather"]
  <2>1. [type |-> "gather"] \in Message  BY DEF Message
  <2> QED  BY <2>1
<1>5. Rearranged("icon", 0, 1, m)  BY <1>1, <1>2, <1>3, <1>4, SentPlaces
<1>6. /\ Decided'
      /\ \A d \in Chains : \A q \in requests[d] : Accepted(d, q)' <=> Accepted(d, q)
  <2>1. Decided /\ m.type = "gather"  BY <1>4 DEF Bridged
  <2> QED  BY <1>2, <1>3, <1>5, <2>1, GatherSent
<1>7. PICK X \in [Coins -> Balance], Y \in [Coins -> Treasury] :
            Moves("icon", Aggregator, X, Y) /\ \A k \in Coins : Gathers(X, Y, k)
  BY <1>1, GatherFeesEffect
<1>8. OwedChange("icon", Zero, Zero) /\ Zero \in [Coins -> Int]
  BY <1>1, <1>2, <1>3, <1>6, OwedAsBefore
<1>9. RequestsFit'  BY <1>3, SameRequestsFit DEF Bridged
<1>10. ASSUME NEW k \in Coins PROVE Balanced("icon", Aggregator, X, Y, Zero, Zero, k)
  <2> DEFINE y == bts["icon"][k]
             w == bal["icon"][Aggregator][k].wallet
             C == Claim("icon", Aggregator, k)
  <2>1. y.held \in Nat /\ y.fees \in Nat /\ w \in Nat /\ Zero[k] = 0
    BY <1>1, <1>2, BalanceFields, TreasuryFields DEF Zero
  <2>2. C \in Nat
    <3>1. /\ bal["icon"][Aggregator][k].refundable \in Nat
          /\ bal["icon"][Aggregator][k].usable \in Nat
      BY <1>1, <1>2, BalanceFields
    <3> QED  BY <3>1 DEF Claim
  <2>3. Gathers(X, Y, k)  BY <1>7
  <2>4. ClaimOf("icon", X[k], k) = C  BY <2>3 DEF Gathers, Claim, ClaimOf
  <2>5. \/ X[k].wallet = w /\ Y[k].held = y.held /\ Y[k].fees = y.fees
        \/ X[k].wallet = w + y.fees /\ Y[k].held = y.held - y.fees /\ Y[k].fees = 0
    BY <2>3 DEF Gathers
  <2> HIDE DEF y, w, C
  <2>6. Y[k].held + C + y.fees = y.held + C + Y[k].fees + 0 + 0  BY <2>1, <2>2, <2>5
  <2>7. C + y.fees + w = C + Y[k].fees + X[k].wallet + 0 + 0  BY <2>1, <2>2, <2>5
  <2> QED  BY <2>1, <2>4, <2>6, <2>7 DEF Balanced, y, w, C
<1> QED  BY <1>1, <1>2, <1>6, <1>7, <1>8, <1>9, <1>10, BridgedStep

\* Fee gathering of the EVM chain keeps the bridge.
LEMMA HandleGatherBridged ==
    ASSUME BooksInv, BooksInv', SmallBatches, Bridged, HandleGather
    PROVE  Bridged'
<1>1. TypeOK /\ RequestsNumbered /\ TypeOK'  BY DEF BooksInv
<1>2. "evm" \in Chains /\ Aggregator \in Accounts /\ BTS \in Users \cup {BTS}
  BY DEF Chains, Accounts
<1> DEFINE assets == GatherAssets
           X == bal["evm"][Aggregator]
<1>3. /\ Record("evm", BTS, assets)
      /\ chan' = Handled("evm", <<RequestMessage("evm", Aggregator, assets)>>)
      /\ \E Y \in [Coins -> Treasury] :
                /\ Moves("evm", Aggregator, X, Y)
                /\ X \in [Coins -> Balance]
                /\ \A k \in Coins : Y[k].held = bts["evm"][k].held /\ Y[k].fees = 0
  BY <1>1, <1>2, HandleGatherEffect
<1>4. /\ assets \in Seq(Asset) /\ Len(assets) <= MaxBatchSize
      /\ \A i \in DOMAIN assets : assets[i].fee = 0
      /\ \A i, j \in DOMAIN assets : assets[i].coin = assets[j].coin => i = j
      /\ \A k \in Coins : Amount(assets, k) = bts["evm"][k].fees /\ Fee(assets, k) = 0
  <2>1. /\ assets \in Seq(Asset)
        /\ Len(assets) <= Cardinality(Coins) /\ Cardinality(Coins) \in Nat
        /\ \A i \in DOMAIN assets : assets[i].fee = 0
        /\ \A i, j \in DOMAIN assets : assets[i].coin = assets[j].coin => i = j
        /\ \A k \in Coins : Amount(assets, k) = bts["evm"][k].fees /\ Fee(assets, k) = 0
    BY <1>1, GatherAssetsType
  <2>2. Cardinality(Coins) <= MaxBatchSize /\ MaxBatchSize \in Nat
    BY BatchAssumption DEF SmallBatches
  <2>3. Len(assets) \in Nat  BY <2>1, LenProperties
  <2> HIDE DEF assets
  <2> QED  BY <2>1, <2>2, <2>3
<1>5. PICK gathered : gathered = assets  OBVIOUS
<1> HIDE DEF assets
<1>6. PICK m : m = RequestMessage("evm", Aggregator, gathered)  OBVIOUS
<1>7. m \in Message
  <2>1. serialNo["evm"] + 1 \in Nat  BY <1>1, <1>2 DEF TypeOK
  <2> QED  BY <1>2, <1>4, <1>5, <1>6, <2>1 DEF RequestMessage, Message
<1>8. /\ chan["evm"] # <<>> /\ Head(chan["evm"]).type = "gather"
  BY DEF HandleGather, Receives
<1>9. Rearranged("evm", 1, 1, m) /\ 1 \in DOMAIN chan["evm"] /\ Head(chan["evm"]) = chan["evm"][1]
  BY <1>1, <1>2, <1>3, <1>5, <1>6, <1>7, <1>8, AnsweredPlaces
<1>10. /\ Decided'
       /\ \A d \in Chains : \A q \in requests[d] : Accepted(d, q)' <=> Accepted(d, q)
       /\ \A q : q = NewRequest("evm", BTS, gathered) => ~Accepted("evm", q)'
  <2>1. Decided /\ Record("evm", BTS, gathered) /\ gathered \in Seq(Asset)
    BY <1>3, <1>4, <1>5 DEF Bridged
  <2>2. PICK t \in {0, 1} : t = 1  OBVIOUS
  <2>3. Rearranged("evm", t, 1, m)  BY <1>9, <2>2
  <2> QED  BY <1>1, <1>2, <1>6, <1>8, <1>9, <2>1, <2>2, <2>3, RequestSent
<1> DEFINE E == [k \in Coins |-> Total(gathered, k)]
<1>11. /\ OwedChange("evm", E, Zero) /\ E \in [Coins -> Int] /\ Zero \in [Coins -> Int]
  <2>1. Record("evm", BTS, gathered) /\ gathered \in Seq(Asset)  BY <1>3, <1>4, <1>5
  <2> QED  BY <1>1, <1>2, <1>10, <2>1, OwedSent
<1>12. RequestsFit'
  <2>1. RequestsFit  BY DEF Bridged
  <2> QED  BY <1>1, <1>2, <1>3, <1>4, <1>5, <2>1, FitRecorded
<1>13. PICK Y \in [Coins -> Treasury] :
            /\ Moves("evm", Aggregator, X, Y) /\ X \in [Coins -> Balance]
            /\ \A k \in Coins : Y[k].held = bts["evm"][k].held /\ Y[k].fees = 0
  BY <1>3
<1>14. ASSUME NEW k \in Coins PROVE Balanced("evm", Aggregator, X, Y, E, Zero, k)
  <2> DEFINE y == bts["evm"][k]
             w == bal["evm"][Aggregator][k].wallet
             C == Claim("evm", Aggregator, k)
  <2>1. y.held \in Nat /\ y.fees \in Nat /\ w \in Nat /\ Zero[k] = 0
    BY <1>1, <1>2, BalanceFields, TreasuryFields DEF Zero
  <2>2. C \in Nat
    <3>1. /\ bal["evm"][Aggregator][k].refundable \in Nat
          /\ bal["evm"][Aggregator][k].usable \in Nat
      BY <1>1, <1>2, BalanceFields
    <3> QED  BY <3>1 DEF Claim
  <2>3. ClaimOf("evm", X[k], k) = C /\ X[k].wallet = w  BY DEF Claim, ClaimOf
  <2>4. Y[k].held = y.held /\ Y[k].fees = 0  BY <1>13
  <2>5. E[k] = y.fees
    <3>1. Amount(gathered, k) = y.fees /\ Fee(gathered, k) = 0  BY <1>4, <1>5
    <3> HIDE DEF y
    <3> QED  BY <2>1, <3>1 DEF Total
  <2> HIDE DEF y, w, C, E, X
  <2>6. Y[k].held + C + y.fees = y.held + C + Y[k].fees + E[k] + 0  BY <2>1, <2>2, <2>4, <2>5
  <2>7. C + y.fees + w = C + Y[k].fees + X[k].wallet + E[k] + 0  BY <2>1, <2>2, <2>3, <2>4, <2>5
  <2> QED  BY <2>1, <2>3, <2>6, <2>7 DEF Balanced, y, w, C
<1> HIDE DEF E, X
<1> QED  BY <1>1, <1>2, <1>10, <1>11, <1>12, <1>13, <1>14, BridgedStep

-----------------------------------------------------------------------------
\* The invariant of both chains, and what follows from it.

\* BridgeInv is Bridged where users deposit no wrapped coins.
LEMMA BridgeByCoin == BridgeInv <=> (~wrappedUsable => Bridged)
BY BackedByCoin DEF BridgeInv, Bridged, Decided

\* The bridge is empty at first.
LEMMA InitBridged == Init => Bridged
<1> SUFFICES ASSUME Init PROVE Bridged  OBVIOUS
<1>1. \A c \in Chains : requests[c] = {} /\ chan[c] = <<>>  BY DEF Init
<1>2. RequestsFit  BY <1>1 DEF RequestsFit
<1>3. Decided
  <2>1. \A c \in Chains : DOMAIN chan[c] = {}  BY <1>1
  <2> QED  BY <1>1, <2>1 DEF Decided, DecidedOnce, DecidesPending, PendingDecided
<1>4. ASSUME NEW k \in Coins PROVE BackedCoin(k)
  <2>1. ASSUME NEW c \in Chains
        PROVE  Claims(c, k) = 0 /\ PendingOwed(c, k) = 0 /\ (Home(k) # c => Wallets(c, k) = 0)
    <3>1. \A u \in Accounts : /\ bal[c][u][k].usable = 0 /\ bal[c][u][k].refundable = 0
                              /\ Home(k) # c => bal[c][u][k].wallet = 0
      BY DEF Init
    <3> DEFINE W == [u \in Accounts |-> bal[c][u][k].wallet]
               F == [u \in Accounts |-> Claim(c, u, k)]
    <3>2. \A u \in Accounts : F[u] = 0 /\ (Home(k) # c => W[u] = 0)  BY <3>1 DEF Claim
    <3>3. Sum(F, Accounts) = 0 /\ (Home(k) # c => Sum(W, Accounts) = 0)
      <4> HIDE DEF F, W
      <4> QED  BY <3>2, AccountsFinite, SumZero
    <3>4. PendingOwed(c, k) = 0  BY <1>1, SumEmpty DEF PendingOwed
    <3> QED  BY <3>3, <3>4 DEF Claims, Wallets
  <2>2. PICK h \in Chains : h = Home(k)  BY DEF Home, Chains
  <2>3. PICK w \in Chains : w = Other(h) /\ w # h  BY OtherChain
  <2>4. bts[h][k].held = 0 /\ bts[h][k].fees = 0 /\ bts[w][k].fees = 0  BY DEF Init
  <2> QED  BY <2>1, <2>2, <2>3, <2>4 DEF BackedCoin
<1> QED  BY <1>2, <1>3, <1>4 DEF Bridged

\* Every step keeps the bridge.
LEMMA NextBridged ==
    ASSUME BooksInv, BooksInv', SmallBatches, ~wrappedUsable, Bridged, [Next]_vars
    PROVE  Bridged'
<1>1. CASE UNCHANGED vars
  <2>1. UNCHANGED <<bal, bts, requests, chan>>  BY <1>1 DEF vars
  <2>2. PICK c \in Chains : c = "icon"  BY DEF Chains
  <2>3. TypeOK /\ RequestsNumbered  BY DEF BooksInv
  <2>4. Decided'  BY <2>1, <2>2, <2>3, NothingSent
  <2>5. \A d \in Chains : \A q \in requests[d] : Accepted(d, q)' <=> Accepted(d, q)
    BY <2>1 DEF Accepted
  <2> QED  BY <2>1, <2>4, <2>5, NothingMoved
<1>2. CASE \E c \in Chains : \E u, v \in Users : \E b \in Batches(c) : Transfer(c, u, v, b)
  BY <1>2, TransferBridged
<1>3. CASE \E c \in Chains : Handle(c)
  <2>1. PICK c \in Chains : Handle(c)  BY <1>3
  <2>2. CASE AcceptRequest(c)  BY <2>2, AcceptBridged
  <2>3. CASE RejectRequest(c)  BY <2>3, RejectBridged
  <2>4. CASE HandleResponse(c) \/ RejectResponse(c) \/ HandleError(c) \/ DropError(c)
    BY <2>4, AnswerBridged
  <2>5. CASE HandleGather  BY <2>5, HandleGatherBridged
  <2> QED  BY <2>1, <2>2, <2>3, <2>4, <2>5 DEF Handle
<1>4. CASE GatherFees  BY <1>4, GatherFeesBridged
<1>5. CASE \E u \in Users, k \in Coins, v \in Values :
            Deposit(u, k, v) \/ \E c \in Chains : Reclaim(c, u, k, v)
  BY <1>5, ValuesAssumption, DepositBridged, ReclaimBridged
<1> QED  BY <1>1, <1>2, <1>3, <1>4, <1>5 DEF Next

\* Whether users deposit wrapped coins does not change.
LEMMA UsableFixed == [Next]_vars => wrappedUsable' = wrappedUsable
<1>1. ASSUME NEW c \in Chains, Handle(c) PROVE wrappedUsable' = wrappedUsable
  BY <1>1 DEF Handle, AcceptRequest, RejectRequest, HandleResponse, RejectResponse,
              HandleError, DropError, Settle, HandleGather
<1>2. ASSUME NEW c \in Chains, NEW u, NEW v, NEW b, Transfer(c, u, v, b)
      PROVE  wrappedUsable' = wrappedUsable
  BY <1>2 DEF Transfer
<1>3. GatherFees => wrappedUsable' = wrappedUsable  BY DEF GatherFees
<1>4. ASSUME NEW u, NEW k, NEW v, Deposit(u, k, v) PROVE wrappedUsable' = wrappedUsable
  BY <1>4 DEF Deposit
<1>5. ASSUME NEW c, NEW u, NEW k, NEW v, Reclaim(c, u, k, v) PROVE wrappedUsable' = wrappedUsable
  BY <1>5 DEF Reclaim
<1> QED  BY <1>1, <1>2, <1>3, <1>4, <1>5 DEF Next, vars

(***************************************************************************)
(* The inductive invariant of the two BTS and the messages between them:   *)
(* the books of each chain agree with its requests, and, as long as no     *)
(* request is larger than a batch and none names a coin twice, each        *)
(* message decides a pending request, each pending request is decided by   *)
(* one message, and every wrapped coin is backed.                          *)
(***************************************************************************)
THEOREM Bridge == Spec => []BTSInv
<1>1. Init => BTSInv  BY InitBooks, InitBridged, BridgeByCoin DEF BTSInv
<1>2. BTSInv /\ [Next]_vars => BTSInv'
  <2> SUFFICES ASSUME BTSInv, [Next]_vars PROVE BTSInv'  OBVIOUS
  <2>1. BooksInv /\ BooksInv'  BY NextBooks DEF BTSInv
  <2>2. ASSUME SmallBatches, ~wrappedUsable' PROVE Bridged'
    <3>1. ~wrappedUsable  BY <2>2, UsableFixed
    <3>2. Bridged  BY <2>2, <3>1, BridgeByCoin DEF BTSInv
    <3> QED  BY <2>1, <2>2, <3>1, <3>2, NextBridged
  <2>3. BridgeInv' <=> (~wrappedUsable' => Bridged')  BY BridgeByCoin, PTL
  <2>4. SmallBatches => BridgeInv'  BY <2>2, <2>3
  <2>5. SmallBatches' <=> SmallBatches  BY DEF SmallBatches
  <2> QED  BY <2>1, <2>4, <2>5 DEF BTSInv
<1> QED  BY <1>1, <1>2, PTL DEF Spec

(***************************************************************************)
(* Every wrapped coin is backed by what the BTS of the home chain holds,   *)
(* whatever is refunded, reclaimed or gathered, and whatever answer comes. *)
(***************************************************************************)
THEOREM WrappedIsBacked ==
    ASSUME SmallBatches
    PROVE  Spec => []WrappedBacked
<1>1. BTSInv => WrappedBacked
  BY DEF BTSInv, BridgeInv, WrappedBacked
<1> QED  BY <1>1, Bridge, PTL

\* The inductive invariant allows one answer for a request.
LEMMA OneAnswerHolds ==
    ASSUME BTSInv, SmallBatches
    PROVE  OneAnswer
<1> SUFFICES ASSUME ~wrappedUsable, NEW c \in Chains, NEW sn \in 1 .. serialNo[c]
             PROVE  Cardinality(About(c, sn)) = Cardinality(Pending(c, sn))
  BY DEF OneAnswer
<1>1. Bridged  BY BridgeByCoin DEF BTSInv
<1>2. TypeOK /\ RequestsNumbered  BY DEF BTSInv, BooksInv
<1>3. PICK o \in Chains : o = Other(c) /\ o # c /\ Other(o) = c /\ \A d \in Chains : d = c \/ d = o
  BY OtherChain
<1>4. ASSUME NEW d \in Chains, NEW i \in DOMAIN chan[d], Deciding(d, i)
      PROVE  chan[d][i].type \in {"request", "response", "error"}
  <2>1. chan[d][i] \in Message  BY <1>2, ElementOfSeq, LenProperties DEF TypeOK
  <2> QED  BY <1>4, <2>1, MessageFields DEF Deciding
<1> DEFINE Requests == {i \in DOMAIN chan[o] : chan[o][i].type = "request" /\ chan[o][i].sn = sn}
           Answers == {i \in DOMAIN chan[c] :
                            chan[c][i].type \in {"response", "error"} /\ chan[c][i].sn = sn}
<1>5. About(c, sn) = (Requests \X {"request"}) \cup (Answers \X {"answer"})
  BY <1>3 DEF About
<1>6. ASSUME NEW i \in Requests PROVE i \in DOMAIN chan[o] /\ Deciding(o, i) /\ Decides(o, chan[o][i]) = <<c, sn>>
  BY <1>3 DEF Deciding, Decides
<1>7. ASSUME NEW i \in Answers PROVE i \in DOMAIN chan[c] /\ Deciding(c, i) /\ Decides(c, chan[c][i]) = <<c, sn>>
  BY DEF Deciding, Decides
<1>8. ASSUME NEW d \in Chains, NEW i \in DOMAIN chan[d], Deciding(d, i), Decides(d, chan[d][i]) = <<c, sn>>
      PROVE  (d = o /\ i \in Requests) \/ (d = c /\ i \in Answers)
  BY <1>3, <1>4, <1>8 DEF Decides
<1>9. CASE Pending(c, sn) = {}
  <2>1. ASSUME NEW d \in Chains, NEW i \in DOMAIN chan[d], Deciding(d, i)
        PROVE  Decides(d, chan[d][i]) # <<c, sn>>
    <3>1. PICK e \in Chains : \E q \in requests[e] : Decides(d, chan[d][i]) = <<e, q.sn>>
      BY <1>1, <2>1 DEF Bridged, Decided, DecidesPending
    <3> QED  BY <1>9, <3>1 DEF Pending
  <2>2. Requests = {}  BY <1>3, <1>6, <2>1
  <2>3. Answers = {}  BY <1>7, <2>1
  <2> HIDE DEF Requests, Answers
  <2>4. About(c, sn) = {}  BY <1>5, <2>2, <2>3
  <2> QED  BY <1>9, <2>4
<1>10. CASE Pending(c, sn) # {}
  <2>1. PICK q : q \in Pending(c, sn)  BY <1>10
  <2>2. q \in requests[c] /\ q.sn = sn  BY <2>1 DEF Pending
  <2>3. Pending(c, sn) = {q}  BY <1>2, <2>2 DEF Pending, RequestsNumbered
  <2>4. PICK d \in Chains : \E i \in DOMAIN chan[d] :
            Deciding(d, i) /\ Decides(d, chan[d][i]) = <<c, sn>>
    BY <1>1, <2>2 DEF Bridged, Decided, PendingDecided
  <2>5. PICK i \in DOMAIN chan[d] : Deciding(d, i) /\ Decides(d, chan[d][i]) = <<c, sn>>
    BY <2>4
  <2>6. ASSUME NEW e \in Chains, NEW j \in DOMAIN chan[e], Deciding(e, j),
               Decides(e, chan[e][j]) = <<c, sn>>
        PROVE  e = d /\ j = i
    BY <1>1, <2>5, <2>6 DEF Bridged, Decided, DecidedOnce
  <2>7. CASE d = o /\ i \in Requests
    <3>1. Requests = {i}  BY <1>3, <1>6, <2>6, <2>7
    <3>2. Answers = {}  BY <1>3, <1>7, <2>6, <2>7
    <3> HIDE DEF Requests, Answers
    <3>3. About(c, sn) = {<<i, "request">>}  BY <1>5, <3>1, <3>2
    <3> QED  BY <2>3, <3>3, FS_Singleton
  <2>8. CASE d = c /\ i \in Answers
    <3>1. Answers = {i}  BY <1>7, <2>6, <2>8
    <3>2. Requests = {}  BY <1>3, <1>6, <2>6, <2>8
    <3> HIDE DEF Requests, Answers
    <3>3. About(c, sn) = {<<i, "answer">>}  BY <1>5, <3>1, <3>2
    <3> QED  BY <2>3, <3>3, FS_Singleton
  <2> QED  BY <1>8, <2>5, <2>7, <2>8
<1> QED  BY <1>9, <1>10

(***************************************************************************)
(* A request is answered once: there is one message that decides it while  *)
(* it is pending, and none once it is settled.                             *)
(***************************************************************************)
THEOREM AnsweredOnce ==
    ASSUME SmallBatches
    PROVE  Spec => []OneAnswer
<1>1. BTSInv => OneAnswer  BY OneAnswerHolds
<1> QED  BY <1>1, Bridge, PTL

=============================================================================
