----------------------------- MODULE Sums_proofs -----------------------------
(***************************************************************************)
(* What Sum computes.  The fold that defines it chooses the elements of    *)
(* the set in some order; the lemmas show that the order does not matter.  *)
(* The induction is on the number of elements, through the least element   *)
(* of a set of numbers (WFMin), which needs no operator as a parameter.    *)
(* Then what Keep selects from a sequence: the elements at the positions,  *)
(* in order, and the whole rest when the positions are the last ones.      *)
(***************************************************************************)
EXTENDS Sums, Select, FiniteSetTheorems, WellFoundedInduction, TLAPS

-----------------------------------------------------------------------------
\* Induction.

\* A set with 0 and with the successor of each of its numbers has all of them.
LEMMA NatSet ==
    ASSUME NEW I, 0 \in I, \A n \in Nat : n \in I => n + 1 \in I
    PROVE  \A n \in Nat : n \in I
<1> DEFINE T == Nat \ I
<1> SUFFICES ASSUME T # {} PROVE FALSE
  OBVIOUS
<1>1. PICK x \in T : \A y \in T : <<y, x>> \notin OpToRel(<, Nat)
  <2> HIDE DEF T
  <2>1. T \subseteq Nat  BY DEF T
  <2> QED  BY <2>1, NatLessThanWellFounded, WFMin
<1>2. \A y \in T : ~(y < x)  BY <1>1 DEF OpToRel
<1>3. x # 0 /\ x - 1 \in Nat  OBVIOUS
<1>4. x - 1 \in I  BY <1>2, <1>3
<1> QED  BY <1>3, <1>4

\* The same with all smaller numbers at hand.
LEMMA NatSetBelow ==
    ASSUME NEW I, \A n \in Nat : (\A m \in Nat : m < n => m \in I) => n \in I
    PROVE  \A n \in Nat : n \in I
<1> DEFINE J == {n \in Nat : \A m \in Nat : m < n => m \in I}
<1>1. 0 \in J  OBVIOUS
<1>2. \A n \in Nat : n \in J => n + 1 \in J
  <2> SUFFICES ASSUME NEW n \in Nat, n \in J, NEW m \in Nat, m < n + 1
               PROVE  m \in I
    OBVIOUS
  <2>1. n \in I  OBVIOUS
  <2>2. m < n \/ m = n  OBVIOUS
  <2> QED  BY <2>1, <2>2
<1> HIDE DEF J
<1>3. \A n \in Nat : n \in J  BY <1>1, <1>2, NatSet
<1> QED  BY <1>3 DEF J

\* The cardinality of a finite set, and of what is left without an element.
LEMMA CardRemove ==
    ASSUME NEW S, IsFiniteSet(S), NEW x \in S
    PROVE  /\ IsFiniteSet(S \ {x})
           /\ Cardinality(S) \in Nat /\ Cardinality(S \ {x}) \in Nat
           /\ Cardinality(S \ {x}) < Cardinality(S)
           /\ Cardinality(S) = Cardinality(S \ {x}) + 1
<1>1. Cardinality(S) \in Nat  BY FS_CardinalityType
<1>2. IsFiniteSet(S \ {x}) /\ Cardinality(S \ {x}) = Cardinality(S) - 1
  BY FS_RemoveElement
<1>3. Cardinality(S \ {x}) \in Nat  BY <1>2, FS_CardinalityType
<1> QED  BY <1>1, <1>2, <1>3

-----------------------------------------------------------------------------
\* The function that the fold computes.

pick(s) == CHOOSE x \in s : TRUE

\* g[s] is the sum of F over s, for each subset s of S.
IsFold(F, S, g) ==
    g = [s \in SUBSET S |-> IF s = {} THEN 0 ELSE F[pick(s)] + g[s \ {pick(s)}]]

Folded(F, S) == CHOOSE g : IsFold(F, S, g)

\* The element that a sum takes out of a set is one of the set.
LEMMA PickIn == ASSUME NEW S, S # {} PROVE pick(S) \in S
BY DEF pick

\* A sum is the fold of the library, with its recursion by name.
LEMMA SumIsFolded == ASSUME NEW F, NEW S PROVE Sum(F, S) = Folded(F, S)[S]
BY DEF Sum, MapThenSumSet, MapThenFoldSet, Folded, IsFold, pick

\* There is at most one.
LEMMA IsFoldUnique ==
    ASSUME NEW F, NEW S, IsFiniteSet(S), NEW g, NEW h, IsFold(F, S, g), IsFold(F, S, h)
    PROVE  g = h
<1> DEFINE I == {n \in Nat : \A s \in SUBSET S : Cardinality(s) = n => g[s] = h[s]}
<1>1. ASSUME NEW n \in Nat, \A m \in Nat : m < n => m \in I
      PROVE  n \in I
  <2> SUFFICES ASSUME NEW s \in SUBSET S, Cardinality(s) = n
               PROVE  g[s] = h[s]
    OBVIOUS
  <2>1. g[s] = IF s = {} THEN 0 ELSE F[pick(s)] + g[s \ {pick(s)}]  BY DEF IsFold
  <2>2. h[s] = IF s = {} THEN 0 ELSE F[pick(s)] + h[s \ {pick(s)}]  BY DEF IsFold
  <2>3. CASE s = {}  BY <2>1, <2>2, <2>3
  <2>4. CASE s # {}
    <3>1. pick(s) \in s  BY <2>4, PickIn
    <3>2. IsFiniteSet(s)  BY FS_Subset
    <3>3. Cardinality(s \ {pick(s)}) \in Nat /\ Cardinality(s \ {pick(s)}) < n
      BY <3>1, <3>2, CardRemove
    <3>4. g[s \ {pick(s)}] = h[s \ {pick(s)}]  BY <1>1, <3>3
    <3> QED  BY <2>1, <2>2, <2>4, <3>4
  <2> QED  BY <2>3, <2>4
<1> HIDE DEF I
<1>2. \A n \in Nat : n \in I  BY <1>1, NatSetBelow
<1>3. ASSUME NEW s \in SUBSET S PROVE g[s] = h[s]
  <2>1. Cardinality(s) \in Nat  BY FS_Subset, FS_CardinalityType
  <2> QED  BY <1>2, <2>1 DEF I
<1> QED  BY <1>3 DEF IsFold

\* The sum over a subset does not depend on the set around it.
LEMMA IsFoldAgrees ==
    ASSUME NEW F, NEW S, NEW T \in SUBSET S, IsFiniteSet(T), NEW g, NEW h,
           IsFold(F, S, g), IsFold(F, T, h)
    PROVE  h[T] = g[T]
<1> DEFINE k == [s \in SUBSET T |-> g[s]]
<1>1. ASSUME NEW s \in SUBSET T
      PROVE  k[s] = IF s = {} THEN 0 ELSE F[pick(s)] + k[s \ {pick(s)}]
  <2>1. s \in SUBSET S /\ s \ {pick(s)} \in SUBSET T  OBVIOUS
  <2>2. g[s] = IF s = {} THEN 0 ELSE F[pick(s)] + g[s \ {pick(s)}]
    BY <2>1 DEF IsFold
  <2> QED  BY <2>1, <2>2
<1>2. IsFold(F, T, k)  BY <1>1 DEF IsFold
<1>3. k[T] = g[T]  OBVIOUS
<1> HIDE DEF k
<1>4. h = k  BY <1>2, IsFoldUnique
<1> QED  BY <1>3, <1>4

\* There is one.
LEMMA IsFoldExists ==
    ASSUME NEW F, NEW S, IsFiniteSet(S)
    PROVE  IsFold(F, S, Folded(F, S))
<1> DEFINE I == {n \in Nat : \A T : IsFiniteSet(T) /\ Cardinality(T) = n
                                    => IsFold(F, T, Folded(F, T))}
<1>1. ASSUME NEW n \in Nat, \A m \in Nat : m < n => m \in I
      PROVE  n \in I
  <2> SUFFICES ASSUME NEW T, IsFiniteSet(T), Cardinality(T) = n
               PROVE  IsFold(F, T, Folded(F, T))
    OBVIOUS
  <2> DEFINE p == pick(T)
             G == [s \in SUBSET T |-> IF s = T /\ T # {}
                                      THEN F[p] + Folded(F, T \ {p})[T \ {p}]
                                      ELSE IF s = {} THEN 0 ELSE Folded(F, s)[s]]
  <2>1. ASSUME NEW s \in SUBSET T, s # T
        PROVE  IsFold(F, s, Folded(F, s)) /\ IsFiniteSet(s)
    <3>1. IsFiniteSet(s) /\ Cardinality(s) <= n /\ Cardinality(s) # n
      BY <2>1, FS_Subset
    <3>2. Cardinality(s) \in Nat /\ Cardinality(s) < n
      BY <3>1, FS_CardinalityType
    <3> QED  BY <1>1, <3>1, <3>2
  <2>2. ASSUME NEW s \in SUBSET T, s # T, s # {}
        PROVE  /\ Folded(F, s)[s] = F[pick(s)] + Folded(F, s)[s \ {pick(s)}]
               /\ Folded(F, s)[s \ {pick(s)}] = Folded(F, s \ {pick(s)})[s \ {pick(s)}]
    <3> DEFINE u == s \ {pick(s)}
    <3>1. pick(s) \in s  BY <2>2, PickIn
    <3>2. u \in SUBSET T /\ u # T /\ u \in SUBSET s  BY <3>1
    <3>3. IsFold(F, s, Folded(F, s))  BY <2>1, <2>2
    <3>4. IsFold(F, u, Folded(F, u)) /\ IsFiniteSet(u)  BY <2>1, <3>2
    <3>5. Folded(F, u)[u] = Folded(F, s)[u]  BY <3>2, <3>3, <3>4, IsFoldAgrees
    <3>6. Folded(F, s)[s] = F[pick(s)] + Folded(F, s)[u]
      BY <2>2, <3>3 DEF IsFold
    <3> QED  BY <3>5, <3>6
  <2>3. Folded(F, {})[{}] = 0 \/ T = {}
    <3>1. CASE T # {}
      <4>1. IsFold(F, {}, Folded(F, {}))  BY <2>1, <3>1
      <4> QED  BY <4>1 DEF IsFold
    <3> QED  BY <3>1
  <2>4. ASSUME NEW s \in SUBSET T
        PROVE  G[s] = IF s = {} THEN 0 ELSE F[pick(s)] + G[s \ {pick(s)}]
    <3> DEFINE u == s \ {pick(s)}
    <3>1. CASE s = {}  BY <3>1
    <3>2. CASE s # {}
      <4>1. pick(s) \in s  BY <3>2, PickIn
      <4>2. u \in SUBSET T /\ u # T  BY <4>1
      <4>3. G[u] = IF u = {} THEN 0 ELSE Folded(F, u)[u]  BY <4>2
      <4>4. G[u] = Folded(F, u)[u]  BY <2>3, <3>2, <4>3
      <4>5. CASE s = T  BY <3>2, <4>4, <4>5
      <4>6. CASE s # T
        <5>1. G[s] = Folded(F, s)[s]  BY <3>2, <4>6
        <5> QED  BY <2>2, <3>2, <4>4, <4>6, <5>1
      <4> QED  BY <4>5, <4>6
    <3> QED  BY <3>1, <3>2
  <2>5. IsFold(F, T, G)  BY <2>4 DEF IsFold
  <2> HIDE DEF G
  <2> QED  BY <2>5 DEF Folded
<1> HIDE DEF I
<1>2. \A n \in Nat : n \in I  BY <1>1, NatSetBelow
<1>3. Cardinality(S) \in Nat  BY FS_CardinalityType
<1> QED  BY <1>2, <1>3 DEF I

-----------------------------------------------------------------------------
\* Sums.

\* A sum over nothing is zero.
LEMMA SumEmpty == ASSUME NEW F PROVE Sum(F, {}) = 0
<1>1. IsFiniteSet({})  BY FS_EmptySet
<1>2. IsFold(F, {}, Folded(F, {}))  BY <1>1, IsFoldExists
<1> QED  BY <1>2, SumIsFolded DEF IsFold

\* The element that the fold chooses first ...
LEMMA SumPick ==
    ASSUME NEW F, NEW S, IsFiniteSet(S), S # {}
    PROVE  Sum(F, S) = F[pick(S)] + Sum(F, S \ {pick(S)})
<1> DEFINE T == S \ {pick(S)}
<1>1. T \in SUBSET S /\ IsFiniteSet(T)  BY FS_Subset
<1>2. IsFold(F, S, Folded(F, S)) /\ IsFold(F, T, Folded(F, T))  BY <1>1, IsFoldExists
<1>3. Folded(F, S)[S] = F[pick(S)] + Folded(F, S)[T]  BY <1>2 DEF IsFold
<1>4. Folded(F, T)[T] = Folded(F, S)[T]  BY <1>1, <1>2, IsFoldAgrees
<1> QED  BY <1>3, <1>4, SumIsFolded

\* The sum of numbers is a number.
LEMMA SumNat ==
    ASSUME NEW F, NEW S, IsFiniteSet(S), \A x \in S : F[x] \in Nat
    PROVE  Sum(F, S) \in Nat
<1> DEFINE I == {n \in Nat : \A T \in SUBSET S : Cardinality(T) = n => Sum(F, T) \in Nat}
<1>1. ASSUME NEW n \in Nat, \A m \in Nat : m < n => m \in I
      PROVE  n \in I
  <2> SUFFICES ASSUME NEW T \in SUBSET S, Cardinality(T) = n
               PROVE  Sum(F, T) \in Nat
    OBVIOUS
  <2>1. CASE T = {}  BY <2>1, SumEmpty
  <2>2. CASE T # {}
    <3>1. IsFiniteSet(T) /\ pick(T) \in T  BY <2>2, FS_Subset, PickIn
    <3>2. Cardinality(T \ {pick(T)}) \in Nat /\ Cardinality(T \ {pick(T)}) < n
      BY <3>1, CardRemove
    <3>3. Sum(F, T \ {pick(T)}) \in Nat  BY <1>1, <3>2
    <3>4. F[pick(T)] \in Nat  BY <3>1
    <3> QED  BY <2>2, <3>1, <3>3, <3>4, SumPick
  <2> QED  BY <2>1, <2>2
<1> HIDE DEF I
<1>2. \A n \in Nat : n \in I  BY <1>1, NatSetBelow
<1>3. Cardinality(S) \in Nat  BY FS_CardinalityType
<1> QED  BY <1>2, <1>3 DEF I

\* Functions that are equal on the set have the same sum.
LEMMA SumEqual ==
    ASSUME NEW F, NEW G, NEW S, IsFiniteSet(S), \A x \in S : F[x] = G[x]
    PROVE  Sum(F, S) = Sum(G, S)
<1> DEFINE I == {n \in Nat : \A T \in SUBSET S : Cardinality(T) = n => Sum(F, T) = Sum(G, T)}
<1>1. ASSUME NEW n \in Nat, \A m \in Nat : m < n => m \in I
      PROVE  n \in I
  <2> SUFFICES ASSUME NEW T \in SUBSET S, Cardinality(T) = n
               PROVE  Sum(F, T) = Sum(G, T)
    OBVIOUS
  <2>1. CASE T = {}  BY <2>1, SumEmpty
  <2>2. CASE T # {}
    <3>1. IsFiniteSet(T) /\ pick(T) \in T  BY <2>2, FS_Subset, PickIn
    <3>2. Cardinality(T \ {pick(T)}) \in Nat /\ Cardinality(T \ {pick(T)}) < n
      BY <3>1, CardRemove
    <3>3. Sum(F, T \ {pick(T)}) = Sum(G, T \ {pick(T)})  BY <1>1, <3>2
    <3>4. F[pick(T)] = G[pick(T)]  BY <3>1
    <3> QED  BY <2>2, <3>1, <3>3, <3>4, SumPick
  <2> QED  BY <2>1, <2>2
<1> HIDE DEF I
<1>2. \A n \in Nat : n \in I  BY <1>1, NatSetBelow
<1>3. Cardinality(S) \in Nat  BY FS_CardinalityType
<1> QED  BY <1>2, <1>3 DEF I

\* ... may be any element: the order does not matter.
LEMMA SumRemove ==
    ASSUME NEW F, NEW S, IsFiniteSet(S), \A x \in S : F[x] \in Nat, NEW a \in S
    PROVE  Sum(F, S) = F[a] + Sum(F, S \ {a})
<1> DEFINE I == {n \in Nat : \A T \in SUBSET S : \A x \in T :
                    Cardinality(T) = n => Sum(F, T) = F[x] + Sum(F, T \ {x})}
<1>1. ASSUME NEW n \in Nat, \A m \in Nat : m < n => m \in I
      PROVE  n \in I
  <2> SUFFICES ASSUME NEW T \in SUBSET S, Cardinality(T) = n, NEW x \in T
               PROVE  Sum(F, T) = F[x] + Sum(F, T \ {x})
    OBVIOUS
  <2> DEFINE p == pick(T)
  <2>1. IsFiniteSet(T) /\ p \in T  BY FS_Subset, PickIn
  <2>2. Sum(F, T) = F[p] + Sum(F, T \ {p})  BY <2>1, SumPick
  <2>3. CASE x = p  BY <2>2, <2>3
  <2>4. CASE x # p
    <3>1. /\ Cardinality(T \ {p}) \in Nat /\ Cardinality(T \ {p}) < n
          /\ Cardinality(T \ {x}) \in Nat /\ Cardinality(T \ {x}) < n
      BY <2>1, CardRemove
    <3>2. Sum(F, T \ {p}) = F[x] + Sum(F, (T \ {p}) \ {x})  BY <1>1, <2>4, <3>1
    <3>3. Sum(F, T \ {x}) = F[p] + Sum(F, (T \ {x}) \ {p})  BY <1>1, <2>1, <2>4, <3>1
    <3>4. (T \ {p}) \ {x} = (T \ {x}) \ {p}  OBVIOUS
    <3>5. F[x] \in Nat /\ F[p] \in Nat  BY <2>1
    <3>6. IsFiniteSet((T \ {x}) \ {p})  BY FS_Subset
    <3>7. Sum(F, (T \ {x}) \ {p}) \in Nat  BY <3>6, SumNat
    <3> QED  BY <2>2, <3>2, <3>3, <3>4, <3>5, <3>7
  <2> QED  BY <2>3, <2>4
<1> HIDE DEF I
<1>2. \A n \in Nat : n \in I  BY <1>1, NatSetBelow
<1>3. Cardinality(S) \in Nat  BY FS_CardinalityType
<1> QED  BY <1>2, <1>3 DEF I

\* An element is added to the set.
LEMMA SumInsert ==
    ASSUME NEW F, NEW S, IsFiniteSet(S), NEW a, a \notin S,
           \A x \in S \cup {a} : F[x] \in Nat
    PROVE  Sum(F, S \cup {a}) = F[a] + Sum(F, S)
<1>1. IsFiniteSet(S \cup {a})  BY FS_AddElement
<1>2. (S \cup {a}) \ {a} = S /\ a \in S \cup {a}  OBVIOUS
<1> HIDE DEF Sum
<1>3. Sum(F, S \cup {a}) = F[a] + Sum(F, (S \cup {a}) \ {a})  BY <1>1, <1>2, SumRemove
<1> QED  BY <1>2, <1>3

\* The function changes at one element.
LEMMA SumChange ==
    ASSUME NEW F, NEW G, NEW S, IsFiniteSet(S), NEW a \in S,
           \A x \in S : F[x] \in Nat /\ G[x] \in Nat,
           \A x \in S \ {a} : F[x] = G[x]
    PROVE  Sum(G, S) + F[a] = Sum(F, S) + G[a]
<1>1. IsFiniteSet(S \ {a})  BY FS_Subset
<1>2. Sum(F, S \ {a}) = Sum(G, S \ {a})  BY <1>1, SumEqual
<1>3. Sum(F, S) = F[a] + Sum(F, S \ {a})  BY SumRemove
<1>4. Sum(G, S) = G[a] + Sum(G, S \ {a})  BY SumRemove
<1>5. Sum(F, S \ {a}) \in Nat /\ F[a] \in Nat /\ G[a] \in Nat  BY <1>1, SumNat
<1> QED  BY <1>2, <1>3, <1>4, <1>5

\* No element has more than the sum.
LEMMA SumBounds ==
    ASSUME NEW F, NEW S, IsFiniteSet(S), NEW a \in S, \A x \in S : F[x] \in Nat
    PROVE  F[a] <= Sum(F, S)
<1>1. IsFiniteSet(S \ {a})  BY FS_Subset
<1>2. Sum(F, S \ {a}) \in Nat  BY <1>1, SumNat
<1> QED  BY <1>2, SumRemove

\* The set grows by an element ...
LEMMA SumGrow ==
    ASSUME NEW F, NEW G, NEW S, IsFiniteSet(S), NEW a, a \notin S,
           \A x \in S : F[x] \in Nat /\ F[x] = G[x], G[a] \in Nat
    PROVE  Sum(G, S \cup {a}) = Sum(F, S) + G[a]
<1>1. Sum(G, S \cup {a}) = G[a] + Sum(G, S)  BY SumInsert
<1>2. Sum(F, S) = Sum(G, S)  BY SumEqual
<1>3. Sum(F, S) \in Nat  BY SumNat
<1> QED  BY <1>1, <1>2, <1>3

\* ... or loses one.
LEMMA SumShrink ==
    ASSUME NEW F, NEW G, NEW S, IsFiniteSet(S), NEW a \in S,
           \A x \in S : F[x] \in Nat, \A x \in S \ {a} : F[x] = G[x]
    PROVE  Sum(F, S) = Sum(G, S \ {a}) + F[a]
<1>1. IsFiniteSet(S \ {a})  BY FS_Subset
<1>2. Sum(F, S) = F[a] + Sum(F, S \ {a})  BY SumRemove
<1>3. Sum(F, S \ {a}) = Sum(G, S \ {a})  BY <1>1, SumEqual
<1>4. Sum(F, S \ {a}) \in Nat  BY <1>1, SumNat
<1> QED  BY <1>2, <1>3, <1>4

\* A sum over one element is its value.
LEMMA SumSingle ==
    ASSUME NEW F, NEW a, F[a] \in Nat
    PROVE  Sum(F, {a}) = F[a]
<1>1. IsFiniteSet({}) /\ {} \cup {a} = {a}  BY FS_EmptySet
<1>2. Sum(F, {} \cup {a}) = F[a] + Sum(F, {})  BY <1>1, SumInsert
<1>3. Sum(F, {}) = 0  BY SumEmpty
<1> QED  BY <1>1, <1>2, <1>3

\* A sum of zeros is zero.
LEMMA SumZero ==
    ASSUME NEW F, NEW S, IsFiniteSet(S), \A x \in S : F[x] = 0
    PROVE  Sum(F, S) = 0
<1> DEFINE I == {n \in Nat : \A T \in SUBSET S : Cardinality(T) = n => Sum(F, T) = 0}
<1>1. ASSUME NEW n \in Nat, \A m \in Nat : m < n => m \in I
      PROVE  n \in I
  <2> SUFFICES ASSUME NEW T \in SUBSET S, Cardinality(T) = n
               PROVE  Sum(F, T) = 0
    OBVIOUS
  <2>1. IsFiniteSet(T)  BY FS_Subset
  <2>2. CASE T = {}  BY <2>2, SumEmpty
  <2>3. CASE T # {}
    <3>1. PICK a \in T : TRUE  BY <2>3
    <3>2. /\ Cardinality(T \ {a}) \in Nat /\ Cardinality(T \ {a}) < n
      BY <2>1, CardRemove
    <3>3. Sum(F, T \ {a}) = 0  BY <1>1, <3>2
    <3>4. \A x \in T : F[x] \in Nat  OBVIOUS
    <3>5. Sum(F, T) = F[a] + Sum(F, T \ {a})  BY <2>1, <3>4, SumRemove
    <3> QED  BY <3>3, <3>5
  <2> QED  BY <2>2, <2>3
<1> HIDE DEF I
<1>2. \A n \in Nat : n \in I  BY <1>1, NatSetBelow
<1>3. Cardinality(S) \in Nat  BY FS_CardinalityType
<1> QED  BY <1>2, <1>3 DEF I

-----------------------------------------------------------------------------
\* Sequences of which some elements are kept.

\* A set of numbers that is not empty and has a bound has a greatest one.
LEMMA MaxIsGreatest ==
    ASSUME NEW n \in Nat, NEW S \in SUBSET (0 .. n), S # {}
    PROVE  Max(S) \in S /\ \A y \in S : y <= Max(S)
<1> DEFINE T == {b \in Nat : \A y \in S : y <= b}
<1>1. T \subseteq Nat /\ T # {}
  <2>1. n \in T  OBVIOUS
  <2> QED  BY <2>1
<1> HIDE DEF T
<1>2. PICK x \in T : \A y \in T : <<y, x>> \notin OpToRel(<, Nat)
  BY <1>1, NatLessThanWellFounded, WFMin
<1>3. x \in Nat /\ \A y \in T : ~(y < x)  BY <1>1, <1>2 DEF OpToRel
<1>4. \A y \in S : y <= x  BY DEF T
<1>5. x \in S
  <2> SUFFICES ASSUME x \notin S PROVE FALSE  OBVIOUS
  <2>1. \A y \in S : y < x  BY <1>3, <1>4
  <2>2. x # 0
    <3>1. PICK y \in S : TRUE  OBVIOUS
    <3>2. y < x /\ y \in Nat  BY <2>1, <3>1
    <3> QED  BY <1>3, <3>2
  <2>3. \A y \in S : y <= x - 1  BY <1>3, <2>1
  <2>4. x - 1 \in T  BY <1>3, <2>2, <2>3 DEF T
  <2> QED  BY <1>3, <2>4
<1>6. \E z \in S : \A y \in S : z >= y  BY <1>3, <1>4, <1>5
<1>7. Max(S) \in S /\ \A y \in S : Max(S) >= y  BY <1>6 DEF Max
<1> QED  BY <1>7

\* Positions up to i, counted.
Upto(I, i) == {j \in I : j <= i}

\* Each count up to the number of positions is reached at one of them.
LEMMA PlaceExists ==
    ASSUME NEW m \in Nat
    PROVE  \A I \in SUBSET (1 .. m) : \A k \in 1 .. Cardinality(I) :
              \E i \in I : Cardinality(Upto(I, i)) = k
<1> DEFINE N == {n \in Nat : \A I \in SUBSET (1 .. m) : Cardinality(I) = n =>
                    \A k \in 1 .. n : \E i \in I : Cardinality(Upto(I, i)) = k}
<1>0. \A I \in SUBSET (1 .. m) : IsFiniteSet(I) /\ Cardinality(I) \in Nat
  <2>1. IsFiniteSet(1 .. m)  BY FS_Interval
  <2> QED  BY <2>1, FS_Subset, FS_CardinalityType
<1>1. 0 \in N  OBVIOUS
<1>2. \A n \in Nat : n \in N => n + 1 \in N
  <2> SUFFICES ASSUME NEW n \in Nat, n \in N,
                      NEW I \in SUBSET (1 .. m), Cardinality(I) = n + 1,
                      NEW k \in 1 .. n + 1
               PROVE  \E i \in I : Cardinality(Upto(I, i)) = k
    OBVIOUS
  <2>1. I # {}  BY FS_EmptySet
  <2> DEFINE top == Max(I)  J == I \ {top}
  <2>2. top \in I /\ \A y \in I : y <= top
    <3>1. I \in SUBSET (0 .. m)  OBVIOUS
    <3> QED  BY <2>1, <3>1, MaxIsGreatest
  <2> HIDE DEF top
  <2>3. J \in SUBSET (1 .. m) /\ Cardinality(J) = n
    <3>1. Cardinality(I) = Cardinality(J) + 1 /\ Cardinality(J) \in Nat
      BY <1>0, <2>2, CardRemove
    <3>2. J \in SUBSET (1 .. m)  OBVIOUS
    <3> QED  BY <3>1, <3>2
  <2>4. CASE k = n + 1
    <3>1. Upto(I, top) = I  BY <2>2 DEF Upto
    <3> QED  BY <2>2, <2>4, <3>1
  <2>5. CASE k \in 1 .. n
    <3>1. PICK i \in J : Cardinality(Upto(J, i)) = k  BY <2>3, <2>5
    <3>2. i < top  BY <2>2, <3>1
    <3>3. Upto(I, i) = Upto(J, i)  BY <2>2, <3>1, <3>2 DEF Upto
    <3> QED  BY <3>1, <3>3
  <2> QED  BY <2>4, <2>5
<1> HIDE DEF N
<1>3. \A n \in Nat : n \in N  BY <1>1, <1>2, NatSet
<1> QED  BY <1>0, <1>3 DEF N

\* What is kept are elements of the sequence at the positions given.
LEMMA KeepType ==
    ASSUME NEW S, NEW s \in Seq(S), NEW I \in SUBSET DOMAIN s
    PROVE  /\ Keep(s, I) \in Seq(S)
           /\ Len(Keep(s, I)) = Cardinality(I) /\ Cardinality(I) \in Nat
           /\ \A k \in 1 .. Cardinality(I) : \E i \in I : Keep(s, I)[k] = s[i]
<1>1. DOMAIN s = 1 .. Len(s) /\ Len(s) \in Nat  OBVIOUS
<1>2. IsFiniteSet(I) /\ Cardinality(I) \in Nat
  <2>1. IsFiniteSet(1 .. Len(s))  BY <1>1, FS_Interval
  <2> QED  BY <1>1, <2>1, FS_Subset, FS_CardinalityType
<1>3. \A k \in 1 .. Cardinality(I) : Place(I, k) \in I
  <2> SUFFICES ASSUME NEW k \in 1 .. Cardinality(I) PROVE Place(I, k) \in I  OBVIOUS
  <2>1. \E i \in I : Cardinality(Upto(I, i)) = k  BY <1>1, PlaceExists
  <2> QED  BY <2>1 DEF Upto, Place
<1>4. Keep(s, I) \in [1 .. Cardinality(I) -> S]  BY <1>1, <1>3 DEF Keep
<1>5. Keep(s, I) \in Seq(S) /\ Len(Keep(s, I)) = Cardinality(I)  BY <1>2, <1>4
<1>6. \A k \in 1 .. Cardinality(I) : Keep(s, I)[k] = s[Place(I, k)]  BY DEF Keep
<1> QED  BY <1>2, <1>3, <1>5, <1>6

\* Keeping all positions above p leaves the rest of the sequence.
LEMMA KeepRest ==
    ASSUME NEW S, NEW s \in Seq(S), NEW p \in 0 .. Len(s)
    PROVE  /\ Keep(s, p + 1 .. Len(s)) \in Seq(S)
           /\ Len(Keep(s, p + 1 .. Len(s))) = Len(s) - p
           /\ \A k \in 1 .. Len(s) - p : Keep(s, p + 1 .. Len(s))[k] = s[p + k]
<1> DEFINE I == p + 1 .. Len(s)
<1>1. DOMAIN s = 1 .. Len(s) /\ Len(s) \in Nat /\ p \in Nat /\ I \in SUBSET DOMAIN s
  OBVIOUS
<1>2. Cardinality(I) = Len(s) - p
  <2>1. p + 1 \in Int /\ Len(s) \in Int  BY <1>1
  <2>2. Cardinality(I) = IF p + 1 > Len(s) THEN 0 ELSE Len(s) - (p + 1) + 1
    BY <2>1, FS_Interval
  <2> QED  BY <1>1, <2>2
<1>3. \A k \in 1 .. Len(s) - p : Place(I, k) = p + k
  <2> SUFFICES ASSUME NEW k \in 1 .. Len(s) - p PROVE Place(I, k) = p + k  OBVIOUS
  <2>1. \A i \in I : Cardinality({j \in I : j <= i}) = i - p
    <3> SUFFICES ASSUME NEW i \in I PROVE Cardinality({j \in I : j <= i}) = i - p
      OBVIOUS
    <3>1. {j \in I : j <= i} = p + 1 .. i  BY <1>1
    <3>2. Cardinality(p + 1 .. i) = IF p + 1 > i THEN 0 ELSE i - (p + 1) + 1
      <4>1. p + 1 \in Int /\ i \in Int  BY <1>1
      <4> QED  BY <4>1, FS_Interval
    <3>3. p + 1 <= i /\ i \in Int /\ p \in Int  BY <1>1
    <3>4. ~(p + 1 > i) /\ i - (p + 1) + 1 = i - p  BY <3>3
    <3> QED  BY <3>1, <3>2, <3>4
  <2>2. p + k \in I  BY <1>1
  <2>3. \A i \in I : i - p = k <=> i = p + k  BY <1>1
  <2> HIDE DEF I
  <2> QED  BY <2>1, <2>2, <2>3 DEF Place
<1>4. Keep(s, I) \in Seq(S) /\ Len(Keep(s, I)) = Cardinality(I)  BY <1>1, KeepType
<1>5. \A k \in 1 .. Len(s) - p : Keep(s, I)[k] = s[p + k]
  BY <1>2, <1>3 DEF Keep
<1> QED  BY <1>2, <1>4, <1>5

=============================================================================
