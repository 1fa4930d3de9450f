------------------------------ MODULE FoldFacts ------------------------------
(* What the folds of the community modules compute.  FoldLeft of SequencesExt, *)
(* for any operator: an element added at the end is applied last, one taken   *)
(* from the front first.  MapThenSumSet of FiniteSetsExt, over a finite set:   *)
(* whichever element is taken out, the sum is its value and the sum of the    *)
(* rest.                                                                      *)
EXTENDS Integers, OpenOrders, SequencesExt, FiniteSetsExt, WellFoundedInduction, FiniteSetTheorems, TLAPS

CONSTANT Op(_, _)

-----------------------------------------------------------------------------
LEMMA Least ==
  ASSUME NEW T, T \subseteq Nat, T # {}
  PROVE  \E n \in T : \A m \in T : ~ (m < n)
<1>1. PICK R : R = {ss \in Nat \X Nat : ss[1] < ss[2]}
  OBVIOUS
<1>2. IsWellFoundedOn(R, Nat)
  <2>1. R = OpToRel(<, Nat)
    BY <1>1 DEF OpToRel
  <2> QED
    BY <2>1, NatLessThanWellFounded
<1>3. PICK n \in T : \A m \in T : ~ (<<m, n>> \in R)
  BY <1>2, WFMin
<1>4. ASSUME NEW m \in T PROVE ~ (m < n)
  <2>1. <<m, n>> \in Nat \X Nat /\ <<m, n>>[1] = m /\ <<m, n>>[2] = n
    OBVIOUS
  <2> QED
    BY <1>1, <1>3, <2>1
<1> QED
  BY <1>4

(* Induction on the naturals, for a set of them.                             *)
LEMMA NatSetInduction ==
  ASSUME NEW T, 0 \in T, \A n \in Nat : n \in T => n + 1 \in T
  PROVE  Nat \subseteq T
<1> SUFFICES ASSUME ~ (Nat \subseteq T) PROVE FALSE
  OBVIOUS
<1>1. PICK n \in Nat \ T : \A m \in Nat \ T : ~ (m < n)
  BY Least
<1>2. n # 0 /\ n - 1 \in Nat /\ n - 1 < n /\ (n - 1) + 1 = n
  BY <1>1
<1>3. n - 1 \in T
  BY <1>1, <1>2
<1> QED
  BY <1>1, <1>2, <1>3

LEMMA MaxIs ==
  ASSUME NEW n \in Nat, NEW S \in SUBSET (1 .. n), S # {}
  PROVE  Max(S) \in S /\ \A y \in S : y <= Max(S)
<1>1. PICK T : T = {n - x : x \in S}
  OBVIOUS
<1>2. T \subseteq Nat /\ T # {}
  <2>1. \A x \in S : n - x \in Nat
    OBVIOUS
  <2> QED
    BY <1>1, <2>1
<1>3. PICK k \in T : \A m \in T : ~ (m < k)
  BY <1>2, Least
<1>4. PICK x \in S : k = n - x
  BY <1>1, <1>3
<1>5. ASSUME NEW y \in S PROVE x >= y
  <2>1. n - y \in T
    BY <1>1
  <2> QED
    BY <1>3, <1>4, <2>1
<1>6. \E z \in S : \A y \in S : z >= y
  BY <1>5
<1>7. Max(S) \in S /\ \A y \in S : Max(S) >= y
  BY <1>6, Zenon DEF Max
<1> QED
  BY <1>7

-----------------------------------------------------------------------------
(* FoldLeft is defined by a function on the subsets of the domain; what it   *)
(* holds for 1 .. k is the fold of the first k elements.                     *)
IsIter(it, base, s, n) ==
  it = [S \in SUBSET (1 .. n) |->
          IF S = {} THEN base ELSE Op(it[S \ {Max(S)}], s[Max(S)])]

LEMMA SmallerSet ==
  ASSUME NEW n \in Nat, NEW S \in SUBSET (1 .. (n + 1)), S # {}
  PROVE  S \ {Max(S)} \in SUBSET (1 .. n)
<1>1. Max(S) \in S /\ \A y \in S : y <= Max(S)
  <2>1. n + 1 \in Nat
    OBVIOUS
  <2> QED
    BY <2>1, MaxIs
<1>2. ASSUME NEW y \in S \ {Max(S)} PROVE y \in 1 .. n
  <2>1. y \in 1 .. (n + 1) /\ Max(S) \in 1 .. (n + 1) /\ y <= Max(S) /\ y # Max(S)
    BY <1>1
  <2> QED
    BY <2>1
<1> QED
  BY <1>2

LEMMA IterAt ==
  ASSUME NEW it, NEW base, NEW s, NEW n, IsIter(it, base, s, n), NEW S \in SUBSET (1 .. n)
  PROVE  /\ S = {} => it[S] = base
         /\ S # {} => it[S] = Op(it[S \ {Max(S)}], s[Max(S)])
<1>1. PICK jt : jt = it
  OBVIOUS
<1>2. it = [A \in SUBSET (1 .. n) |->
              IF A = {} THEN base ELSE Op(jt[A \ {Max(A)}], s[Max(A)])]
  BY <1>1, Zenon DEF IsIter
<1>3. it[S] = IF S = {} THEN base ELSE Op(jt[S \ {Max(S)}], s[Max(S)])
  BY <1>2, Zenon
<1> QED
  BY <1>1, <1>3, Zenon

LEMMA IterExists ==
  ASSUME NEW base, NEW s
  PROVE  \A n \in Nat : \E it : IsIter(it, base, s, n)
<1>1. PICK T : T = {n \in Nat : \E it : IsIter(it, base, s, n)}
  OBVIOUS
<1>2. 0 \in T
  <2>1. PICK it : it = [S \in SUBSET (1 .. 0) |-> base]
    OBVIOUS
  <2>2. 1 .. 0 = {}
    OBVIOUS
  <2>3. it = [S \in SUBSET (1 .. 0) |-> IF S = {} THEN base ELSE Op(it[S \ {Max(S)}], s[Max(S)])]
    BY <2>1, <2>2, Zenon
  <2>4. \E jt : IsIter(jt, base, s, 0)
    BY <2>3, Zenon DEF IsIter
  <2> QED
    BY <1>1, <2>4
<1>3. ASSUME NEW n \in Nat, n \in T PROVE n + 1 \in T
  <2>1. PICK it : IsIter(it, base, s, n)
    BY <1>1, <1>3
  <2>2. PICK jt : jt = [S \in SUBSET (1 .. (n + 1)) |->
                          IF S = {} THEN base ELSE Op(it[S \ {Max(S)}], s[Max(S)])]
    OBVIOUS
  <2>3. SUBSET (1 .. n) \subseteq SUBSET (1 .. (n + 1))
    OBVIOUS
  <2>4. ASSUME NEW S \in SUBSET (1 .. n) PROVE jt[S] = it[S]
    <3>1. jt[S] = IF S = {} THEN base ELSE Op(it[S \ {Max(S)}], s[Max(S)])
      BY <2>2, <2>3, Zenon
    <3>2. CASE S = {}
      <4>1. it[S] = base
        BY <2>1, <3>2, IterAt
      <4> QED
        BY <3>1, <3>2, <4>1, Zenon
    <3>3. CASE S # {}
      <4>1. it[S] = Op(it[S \ {Max(S)}], s[Max(S)])
        BY <2>1, <3>3, IterAt
      <4> QED
        BY <3>1, <3>3, <4>1, Zenon
    <3> QED
      BY <3>2, <3>3
  <2>5. ASSUME NEW S \in SUBSET (1 .. (n + 1))
        PROVE  (IF S = {} THEN base ELSE Op(it[S \ {Max(S)}], s[Max(S)]))
                 = (IF S = {} THEN base ELSE Op(jt[S \ {Max(S)}], s[Max(S)]))
    <3>1. CASE S = {}
      BY <3>1, Zenon
    <3>2. CASE S # {}
      <4>1. jt[S \ {Max(S)}] = it[S \ {Max(S)}]
        BY <2>4, <3>2, SmallerSet
      <4> QED
        BY <4>1, Zenon
    <3> QED
      BY <3>1, <3>2
  <2>6. jt = [S \in SUBSET (1 .. (n + 1)) |->
                IF S = {} THEN base ELSE Op(jt[S \ {Max(S)}], s[Max(S)])]
    BY <2>2, <2>5, Zenon
  <2>7. \E kt : IsIter(kt, base, s, n + 1)
    BY <2>6, Zenon DEF IsIter
  <2> QED
    BY <1>1, <2>7
<1>4. Nat \subseteq T
  BY <1>2, <1>3, NatSetInduction
<1> QED
  BY <1>1, <1>4

Iter(base, s, n) == CHOOSE it : IsIter(it, base, s, n)

(* The fold, as an operator of two arguments.                                *)
Fold(base, s) == FoldLeft(Op, base, s)

LEMMA FoldIsIter ==
  ASSUME NEW base, NEW s, NEW n, DOMAIN s = 1 .. n
  PROVE  Fold(base, s) = Iter(base, s, n)[1 .. n]
  BY Zenon DEF Fold, FoldLeft, MapThenFoldSet, Iter, IsIter

LEMMA IterSteps ==
  ASSUME NEW base, NEW s, NEW n \in Nat
  PROVE  /\ Iter(base, s, n)[1 .. 0] = base
         /\ \A k \in 1 .. n :
              Iter(base, s, n)[1 .. k] = Op(Iter(base, s, n)[1 .. (k - 1)], s[k])
<1>1. PICK it : it = Iter(base, s, n)
  OBVIOUS
<1>2. IsIter(it, base, s, n)
  BY <1>1, IterExists, Zenon DEF Iter
<1>3. it[{}] = base
  <2>1. {} \in SUBSET (1 .. n)
    OBVIOUS
  <2> QED
    BY <1>2, <2>1, Zenon DEF IsIter
<1>4. ASSUME NEW k \in 1 .. n PROVE it[1 .. k] = Op(it[1 .. (k - 1)], s[k])
  <2>1. 1 .. k \in SUBSET (1 .. n) /\ 1 .. k # {} /\ 1 .. k \in SUBSET (1 .. k) /\ k \in Nat
    OBVIOUS
  <2>2. Max(1 .. k) \in 1 .. k /\ \A y \in 1 .. k : y <= Max(1 .. k)
    BY <2>1, MaxIs
  <2>3. Max(1 .. k) = k /\ (1 .. k) \ {k} = 1 .. (k - 1)
    BY <2>2
  <2>4. PICK S : S = 1 .. k
    OBVIOUS
  <2>5. S \in SUBSET (1 .. n) /\ S # {}
    BY <2>1, <2>4
  <2>6. it[S] = Op(it[S \ {Max(S)}], s[Max(S)])
    BY <1>2, <2>5, IterAt
  <2> QED
    BY <2>3, <2>4, <2>6, Zenon
<1> QED
  BY <1>1, <1>3, <1>4

(* The fold of a sequence is the last of the values its elements lead to.    *)
LEMMA FoldIs ==
  ASSUME NEW base, NEW s, NEW n \in Nat, DOMAIN s = 1 .. n,
         NEW h, h[0] = base, \A k \in 1 .. n : h[k] = Op(h[k - 1], s[k])
  PROVE  Fold(base, s) = h[n]
<1>1. PICK it : it = Iter(base, s, n)
  OBVIOUS
<1>2. it[1 .. 0] = base /\ \A k \in 1 .. n : it[1 .. k] = Op(it[1 .. (k - 1)], s[k])
  BY <1>1, IterSteps
<1>3. PICK T : T = {k \in Nat : k <= n => it[1 .. k] = h[k]}
  OBVIOUS
<1>4. 0 \in T
  BY <1>2, <1>3
<1>5. ASSUME NEW k \in Nat, k \in T PROVE k + 1 \in T
  <2>1. SUFFICES ASSUME k + 1 <= n PROVE it[1 .. (k + 1)] = h[k + 1]
    BY <1>3
  <2>2. k + 1 \in 1 .. n /\ (k + 1) - 1 = k /\ it[1 .. k] = h[k]
    BY <1>3, <1>5, <2>1
  <2>3. it[1 .. (k + 1)] = Op(it[1 .. ((k + 1) - 1)], s[k + 1])
    BY <1>2, <2>2
  <2>4. h[k + 1] = Op(h[(k + 1) - 1], s[k + 1])
    BY <2>2
  <2> QED
    BY <2>2, <2>3, <2>4, Zenon
<1>6. it[1 .. n] = h[n]
  <2>1. n \in T
    BY <1>4, <1>5, NatSetInduction
  <2> QED
    BY <1>3, <2>1
<1>7. Fold(base, s) = it[1 .. n]
  BY <1>1, FoldIsIter
<1> QED
  BY <1>6, <1>7

(* The values the elements of a sequence lead to, the first to the last.     *)
Leads(h, base, s, n) ==
  /\ DOMAIN h = 0 .. n /\ h[0] = base /\ h[n] = Fold(base, s)
  /\ \A k \in 1 .. n : h[k] = Op(h[k - 1], s[k])

LEMMA FoldHas ==
  ASSUME NEW base, NEW s, NEW n \in Nat, DOMAIN s = 1 .. n
  PROVE  \E h : Leads(h, base, s, n)
<1>1. PICK it : it = Iter(base, s, n)
  OBVIOUS
<1>2. it[1 .. 0] = base /\ \A k \in 1 .. n : it[1 .. k] = Op(it[1 .. (k - 1)], s[k])
  BY <1>1, IterSteps
<1>3. PICK h : h = [k \in 0 .. n |-> it[1 .. k]]
  OBVIOUS
<1>4. 0 \in 0 .. n /\ n \in 0 .. n /\ \A k \in 1 .. n : k \in 0 .. n /\ k - 1 \in 0 .. n
  OBVIOUS
<1>5. h[0] = base /\ h[n] = it[1 .. n] /\ DOMAIN h = 0 .. n
  BY <1>2, <1>3, <1>4, Zenon
<1>6. ASSUME NEW k \in 1 .. n PROVE h[k] = Op(h[k - 1], s[k])
  BY <1>2, <1>3, <1>4, Zenon
<1>7. Fold(base, s) = it[1 .. n]
  BY <1>1, FoldIsIter
<1>8. Leads(h, base, s, n)
  BY <1>5, <1>6, <1>7, Zenon DEF Leads
<1> QED
  BY <1>8

-----------------------------------------------------------------------------
LEMMA FoldEmpty ==
  ASSUME NEW base
  PROVE  Fold(base, <<>>) = base
<1>1. PICK h : h = [k \in {0} |-> base]
  OBVIOUS
<1>2. PICK s : s = <<>>
  OBVIOUS
<1>3. DOMAIN s = 1 .. 0 /\ 0 \in Nat /\ h[0] = base /\ 1 .. 0 = {}
  BY <1>1, <1>2
<1>4. Fold(base, s) = h[0]
  BY <1>3, FoldIs
<1> QED
  BY <1>2, <1>3, <1>4

(* An element added at the end is applied last.                              *)
LEMMA FoldAppend ==
  ASSUME NEW base, NEW M, NEW s \in Seq(M), NEW m \in M
  PROVE  Fold(base, Append(s, m)) = Op(Fold(base, s), m)
<1>1. PICK n : n = Len(s)
  OBVIOUS
<1>2. n \in Nat /\ DOMAIN s = 1 .. n
  BY <1>1
<1>3. PICK t : t = Append(s, m)
  OBVIOUS
<1>4. /\ DOMAIN t = 1 .. (n + 1) /\ t[n + 1] = m /\ \A k \in 1 .. n : t[k] = s[k]
  BY <1>1, <1>3
<1>5. PICK h : /\ h[0] = base /\ h[n] = Fold(base, s)
               /\ \A k \in 1 .. n : h[k] = Op(h[k - 1], s[k])
  BY <1>2, FoldHas DEF Leads
<1>6. PICK g : g = [k \in 0 .. (n + 1) |-> IF k <= n THEN h[k] ELSE Op(h[n], m)]
  OBVIOUS
<1>7. /\ g[n + 1] = Op(h[n], m) /\ \A k \in 0 .. n : g[k] = h[k]
  BY <1>2, <1>6
<1>8. ASSUME NEW k \in 1 .. (n + 1) PROVE g[k] = Op(g[k - 1], t[k])
  <2>1. CASE k = n + 1
    <3>1. g[n] = h[n] /\ k - 1 = n /\ t[k] = m
      BY <1>2, <1>4, <1>7, <2>1
    <3> QED
      BY <1>7, <2>1, <3>1, Zenon
  <2>2. CASE k \in 1 .. n
    <3>1. g[k] = h[k] /\ g[k - 1] = h[k - 1] /\ t[k] = s[k]
      BY <1>2, <1>4, <1>7, <2>2
    <3> QED
      BY <1>5, <2>2, <3>1, Zenon
  <2> QED
    BY <1>2, <2>1, <2>2
<1>9. Fold(base, t) = g[n + 1]
  <2>1. n + 1 \in Nat /\ g[0] = base
    BY <1>2, <1>5, <1>7
  <2> QED
    BY <1>4, <1>8, <2>1, FoldIs
<1> QED
  BY <1>3, <1>5, <1>7, <1>9, Zenon

(* The first element is applied first.                                       *)
LEMMA FoldTail ==
  ASSUME NEW base, NEW M, NEW s \in Seq(M), s # <<>>
  PROVE  Fold(base, s) = Fold(Op(base, Head(s)), Tail(s))
<1>1. PICK n : n = Len(s) - 1
  OBVIOUS
<1>2. n \in Nat /\ DOMAIN s = 1 .. (n + 1) /\ Len(s) = n + 1
  BY <1>1
<1>3. PICK t : t = Tail(s)
  OBVIOUS
<1>4. DOMAIN t = 1 .. n /\ \A k \in 1 .. n : t[k] = s[k + 1]
  BY <1>2, <1>3
<1>5. PICK m : m = n + 1 /\ m \in Nat /\ DOMAIN s = 1 .. m
  BY <1>2
<1>6. PICK h : /\ h[0] = base /\ h[m] = Fold(base, s)
               /\ \A k \in 1 .. m : h[k] = Op(h[k - 1], s[k])
  <2>1. m \in Nat /\ DOMAIN s = 1 .. m
    BY <1>5
  <2> QED
    BY <2>1, FoldHas DEF Leads
<1>7. PICK g : g = [k \in 0 .. n |-> h[k + 1]]
  OBVIOUS
<1>8. g[0] = Op(base, Head(s))
  <2>1. g[0] = h[1] /\ 1 \in 1 .. m /\ 1 - 1 = 0 /\ Head(s) = s[1]
    BY <1>2, <1>5, <1>7
  <2>2. h[1] = Op(h[1 - 1], s[1])
    BY <1>6, <2>1
  <2> QED
    BY <1>6, <2>1, <2>2, Zenon
<1>9. ASSUME NEW k \in 1 .. n PROVE g[k] = Op(g[k - 1], t[k])
  <2>1. /\ g[k] = h[k + 1] /\ g[k - 1] = h[k] /\ t[k] = s[k + 1]
        /\ k + 1 \in 1 .. m /\ (k + 1) - 1 = k
    BY <1>2, <1>4, <1>5, <1>7
  <2>2. h[k + 1] = Op(h[(k + 1) - 1], s[k + 1])
    BY <1>6, <2>1
  <2> QED
    BY <2>1, <2>2, Zenon
<1>10. Fold(Op(base, Head(s)), t) = g[n]
  BY <1>2, <1>4, <1>8, <1>9, FoldIs
<1>11. g[n] = h[m]
  BY <1>2, <1>5, <1>7
<1> QED
  BY <1>3, <1>6, <1>10, <1>11, Zenon

(* What every application keeps, the fold keeps.                             *)
LEMMA FoldStays ==
  ASSUME NEW T, NEW M, NEW base \in T, NEW s \in Seq(M), \A x \in T, m \in M : Op(x, m) \in T
  PROVE  Fold(base, s) \in T
<1>1. PICK n : n = Len(s) /\ n \in Nat /\ DOMAIN s = 1 .. n /\ \A k \in 1 .. n : s[k] \in M
  OBVIOUS
<1>2. PICK h : Leads(h, base, s, n)
  BY <1>1, FoldHas
<1>3. PICK K : K = {k \in Nat : k <= n => h[k] \in T}
  OBVIOUS
<1>4. 0 \in K
  BY <1>2, <1>3 DEF Leads
<1>5. ASSUME NEW k \in Nat, k \in K PROVE k + 1 \in K
  <2>1. ASSUME k + 1 <= n PROVE h[k + 1] \in T
    <3>1. k + 1 \in 1 .. n /\ (k + 1) - 1 = k /\ k <= n
      BY <1>1, <2>1
    <3>2. h[k + 1] = Op(h[k], s[k + 1])
      BY <1>2, <3>1 DEF Leads
    <3>3. h[k] \in T
      BY <1>3, <1>5, <3>1
    <3> QED
      BY <1>1, <3>1, <3>2, <3>3
  <2> QED
    BY <1>3, <2>1
<1>6. n \in K
  BY <1>1, <1>4, <1>5, NatSetInduction
<1> QED
  BY <1>1, <1>2, <1>3, <1>6 DEF Leads

-----------------------------------------------------------------------------
(* Finite sets of integers, by induction on their size.                      *)
HasEnds(A) == (\E z \in A : \A y \in A : z >= y) /\ (\E z \in A : \A y \in A : z =< y)

LEMMA EndsExist ==
  ASSUME NEW S, S \subseteq Int, IsFiniteSet(S), S # {}
  PROVE  HasEnds(S)
<1>1. PICK T : T = {k \in Nat : \A A \in SUBSET S : A # {} /\ Cardinality(A) <= k => HasEnds(A)}
  OBVIOUS
<1>2. \A A \in SUBSET S : IsFiniteSet(A) /\ Cardinality(A) \in Nat
  BY FS_Subset, FS_CardinalityType
<1>3. 0 \in T
  <2>1. \A A \in SUBSET S : Cardinality(A) <= 0 => A = {}
    BY <1>2, FS_EmptySet
  <2> QED
    BY <1>1, <2>1
<1>4. ASSUME NEW k \in Nat, k \in T PROVE k + 1 \in T
  <2>1. ASSUME NEW A \in SUBSET S, A # {}, Cardinality(A) <= k + 1 PROVE HasEnds(A)
    <3>1. PICK a \in A : TRUE
      BY <2>1
    <3>2. PICK B : B = A \ {a}
      OBVIOUS
    <3>3. B \in SUBSET S /\ Cardinality(B) = Cardinality(A) - 1
      BY <1>2, <3>1, <3>2, FS_RemoveElement
    <3>4. Cardinality(B) <= k
      BY <1>2, <2>1, <3>3
    <3>5. \A x \in A : x \in Int /\ (x = a \/ x \in B)
      BY <3>2
    <3>6. CASE B = {}
      BY <3>1, <3>5, <3>6 DEF HasEnds
    <3>7. CASE B # {}
      <4>1. HasEnds(B)
        BY <1>1, <1>4, <3>3, <3>4, <3>7
      <4>2. PICK z \in B : \A y \in B : z >= y
        BY <4>1 DEF HasEnds
      <4>3. PICK w \in B : \A y \in B : w =< y
        BY <4>1 DEF HasEnds
      <4>4. z \in A /\ w \in A /\ z \in Int /\ w \in Int /\ a \in Int
        BY <3>2, <3>5
      <4>5. \E m \in A : \A y \in A : m >= y
        <5>1. CASE z >= a
          BY <3>5, <4>2, <4>4, <5>1
        <5>2. CASE a >= z
          <6>1. ASSUME NEW y \in B PROVE a >= y
            BY <3>2, <3>5, <4>2, <4>4, <5>2
          <6> QED
            BY <3>1, <3>5, <6>1
        <5> QED
          BY <4>4, <5>1, <5>2
      <4>6. \E m \in A : \A y \in A : m =< y
        <5>1. CASE w =< a
          BY <3>5, <4>3, <4>4, <5>1
        <5>2. CASE a =< w
          <6>1. ASSUME NEW y \in B PROVE a =< y
            BY <3>2, <3>5, <4>3, <4>4, <5>2
          <6> QED
            BY <3>1, <3>5, <6>1
        <5> QED
          BY <4>4, <5>1, <5>2
      <4> QED
        BY <4>5, <4>6 DEF HasEnds
    <3> QED
      BY <3>6, <3>7
  <2> QED
    BY <1>1, <2>1
<1>5. PICK c \in Nat : c = Cardinality(S)
  BY <1>2
<1>6. c \in T
  BY <1>3, <1>4, NatSetInduction
<1> QED
  BY <1>1, <1>5, <1>6

LEMMA MaxOfFinite ==
  ASSUME NEW S, S \subseteq Int, IsFiniteSet(S), S # {}
  PROVE  Max(S) \in S /\ \A y \in S : Max(S) >= y
  BY EndsExist, Zenon DEF Max, HasEnds

LEMMA MinOfFinite ==
  ASSUME NEW S, S \subseteq Int, IsFiniteSet(S), S # {}
  PROVE  Min(S) \in S /\ \A y \in S : Min(S) =< y
  BY EndsExist, Zenon DEF Min, HasEnds

-----------------------------------------------------------------------------
(* The sum of the values of a function over a finite set.                    *)
One(A) == CHOOSE x \in A : TRUE

IsSum(it, g, S) ==
  it = [A \in SUBSET S |-> IF A = {} THEN 0 ELSE g[One(A)] + it[A \ {One(A)}]]

LEMMA OneIs ==
  ASSUME NEW A, A # {}
  PROVE  One(A) \in A
  BY DEF One

LEMMA SumAt ==
  ASSUME NEW it, NEW g, NEW S, IsSum(it, g, S), NEW A \in SUBSET S
  PROVE  /\ A = {} => it[A] = 0
         /\ A # {} => it[A] = g[One(A)] + it[A \ {One(A)}]
<1>1. PICK jt : jt = it
  OBVIOUS
<1>2. it = [B \in SUBSET S |-> IF B = {} THEN 0 ELSE g[One(B)] + jt[B \ {One(B)}]]
  BY <1>1, Zenon DEF IsSum
<1>3. it[A] = IF A = {} THEN 0 ELSE g[One(A)] + jt[A \ {One(A)}]
  BY <1>2, Zenon
<1> QED
  BY <1>1, <1>3, Zenon

(* As far as the subsets of k elements.                                      *)
SumTo(it, g, S, k) ==
  \A A \in SUBSET S : Cardinality(A) <= k =>
    it[A] = IF A = {} THEN 0 ELSE g[One(A)] + it[A \ {One(A)}]

LEMMA SumExists ==
  ASSUME NEW g, NEW S, IsFiniteSet(S)
  PROVE  \E it : IsSum(it, g, S)
<1>1. PICK T : T = {k \in Nat : \E it : SumTo(it, g, S, k)}
  OBVIOUS
<1>2. \A A \in SUBSET S : IsFiniteSet(A) /\ Cardinality(A) \in Nat
  BY FS_Subset, FS_CardinalityType
<1>3. 0 \in T
  <2>1. PICK it : it = [A \in SUBSET S |-> 0]
    OBVIOUS
  <2>2. ASSUME NEW A \in SUBSET S, Cardinality(A) <= 0
        PROVE  it[A] = IF A = {} THEN 0 ELSE g[One(A)] + it[A \ {One(A)}]
    <3>1. A = {}
      BY <1>2, <2>2, FS_EmptySet
    <3> QED
      BY <2>1, <3>1
  <2>3. SumTo(it, g, S, 0)
    BY <2>2 DEF SumTo
  <2> QED
    BY <1>1, <2>3
<1>4. ASSUME NEW k \in Nat, k \in T PROVE k + 1 \in T
  <2>1. PICK it : SumTo(it, g, S, k)
    BY <1>1, <1>4
  <2>2. PICK jt : jt = [A \in SUBSET S |-> IF A = {} THEN 0 ELSE g[One(A)] + it[A \ {One(A)}]]
    OBVIOUS
  <2>3. \A A \in SUBSET S : jt[A] = IF A = {} THEN 0 ELSE g[One(A)] + it[A \ {One(A)}]
    BY <2>2
  <2>4. ASSUME NEW A \in SUBSET S, Cardinality(A) <= k + 1
        PROVE  jt[A] = IF A = {} THEN 0 ELSE g[One(A)] + jt[A \ {One(A)}]
    <3>1. CASE A = {}
      BY <2>3, <3>1
    <3>2. CASE A # {}
      <4>1. PICK B : B = A \ {One(A)}
        OBVIOUS
      <4>2. B \in SUBSET S /\ Cardinality(B) = Cardinality(A) - 1
        BY <1>2, <3>2, <4>1, OneIs, FS_RemoveElement
      <4>3. Cardinality(B) <= k
        BY <1>2, <2>4, <4>2
      <4>4. jt[B] = it[B]
        <5>1. it[B] = IF B = {} THEN 0 ELSE g[One(B)] + it[B \ {One(B)}]
          BY <2>1, <4>2, <4>3 DEF SumTo
        <5>2. jt[B] = IF B = {} THEN 0 ELSE g[One(B)] + it[B \ {One(B)}]
          BY <2>3, <4>2
        <5>3. B # {} => jt[B] = g[One(B)] + it[B \ {One(B)}]
          BY <5>2
        <5>4. B # {} => it[B] = g[One(B)] + it[B \ {One(B)}]
          BY <5>1
        <5>5. B = {} => it[B] = 0 /\ jt[B] = 0
          BY <5>1, <5>2
        <5> QED
          BY <5>3, <5>4, <5>5
      <4>5. jt[A] = g[One(A)] + it[B]
        BY <2>3, <3>2, <4>1
      <4> QED
        BY <3>2, <4>1, <4>4, <4>5
    <3> QED
      BY <3>1, <3>2
  <2>5. SumTo(jt, g, S, k + 1)
    BY <2>4 DEF SumTo
  <2> QED
    BY <1>1, <2>5
<1>5. PICK c \in Nat : c = Cardinality(S)
  BY <1>2
<1>6. c \in T
  BY <1>3, <1>4, NatSetInduction
<1>7. PICK it : SumTo(it, g, S, c)
  BY <1>1, <1>6
<1>8. PICK jt : jt = [A \in SUBSET S |-> IF A = {} THEN 0 ELSE g[One(A)] + it[A \ {One(A)}]]
  OBVIOUS
<1>9. ASSUME NEW A \in SUBSET S PROVE it[A] = jt[A]
  <2>1. Cardinality(A) <= c
    BY <1>5, FS_Subset
  <2>2. it[A] = IF A = {} THEN 0 ELSE g[One(A)] + it[A \ {One(A)}]
    BY <1>7, <2>1 DEF SumTo
  <2> QED
    BY <1>8, <2>2, Zenon
<1>10. ASSUME NEW A \in SUBSET S
       PROVE  (IF A = {} THEN 0 ELSE g[One(A)] + it[A \ {One(A)}])
                = (IF A = {} THEN 0 ELSE g[One(A)] + jt[A \ {One(A)}])
  <2>1. A \ {One(A)} \in SUBSET S
    OBVIOUS
  <2>2. it[A \ {One(A)}] = jt[A \ {One(A)}]
    BY <1>9, <2>1
  <2> QED
    BY <2>2, Zenon
<1>11. jt = [A \in SUBSET S |-> IF A = {} THEN 0 ELSE g[One(A)] + jt[A \ {One(A)}]]
  BY <1>8, <1>10, Zenon
<1> QED
  BY <1>11, Zenon DEF IsSum

(* Whichever element is taken out.                                           *)
Splits(it, g, A) ==
  it[A] \in Nat /\ \A x \in A : it[A] = g[x] + it[A \ {x}]

LEMMA SumSplits ==
  ASSUME NEW it, NEW g, NEW S, IsFiniteSet(S), IsSum(it, g, S), \A x \in S : g[x] \in Nat
  PROVE  \A A \in SUBSET S : Splits(it, g, A)
<1>1. PICK T : T = {k \in Nat : \A A \in SUBSET S : Cardinality(A) <= k => Splits(it, g, A)}
  OBVIOUS
<1>2. \A A \in SUBSET S : IsFiniteSet(A) /\ Cardinality(A) \in Nat
  BY FS_Subset, FS_CardinalityType
<1>3. 0 \in T
  <2>1. ASSUME NEW A \in SUBSET S, Cardinality(A) <= 0 PROVE Splits(it, g, A)
    <3>1. A = {}
      BY <1>2, <2>1, FS_EmptySet
    <3>2. it[A] = 0
      BY <3>1, SumAt
    <3> QED
      BY <3>1, <3>2 DEF Splits
  <2> QED
    BY <1>1, <2>1
<1>4. ASSUME NEW k \in Nat, k \in T PROVE k + 1 \in T
  <2>1. \A A \in SUBSET S : Cardinality(A) <= k => Splits(it, g, A)
    BY <1>1, <1>4
  <2>2. ASSUME NEW A \in SUBSET S, Cardinality(A) <= k + 1, A # {} PROVE Splits(it, g, A)
    <3>1. ASSUME NEW x \in A
          PROVE  A \ {x} \in SUBSET S /\ Cardinality(A \ {x}) <= k /\ it[A \ {x}] \in Nat
      <4>1. A \ {x} \in SUBSET S /\ Cardinality(A \ {x}) = Cardinality(A) - 1
        BY <1>2, FS_RemoveElement
      <4>2. Cardinality(A \ {x}) <= k
        BY <1>2, <2>2, <4>1
      <4> QED
        BY <2>1, <4>1, <4>2 DEF Splits
    <3>2. PICK a : a = One(A) /\ a \in A
      BY <2>2, OneIs
    <3>3. it[A] = g[a] + it[A \ {a}]
      BY <2>2, <3>2, SumAt
    <3>4. it[A] \in Nat
      BY <3>1, <3>2, <3>3
    <3>5. ASSUME NEW x \in A PROVE it[A] = g[x] + it[A \ {x}]
      <4>1. CASE x = a
        BY <3>3, <4>1
      <4>2. CASE x # a
        <5>1. x \in A \ {a} /\ a \in A \ {x} /\ (A \ {a}) \ {x} = (A \ {x}) \ {a}
          BY <3>2, <4>2
        <5>2. it[A \ {a}] = g[x] + it[(A \ {a}) \ {x}]
          BY <2>1, <3>1, <3>2, <5>1 DEF Splits
        <5>3. it[A \ {x}] = g[a] + it[(A \ {x}) \ {a}]
          BY <2>1, <3>1, <5>1 DEF Splits
        <5>4. PICK n : n = it[(A \ {x}) \ {a}]
          OBVIOUS
        <5>5. n \in Nat
          <6>1. (A \ {x}) \ {a} \in SUBSET S
            OBVIOUS
          <6>2. Cardinality((A \ {x}) \ {a}) <= Cardinality(A \ {x})
            BY <1>2, <3>1, FS_Subset
          <6>3. Cardinality((A \ {x}) \ {a}) <= k
            BY <1>2, <3>1, <6>1, <6>2
          <6> QED
            BY <2>1, <5>4, <6>1, <6>3 DEF Splits
        <5>6. it[A \ {a}] = g[x] + n /\ it[A \ {x}] = g[a] + n
          BY <5>1, <5>2, <5>3, <5>4
        <5>7. g[x] \in Nat /\ g[a] \in Nat
          BY <3>2
        <5> QED
          BY <3>3, <5>5, <5>6, <5>7
      <4> QED
        BY <4>1, <4>2
    <3> QED
      BY <3>4, <3>5 DEF Splits
  <2>3. ASSUME NEW A \in SUBSET S, Cardinality(A) <= k + 1 PROVE Splits(it, g, A)
    <3>1. CASE A = {}
      <4>1. it[A] = 0
        BY <3>1, SumAt
      <4> QED
        BY <3>1, <4>1 DEF Splits
    <3> QED
      BY <2>2, <2>3, <3>1
  <2> QED
    BY <1>1, <2>3
<1>5. ASSUME NEW A \in SUBSET S PROVE Splits(it, g, A)
  <2>1. PICK c \in Nat : c = Cardinality(A)
    BY <1>2
  <2>2. c \in T
    BY <1>3, <1>4, NatSetInduction
  <2> QED
    BY <1>1, <2>1, <2>2
<1> QED
  BY <1>5

Sum(g, S) == MapThenSumSet(LAMBDA x : g[x], S)

LEMMA SumIsIt ==
  ASSUME NEW g, NEW S
  PROVE  Sum(g, S) = (CHOOSE it : IsSum(it, g, S))[S]
  BY Zenon DEF Sum, MapThenSumSet, MapThenFoldSet, IsSum, One

(* The sum is a natural number, and the value of any element and the sum of   *)
(* the rest.                                                                  *)
Adds(g, S) ==
  /\ Sum(g, {}) = 0
  /\ \A A \in SUBSET S : Sum(g, A) \in Nat /\ \A x \in A : Sum(g, A) = g[x] + Sum(g, A \ {x})

LEMMA SumIs ==
  ASSUME NEW g, NEW S, IsFiniteSet(S), NEW it, IsSum(it, g, S), \A x \in S : g[x] \in Nat
  PROVE  \A A \in SUBSET S : Sum(g, A) = it[A]
<1>1. PICK T : T = {k \in Nat : \A A \in SUBSET S : Cardinality(A) <= k => Sum(g, A) = it[A]}
  OBVIOUS
<1>2. \A A \in SUBSET S : IsFiniteSet(A) /\ Cardinality(A) \in Nat
  BY FS_Subset, FS_CardinalityType
<1>3. ASSUME NEW A \in SUBSET S
      PROVE  \E jt : /\ IsSum(jt, g, A) /\ Sum(g, A) = jt[A]
                     /\ \A B \in SUBSET A : Splits(jt, g, B)
  <2>1. PICK jt : jt = CHOOSE kt : IsSum(kt, g, A)
    OBVIOUS
  <2>2. IsSum(jt, g, A)
    BY <1>2, <2>1, SumExists, Zenon
  <2>3. Sum(g, A) = jt[A]
    BY <2>1, SumIsIt, Zenon
  <2>4. \A B \in SUBSET A : Splits(jt, g, B)
    BY <1>2, <2>2, SumSplits
  <2> QED
    BY <2>2, <2>3, <2>4
<1>4. \A A \in SUBSET S : Splits(it, g, A)
  BY SumSplits
<1>5. ASSUME NEW A \in SUBSET S, NEW jt, IsSum(jt, g, A), \A B \in SUBSET A : Splits(jt, g, B)
      PROVE  \A B \in SUBSET A : jt[B] = it[B]
  <2>1. PICK U : U = {k \in Nat : \A B \in SUBSET A : Cardinality(B) <= k => jt[B] = it[B]}
    OBVIOUS
  <2>2. \A B \in SUBSET A : IsFiniteSet(B) /\ Cardinality(B) \in Nat /\ B \in SUBSET S
    BY <1>2
  <2>3. jt[{}] = 0 /\ it[{}] = 0
    <3>1. {} \in SUBSET A /\ {} \in SUBSET S
      OBVIOUS
    <3> QED
      BY <1>5, <3>1, SumAt
  <2>4. 0 \in U
    <3>1. \A B \in SUBSET A : Cardinality(B) <= 0 => B = {}
      BY <2>2, FS_EmptySet
    <3> QED
      BY <2>1, <2>3, <3>1
  <2>5. ASSUME NEW k \in Nat, k \in U PROVE k + 1 \in U
    <3>1. ASSUME NEW B \in SUBSET A, Cardinality(B) <= k + 1, B # {} PROVE jt[B] = it[B]
      <4>1. PICK x \in B : TRUE
        BY <3>1
      <4>2. B \ {x} \in SUBSET A /\ Cardinality(B \ {x}) = Cardinality(B) - 1
        BY <2>2, FS_RemoveElement
      <4>3. Cardinality(B \ {x}) <= k
        BY <2>2, <3>1, <4>2
      <4>4. jt[B \ {x}] = it[B \ {x}]
        BY <2>1, <2>5, <4>2, <4>3
      <4>5. jt[B] = g[x] + jt[B \ {x}]
        BY <1>5, <4>1 DEF Splits
      <4>6. it[B] = g[x] + it[B \ {x}]
        BY <1>4, <2>2, <4>1 DEF Splits
      <4> QED
        BY <4>4, <4>5, <4>6
    <3>2. ASSUME NEW B \in SUBSET A, Cardinality(B) <= k + 1 PROVE jt[B] = it[B]
      BY <2>3, <3>1, <3>2
    <3> QED
      BY <2>1, <3>2
  <2>6. ASSUME NEW B \in SUBSET A PROVE jt[B] = it[B]
    <3>1. PICK c \in Nat : c = Cardinality(B)
      BY <2>2
    <3>2. c \in U
      BY <2>4, <2>5, NatSetInduction
    <3> QED
      BY <2>1, <3>1, <3>2
  <2> QED
    BY <2>6
<1>6. ASSUME NEW A \in SUBSET S PROVE Sum(g, A) = it[A]
  <2>1. PICK jt : IsSum(jt, g, A) /\ Sum(g, A) = jt[A] /\ \A B \in SUBSET A : Splits(jt, g, B)
    BY <1>3
  <2>2. jt[A] = it[A]
    BY <1>5, <2>1
  <2> QED
    BY <2>1, <2>2
<1> QED
  BY <1>6

LEMMA SumAdds ==
  ASSUME NEW g, NEW S, IsFiniteSet(S), \A x \in S : g[x] \in Nat
  PROVE  Adds(g, S)
<1>1. PICK it : IsSum(it, g, S)
  BY SumExists
<1>2. \A A \in SUBSET S : Sum(g, A) = it[A]
  BY <1>1, SumIs
<1>3. \A A \in SUBSET S : Splits(it, g, A)
  BY <1>1, SumSplits
<1>4. Sum(g, {}) = 0
  <2>1. {} \in SUBSET S
    OBVIOUS
  <2> QED
    BY <1>1, <1>2, <2>1, SumAt
<1>5. ASSUME NEW A \in SUBSET S
      PROVE  Sum(g, A) \in Nat /\ \A x \in A : Sum(g, A) = g[x] + Sum(g, A \ {x})
  <2>1. Sum(g, A) = it[A] /\ it[A] \in Nat
    BY <1>2, <1>3 DEF Splits
  <2>2. ASSUME NEW x \in A PROVE Sum(g, A) = g[x] + Sum(g, A \ {x})
    <3>1. A \ {x} \in SUBSET S
      OBVIOUS
    <3>2. it[A] = g[x] + it[A \ {x}] /\ Sum(g, A \ {x}) = it[A \ {x}]
      BY <1>2, <1>3, <3>1 DEF Splits
    <3> QED
      BY <2>1, <3>2
  <2> QED
    BY <2>1, <2>2
<1> QED
  BY <1>4, <1>5 DEF Adds

(* Two functions with the same values have the same sum.                     *)
LEMMA SumSame ==
  ASSUME NEW g, NEW f, NEW S, IsFiniteSet(S), \A x \in S : g[x] \in Nat /\ f[x] = g[x]
  PROVE  Sum(f, S) = Sum(g, S)
<1>1. PICK it : IsSum(it, g, S)
  BY SumExists
<1>2. it = [A \in SUBSET S |-> IF A = {} THEN 0 ELSE g[One(A)] + it[A \ {One(A)}]]
  BY <1>1, Zenon DEF IsSum
<1>3. ASSUME NEW A \in SUBSET S
      PROVE  (IF A = {} THEN 0 ELSE g[One(A)] + it[A \ {One(A)}])
               = (IF A = {} THEN 0 ELSE f[One(A)] + it[A \ {One(A)}])
  <2>1. A # {} => One(A) \in S
    BY OneIs
  <2>2. A # {} => f[One(A)] = g[One(A)]
    BY <2>1
  <2> QED
    BY <2>2
<1>4. it = [A \in SUBSET S |-> IF A = {} THEN 0 ELSE f[One(A)] + it[A \ {One(A)}]]
  BY <1>2, <1>3, Zenon
<1>5. IsSum(it, f, S)
  BY <1>4, Zenon DEF IsSum
<1>6. S \in SUBSET S
  OBVIOUS
<1>7. Sum(g, S) = it[S]
  BY <1>1, <1>6, SumIs
<1>8. Sum(f, S) = it[S]
  <2>1. \A x \in S : f[x] \in Nat
    OBVIOUS
  <2> QED
    BY <1>5, <1>6, <2>1, SumIs
<1> QED
  BY <1>7, <1>8

(* Of two sets that have nothing in common.                                  *)
LEMMA SumUnion ==
  ASSUME NEW g, NEW A, NEW B, IsFiniteSet(A), IsFiniteSet(B), A \cap B = {},
         \A x \in A \cup B : g[x] \in Nat
  PROVE  /\ Sum(g, A) \in Nat /\ Sum(g, B) \in Nat
         /\ Sum(g, A \cup B) = Sum(g, A) + Sum(g, B)
<1>1. PICK S : S = A \cup B
  OBVIOUS
<1>2. IsFiniteSet(S) /\ \A x \in S : g[x] \in Nat
  BY <1>1, FS_Union
<1>3. Adds(g, S)
  BY <1>2, SumAdds
<1>4. PICK T : T = {k \in Nat : \A C \in SUBSET B : Cardinality(C) <= k =>
                                  Sum(g, A \cup C) = Sum(g, A) + Sum(g, C)}
  OBVIOUS
<1>5. \A C \in SUBSET B : IsFiniteSet(C) /\ Cardinality(C) \in Nat
  BY FS_Subset, FS_CardinalityType
<1>6. Sum(g, A) \in Nat /\ Sum(g, B) \in Nat /\ Sum(g, {}) = 0
  BY <1>1, <1>3 DEF Adds
<1>7. 0 \in T
  <2>1. ASSUME NEW C \in SUBSET B, Cardinality(C) <= 0
        PROVE  Sum(g, A \cup C) = Sum(g, A) + Sum(g, C)
    <3>1. C = {} /\ A \cup C = A
      BY <1>5, <2>1, FS_EmptySet
    <3> QED
      BY <1>6, <3>1
  <2> QED
    BY <1>4, <2>1
<1>8. ASSUME NEW k \in Nat, k \in T PROVE k + 1 \in T
  <2>1. ASSUME NEW C \in SUBSET B, Cardinality(C) <= k + 1, C # {}
        PROVE  Sum(g, A \cup C) = Sum(g, A) + Sum(g, C)
    <3>1. PICK x \in C : TRUE
      BY <2>1
    <3>2. PICK D : D = C \ {x}
      OBVIOUS
    <3>3. D \in SUBSET B /\ Cardinality(D) = Cardinality(C) - 1
      BY <1>5, <3>2, FS_RemoveElement
    <3>4. Cardinality(D) <= k
      BY <1>5, <2>1, <3>3
    <3>5. Sum(g, A \cup D) = Sum(g, A) + Sum(g, D)
      BY <1>4, <1>8, <3>3, <3>4
    <3>6. (A \cup C) \ {x} = A \cup D /\ x \in A \cup C /\ A \cup C \in SUBSET S /\ C \in SUBSET S
      BY <1>1, <3>2
    <3>7. Sum(g, A \cup C) = g[x] + Sum(g, A \cup D) /\ Sum(g, C) = g[x] + Sum(g, D)
      BY <1>3, <3>2, <3>6 DEF Adds
    <3>8. g[x] \in Nat /\ Sum(g, D) \in Nat
      <4>1. D \in SUBSET S /\ x \in S
        BY <1>1, <3>3
      <4> QED
        BY <1>2, <1>3, <4>1 DEF Adds
    <3> QED
      BY <1>6, <3>5, <3>7, <3>8
  <2>2. ASSUME NEW C \in SUBSET B, Cardinality(C) <= k + 1
        PROVE  Sum(g, A \cup C) = Sum(g, A) + Sum(g, C)
    <3>1. CASE C = {}
      <4>1. A \cup C = A
        BY <3>1
      <4> QED
        BY <1>6, <3>1, <4>1
    <3> QED
      BY <2>1, <2>2, <3>1
  <2> QED
    BY <1>4, <2>2
<1>9. PICK c \in Nat : c = Cardinality(B)
  BY <1>5
<1>10. c \in T
  BY <1>7, <1>8, NatSetInduction
<1> QED
  BY <1>4, <1>6, <1>9, <1>10

(* Of a part, at most the whole.                                             *)
LEMMA SumPart ==
  ASSUME NEW g, NEW A, NEW B, IsFiniteSet(B), A \subseteq B, \A x \in B : g[x] \in Nat
  PROVE  Sum(g, A) \in Nat /\ Sum(g, B) \in Nat /\ Sum(g, A) <= Sum(g, B)
<1>1. PICK C : C = B \ A
  OBVIOUS
<1>2. IsFiniteSet(A) /\ IsFiniteSet(C)
  BY <1>1, FS_Subset
<1>3. A \cap C = {} /\ A \cup C = B
  BY <1>1
<1>4. Sum(g, A) \in Nat /\ Sum(g, C) \in Nat /\ Sum(g, B) = Sum(g, A) + Sum(g, C)
  BY <1>2, <1>3, SumUnion
<1> QED
  BY <1>4

(* The elements renamed.                                                     *)
LEMMA SumRenamed ==
  ASSUME NEW g, NEW S, IsFiniteSet(S), \A x \in S : g[x] \in Nat,
         NEW h, \A x, y \in S : h[x] = h[y] => x = y,
         NEW f, \A x \in S : f[h[x]] = g[x],
         NEW C, \A x \in S : h[x] \in C, \A y \in C : \E x \in S : y = h[x]
  PROVE  Sum(f, C) = Sum(g, S)
<1>1. Adds(g, S)
  BY SumAdds
<1>2. PICK U : U = {h[x] : x \in S}
  OBVIOUS
<1>3. IsFiniteSet(U) /\ \A y \in U : f[y] \in Nat
  <2>1. IsFiniteSet(U)
    <3>1. PICK e : e = [x \in S |-> h[x]]
      OBVIOUS
    <3>2. e \in Surjection(S, U)
      BY <1>2, <3>1 DEF Surjection
    <3> QED
      BY <3>2, FS_Surjection
  <2> QED
    BY <1>2, <2>1
<1>4. Adds(f, U)
  BY <1>3, SumAdds
<1>5. PICK T : T = {k \in Nat : \A A \in SUBSET S : Cardinality(A) <= k =>
                                  Sum(f, {h[x] : x \in A}) = Sum(g, A)}
  OBVIOUS
<1>6. \A A \in SUBSET S : IsFiniteSet(A) /\ Cardinality(A) \in Nat
  BY FS_Subset, FS_CardinalityType
<1>7. 0 \in T
  <2>1. ASSUME NEW A \in SUBSET S, Cardinality(A) <= 0 PROVE Sum(f, {h[x] : x \in A}) = Sum(g, A)
    <3>1. A = {} /\ {h[x] : x \in A} = {}
      BY <1>6, <2>1, FS_EmptySet
    <3> QED
      BY <1>1, <1>4, <3>1 DEF Adds
  <2> QED
    BY <1>5, <2>1
<1>8. ASSUME NEW k \in Nat, k \in T PROVE k + 1 \in T
  <2>1. ASSUME NEW A \in SUBSET S, Cardinality(A) <= k + 1, A # {}
        PROVE  Sum(f, {h[x] : x \in A}) = Sum(g, A)
    <3>1. PICK a \in A : TRUE
      BY <2>1
    <3>2. PICK D, V, W : D = A \ {a} /\ V = {h[x] : x \in A} /\ W = {h[x] : x \in D}
      OBVIOUS
    <3>3. D \in SUBSET S /\ Cardinality(D) = Cardinality(A) - 1
      BY <1>6, <3>2, FS_RemoveElement
    <3>4. Cardinality(D) <= k
      BY <1>6, <2>1, <3>3
    <3>5. Sum(f, W) = Sum(g, D)
      BY <1>5, <1>8, <3>2, <3>3, <3>4
    <3>6. V \ {h[a]} = W /\ h[a] \in V /\ V \in SUBSET U
      BY <1>2, <3>2
    <3>7. Sum(f, V) = f[h[a]] + Sum(f, W)
      BY <1>4, <3>6 DEF Adds
    <3>8. Sum(g, A) = g[a] + Sum(g, D)
      BY <1>1, <3>2 DEF Adds
    <3> QED
      BY <3>2, <3>5, <3>7, <3>8
  <2>2. ASSUME NEW A \in SUBSET S, Cardinality(A) <= k + 1
        PROVE  Sum(f, {h[x] : x \in A}) = Sum(g, A)
    <3>1. CASE A = {}
      <4>1. {h[x] : x \in A} = {}
        BY <3>1
      <4> QED
        BY <1>1, <1>4, <3>1, <4>1 DEF Adds
    <3> QED
      BY <2>1, <2>2, <3>1
  <2> QED
    BY <1>5, <2>2
<1>9. PICK c \in Nat : c = Cardinality(S)
  BY <1>6
<1>10. c \in T
  BY <1>7, <1>8, NatSetInduction
<1>11. Sum(f, {h[x] : x \in S}) = Sum(g, S)
  BY <1>5, <1>9, <1>10
<1>12. C = {h[x] : x \in S}
  OBVIOUS
<1> QED
  BY <1>11, <1>12, Zenon

(* No value above c.                                                         *)
LEMMA SumBounded ==
  ASSUME NEW g, NEW S, IsFiniteSet(S), NEW c \in Nat, \A x \in S : g[x] \in Nat /\ g[x] <= c
  PROVE  Sum(g, S) <= c * Cardinality(S)
<1>1. Adds(g, S)
  BY SumAdds
<1>2. PICK T : T = {k \in Nat : \A A \in SUBSET S : Cardinality(A) = k => Sum(g, A) <= c * k}
  OBVIOUS
<1>3. \A A \in SUBSET S : IsFiniteSet(A) /\ Cardinality(A) \in Nat
  BY FS_Subset, FS_CardinalityType
<1>4. 0 \in T
  <2>1. ASSUME NEW A \in SUBSET S, Cardinality(A) = 0 PROVE Sum(g, A) <= c * 0
    <3>1. A = {}
      BY <1>3, <2>1, FS_EmptySet
    <3> QED
      BY <1>1, <3>1 DEF Adds
  <2> QED
    BY <1>2, <2>1
<1>5. ASSUME NEW k \in Nat, k \in T PROVE k + 1 \in T
  <2>1. ASSUME NEW A \in SUBSET S, Cardinality(A) = k + 1 PROVE Sum(g, A) <= c * (k + 1)
    <3>1. PICK x \in A : TRUE
      BY <2>1, FS_EmptySet
    <3>2. A \ {x} \in SUBSET S /\ Cardinality(A \ {x}) = k
      <4>1. Cardinality(A \ {x}) = Cardinality(A) - 1
        BY <1>3, FS_RemoveElement
      <4> QED
        BY <2>1, <4>1
    <3>3. Sum(g, A \ {x}) <= c * k
      BY <1>2, <1>5, <3>2
    <3>4. Sum(g, A) = g[x] + Sum(g, A \ {x}) /\ Sum(g, A \ {x}) \in Nat
      BY <1>1, <3>2 DEF Adds
    <3>5. c * (k + 1) = c * k + c /\ c * k \in Nat
      OBVIOUS
    <3>6. g[x] \in Nat /\ g[x] <= c
      OBVIOUS
    <3>7. PICK v, w, u : v = c * (k + 1) /\ w = c * k /\ u = Sum(g, A \ {x})
      OBVIOUS
    <3>8. v = w + c /\ w \in Nat /\ u <= w /\ u \in Nat /\ Sum(g, A) = g[x] + u
      BY <3>3, <3>4, <3>5, <3>7
    <3>9. g[x] + u <= v
      BY <3>6, <3>8
    <3> QED
      BY <3>7, <3>8, <3>9
  <2> QED
    BY <1>2, <2>1
<1>6. PICK n \in Nat : n = Cardinality(S)
  BY <1>3
<1>7. n \in T
  BY <1>4, <1>5, NatSetInduction
<1> QED
  BY <1>2, <1>6, <1>7

-----------------------------------------------------------------------------
(* The list of open orders.                                                  *)

(* std::find_if.                                                             *)
LEMMA FindIs ==
  ASSUME NEW R, NEW open \in Seq(R), NEW id
  PROVE  /\ Find(open, id) \in 0..Len(open)
         /\ Find(open, id) = 0 => \A i \in 1..Len(open) : open[i].id # id
         /\ Find(open, id) # 0 => open[Find(open, id)].id = id
<1>0. DOMAIN open = 1..Len(open) /\ Len(open) \in Nat
  OBVIOUS
<1>1. CASE \E i \in 1..Len(open) : open[i].id = id
  <2>1. PICK T : T = {i \in 1..Len(open) : open[i].id = id}
    OBVIOUS
  <2>2. T \subseteq Nat /\ T # {}
    BY <1>1, <2>1
  <2>3. PICK n \in T : \A m \in T : ~ (m < n)
    BY <2>2, Least
  <2>4. n \in DOMAIN open /\ open[n].id = id /\ \A j \in DOMAIN open : j < n => open[j].id # id
    BY <1>0, <2>1, <2>3
  <2>5. Find(open, id) \in DOMAIN open /\ open[Find(open, id)].id = id
    BY <2>4 DEF Find
  <2> QED
    BY <1>0, <2>5
<1>2. CASE ~ \E i \in 1..Len(open) : open[i].id = id
  BY <1>0, <1>2 DEF Find
<1> QED
  BY <1>1, <1>2

LEMMA UpsertKeeps ==
  ASSUME NEW R, NEW open \in Seq(R), NEW r \in R, Unique(open)
  PROVE  Upsert(open, r) \in Seq(R) /\ Unique(Upsert(open, r))
<1>1. PICK k : k = Find(open, r.id)
  OBVIOUS
<1>2. k \in 0..Len(open) /\ Len(open) \in Nat
  BY <1>1, FindIs
<1>3. CASE k = 0
  <2>1. PICK s : s = Append(open, r)
    OBVIOUS
  <2>2. s \in Seq(R) /\ Len(s) = Len(open) + 1 /\ s[Len(open) + 1] = r
        /\ \A i \in 1..Len(open) : s[i] = open[i]
    BY <2>1
  <2>3. \A i \in 1..Len(open) : open[i].id # r.id
    BY <1>1, <1>3, FindIs
  <2>4. Unique(s)
    BY <1>2, <2>2, <2>3 DEF Unique
  <2>5. Upsert(open, r) = s
    BY <1>1, <1>3, <2>1 DEF Upsert
  <2> QED
    BY <2>2, <2>4, <2>5
<1>4. CASE k # 0
  <2>1. k \in 1..Len(open) /\ open[k].id = r.id
    BY <1>1, <1>2, <1>4, FindIs
  <2>2. PICK s : s = [open EXCEPT ![k] = r]
    OBVIOUS
  <2>3. s \in Seq(R) /\ Len(s) = Len(open) /\ s[k] = r
        /\ \A i \in 1..Len(open) : i # k => s[i] = open[i]
    BY <2>1, <2>2
  <2>4. \A i \in 1..Len(open) : s[i].id = open[i].id
    BY <2>1, <2>3
  <2>5. Unique(s)
    BY <2>3, <2>4 DEF Unique
  <2>6. Upsert(open, r) = s
    BY <1>1, <1>4, <2>2 DEF Upsert
  <2> QED
    BY <2>3, <2>5, <2>6
<1> QED
  BY <1>3, <1>4

LEMMA EraseKeeps ==
  ASSUME NEW R, NEW open \in Seq(R), NEW id, Unique(open)
  PROVE  Erase(open, id) \in Seq(R) /\ Unique(Erase(open, id))
<1>1. PICK k : k = Find(open, id)
  OBVIOUS
<1>2. k \in 0..Len(open) /\ Len(open) \in Nat
  BY <1>1, FindIs
<1>3. CASE k = 0
  BY <1>1, <1>3 DEF Erase
<1>4. CASE k # 0
  <2>1. PICK n : n = Len(open) - 1
    OBVIOUS
  <2>2. n \in Nat /\ Len(open) = n + 1
    BY <1>2, <1>4, <2>1
  <2>3. PICK s : s = [j \in 1..n |-> IF j < k THEN open[j] ELSE open[j + 1]]
    OBVIOUS
  <2>4. \A j \in 1..n : s[j] = open[IF j < k THEN j ELSE j + 1]
    BY <2>3
  <2>5. \A j \in 1..n : (IF j < k THEN j ELSE j + 1) \in 1..Len(open)
    BY <2>2
  <2>6. s \in Seq(R) /\ Len(s) = n
    <3>1. \A j \in 1..n : (IF j < k THEN open[j] ELSE open[j + 1]) \in R
      BY <2>2
    <3> QED
      BY <2>2, <2>3, <3>1
  <2>7. ASSUME NEW i \in 1..n, NEW j \in 1..n, s[i].id = s[j].id PROVE i = j
    <3>1. (IF i < k THEN i ELSE i + 1) = (IF j < k THEN j ELSE j + 1)
      BY <2>4, <2>5, <2>7 DEF Unique
    <3> QED
      BY <1>2, <3>1
  <2>8. Unique(s)
    BY <2>6, <2>7 DEF Unique
  <2>9. Erase(open, id) = s
    BY <1>1, <1>4, <2>1, <2>3 DEF Erase
  <2> QED
    BY <2>6, <2>8, <2>9
<1> QED
  BY <1>3, <1>4

(* What is listed after an upsert and after an erase.                        *)
Upserted(R, open, r, s) ==
  /\ s \in Seq(R) /\ Unique(s)
  /\ \A i \in 1 .. Len(s) : s[i] = r \/ \E j \in 1 .. Len(open) : s[i] = open[j]
  /\ \E i \in 1 .. Len(s) : s[i] = r
  /\ \A j \in 1 .. Len(open) : open[j].id # r.id => \E i \in 1 .. Len(s) : s[i] = open[j]

LEMMA UpsertIs ==
  ASSUME NEW R, NEW open \in Seq(R), NEW r \in R, Unique(open), NEW s, s = Upsert(open, r)
  PROVE  Upserted(R, open, r, s)
<1> USE DEF Upserted
<1>1. PICK k : k = Find(open, r.id)
  OBVIOUS
<1>2. k \in 0 .. Len(open) /\ Len(open) \in Nat /\ (k # 0 => open[k].id = r.id)
  BY <1>1, FindIs
<1>3. s \in Seq(R) /\ Unique(s)
  BY UpsertKeeps
<1>4. CASE k = 0
  <2>1. s = Append(open, r)
    BY <1>1, <1>4 DEF Upsert
  <2>2. /\ Len(s) = Len(open) + 1 /\ s[Len(open) + 1] = r
        /\ \A i \in 1 .. Len(open) : s[i] = open[i]
    BY <2>1
  <2>3. Len(s) \in 1 .. Len(s) /\ s[Len(s)] = r
    BY <1>2, <2>2
  <2> QED
    BY <1>2, <1>3, <2>2, <2>3
<1>5. CASE k # 0
  <2>1. s = [open EXCEPT ![k] = r]
    BY <1>1, <1>5 DEF Upsert
  <2>2. /\ Len(s) = Len(open) /\ s[k] = r /\ k \in 1 .. Len(open)
        /\ \A i \in 1 .. Len(open) : i # k => s[i] = open[i]
    BY <1>2, <1>5, <2>1
  <2> QED
    BY <1>2, <1>3, <1>5, <2>2
<1> QED
  BY <1>4, <1>5

Erased(R, open, id, s) ==
  /\ s \in Seq(R) /\ Unique(s)
  /\ \A i \in 1 .. Len(s) : \E j \in 1 .. Len(open) : s[i] = open[j] /\ open[j].id # id
  /\ \A j \in 1 .. Len(open) : open[j].id # id => \E i \in 1 .. Len(s) : s[i] = open[j]

LEMMA EraseIs ==
  ASSUME NEW R, NEW open \in Seq(R), NEW id, Unique(open), NEW s, s = Erase(open, id)
  PROVE  Erased(R, open, id, s)
<1> USE DEF Erased
<1>1. PICK k : k = Find(open, id)
  OBVIOUS
<1>2. /\ k \in 0 .. Len(open) /\ Len(open) \in Nat /\ (k # 0 => open[k].id = id)
      /\ k = 0 => \A i \in 1 .. Len(open) : open[i].id # id
  BY <1>1, FindIs
<1>3. s \in Seq(R) /\ Unique(s)
  BY EraseKeeps
<1>4. CASE k = 0
  <2>1. s = open
    BY <1>1, <1>4 DEF Erase
  <2> QED
    BY <1>2, <1>3, <1>4, <2>1
<1>5. CASE k # 0
  <2>1. PICK n : n = Len(open) - 1
    OBVIOUS
  <2>2. n \in Nat /\ Len(open) = n + 1 /\ k \in 1 .. (n + 1)
    BY <1>2, <1>5, <2>1
  <2>3. s = [j \in 1 .. n |-> IF j < k THEN open[j] ELSE open[j + 1]]
    BY <1>1, <1>5, <2>1 DEF Erase
  <2>4. Len(s) = n
    BY <2>2, <2>3
  <2>5. ASSUME NEW i \in 1 .. n
        PROVE  \E j \in 1 .. Len(open) : s[i] = open[j] /\ open[j].id # id
    <3>1. PICK j : j = IF i < k THEN i ELSE i + 1
      OBVIOUS
    <3>2. j \in 1 .. Len(open) /\ j # k /\ s[i] = open[j]
      BY <2>2, <2>3, <3>1
    <3>3. open[j].id # id
      BY <1>2, <1>5, <2>2, <3>2 DEF Unique
    <3> QED
      BY <3>2, <3>3
  <2>6. ASSUME NEW j \in 1 .. Len(open), open[j].id # id
        PROVE  \E i \in 1 .. n : s[i] = open[j]
    <3>1. j # k
      BY <1>2, <1>5, <2>6
    <3>2. CASE j < k
      <4>1. j \in 1 .. n /\ s[j] = open[j]
        BY <2>2, <2>3, <3>2
      <4> QED
        BY <4>1
    <3>3. CASE j > k
      <4>1. j - 1 \in 1 .. n /\ ~ (j - 1 < k) /\ (j - 1) + 1 = j
        BY <2>2, <3>3
      <4>2. s[j - 1] = open[j]
        BY <2>3, <4>1
      <4> QED
        BY <4>1, <4>2
    <3> QED
      BY <2>2, <3>1, <3>2, <3>3
  <2> QED
    BY <1>3, <2>4, <2>5, <2>6
<1> QED
  BY <1>4, <1>5
=============================================================================
