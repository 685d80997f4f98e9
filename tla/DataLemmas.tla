----------------------------- MODULE DataLemmas -----------------------------
(***************************************************************************)
(* Facts about the data of the models that several proofs need: numbers,   *)
(* finite sets, sequences, sums, and one asyncio.Semaphore as ChatSlots    *)
(* models it, for any set R of coroutines that use it.                     *)
(***************************************************************************)
EXTENDS Integers, FiniteSets, Sequences, FiniteSetTheorems, SequenceTheorems,
        FunctionTheorems, NaturalsInduction, WellFoundedInduction, TLAPS

NatLess == {n \in Nat \X Nat : n[1] < n[2]}

\* A non-empty set of naturals has a least element.
LEMMA LeastNatural ==
  ASSUME NEW T \in SUBSET Nat, T # {}
  PROVE  \E m \in T : \A k \in T : m <= k
<1>1. OpToRel(<, Nat) = NatLess
  BY Zenon DEF OpToRel, NatLess
<1>2. IsWellFoundedOn(NatLess, Nat)
  BY <1>1, NatLessThanWellFounded, Zenon
<1>3. PICK m \in T : \A k \in T : ~ (<<k, m>> \in NatLess)
  BY <1>2, WFMin, Zenon
<1>4. ASSUME NEW k \in T, k < m PROVE FALSE
  <2>1. <<k, m>> \in Nat \X Nat
    OBVIOUS
  <2>2. <<k, m>>[1] < <<k, m>>[2]
    BY <1>4
  <2>3. <<k, m>> \in NatLess
    BY <2>1, <2>2 DEF NatLess
  <2> QED BY <2>3, <1>3
<1> QED BY <1>4

\* The quotient of a division is the number whose multiple is next below.
LEMMA Quotient ==
  ASSUME NEW x \in Nat, NEW k \in Nat \ {0}
  PROVE  /\ x \div k \in Nat
         /\ k * (x \div k) <= x
         /\ x < k * (x \div k + 1)
OBVIOUS

\* A product grows with its factor.
LEMMA TimesGrows ==
  ASSUME NEW b \in Nat, NEW q \in Nat, NEW r \in Nat, q <= r
  PROVE  b * q \in Nat /\ b * r \in Nat /\ b * q <= b * r
<1>1. r - q \in Nat
  OBVIOUS
<1>2. b * q \in Nat /\ b * (r - q) \in Nat
  BY <1>1
<1>3. b * r = b * q + b * (r - q)
  OBVIOUS
<1> QED BY <1>2, <1>3

\* Among m numbers one is left over for a set of fewer than m elements.
LEMMA FreeNumber ==
  ASSUME NEW S, IsFiniteSet(S), NEW f, NEW m \in Nat, Cardinality(S) < m
  PROVE  \E n \in 1..m : \A x \in S : f[x] # n
<1> DEFINE g == [x \in S |-> f[x]]
           T == {f[x] : x \in S}
<1>1. g \in Surjection(S, T)
  BY DEF Surjection
<1>2. IsFiniteSet(T) /\ Cardinality(T) <= Cardinality(S)
  <2> HIDE DEF g, T
  <2> QED BY <1>1, FS_Surjection
<1>3. IsFiniteSet(1..m) /\ Cardinality(1..m) = m
  BY FS_Interval
<1>4. ~(1..m \subseteq T)
  <2> HIDE DEF T
  <2>1. Cardinality(T) \in Nat /\ Cardinality(S) \in Nat
    BY <1>2, FS_CardinalityType
  <2> SUFFICES ASSUME 1..m \subseteq T PROVE FALSE
    OBVIOUS
  <2>2. Cardinality(1..m) <= Cardinality(T)
    BY <1>2, FS_Subset
  <2> QED BY <1>2, <1>3, <2>1, <2>2
<1> QED BY <1>4

\* The elements of two sets without a common one add up.
LEMMA DisjointUnion ==
  ASSUME NEW S, NEW T, IsFiniteSet(S), IsFiniteSet(T), S \cap T = {}
  PROVE  /\ IsFiniteSet(S \cup T) /\ Cardinality(S) \in Nat /\ Cardinality(T) \in Nat
         /\ Cardinality(S \cup T) = Cardinality(S) + Cardinality(T)
<1>1. Cardinality(S) \in Nat /\ Cardinality(T) \in Nat
  BY FS_CardinalityType
<1>2. Cardinality(S \cap T) = 0
  BY FS_EmptySet
<1>3. /\ IsFiniteSet(S \cup T)
      /\ Cardinality(S \cup T) = Cardinality(S) + Cardinality(T) - Cardinality(S \cap T)
  BY FS_Union, Zenon
<1>4. S \cap T = {}
  OBVIOUS
<1> QED BY <1>1, <1>2, <1>3

\* A slot passed on changes hands without changing the count.
LEMMA ReplaceElement ==
  ASSUME NEW S, IsFiniteSet(S), NEW x \in S, NEW y, y \notin S
  PROVE  Cardinality((S \ {x}) \cup {y}) = Cardinality(S)
<1>1. IsFiniteSet(S \ {x}) /\ Cardinality(S \ {x}) = Cardinality(S) - 1
  BY FS_RemoveElement
<1>2. Cardinality((S \ {x}) \cup {y}) = Cardinality(S \ {x}) + 1
  BY <1>1, FS_AddElement
<1>3. Cardinality(S) \in Nat
  BY FS_CardinalityType
<1> QED BY <1>1, <1>2, <1>3

-----------------------------------------------------------------------------
\* The first element of a list and the others.
LEMMA HeadTailFacts ==
  ASSUME NEW S, NEW s \in Seq(S), s # <<>>
  PROVE  /\ Len(s) \in Nat /\ Len(s) > 0 /\ 1 \in 1..Len(s)
         /\ Head(s) = s[1] /\ Head(s) \in S
         /\ Tail(s) \in Seq(S)
         /\ Len(Tail(s)) = Len(s) - 1
         /\ \A i \in 1..Len(Tail(s)) : i + 1 \in 1..Len(s) /\ Tail(s)[i] = s[i + 1]
  OBVIOUS

\* A list with one more element at its end.
LEMMA AppendFacts ==
  ASSUME NEW S, NEW s \in Seq(S), NEW x \in S
  PROVE  /\ Append(s, x) \in Seq(S)
         /\ Append(s, x) # <<>>
         /\ Len(s) \in Nat
         /\ \A k \in 1..Len(Append(s, x)) :
              \/ k \in 1..Len(s) /\ Append(s, x)[k] = s[k]
              \/ k = Len(s) + 1 /\ Append(s, x)[k] = x
         /\ s # <<>> => Head(Append(s, x)) = Head(s)
  OBVIOUS

\* What is in a list is of its type.
LEMMA ElementsOf ==
  ASSUME NEW S, NEW s \in Seq(S), NEW i \in 1..Len(s)
  PROVE  s[i] \in S /\ i \in Nat /\ i >= 1
  OBVIOUS

\* A list of a part is a list of the whole.
LEMMA SeqOfSubset ==
  ASSUME NEW A, NEW B, A \subseteq B, NEW s \in Seq(A)
  PROVE  s \in Seq(B)
  OBVIOUS

\* A list cut in two is its two parts, one after the other.
LEMMA CutInTwo ==
  ASSUME NEW S, NEW s \in Seq(S), NEW cut \in 0..Len(s)
  PROVE  /\ SubSeq(s, 1, cut) \o SubSeq(s, cut + 1, Len(s)) = s
         /\ Len(SubSeq(s, cut + 1, Len(s))) = Len(s) - cut
         /\ \A i \in 1..cut : SubSeq(s, 1, cut)[i] = s[i]
         /\ \A i \in 1..(Len(s) - cut) : SubSeq(s, cut + 1, Len(s))[i] = s[cut + i]
         /\ DOMAIN SubSeq(s, 1, cut) = 1..cut
         /\ DOMAIN SubSeq(s, cut + 1, Len(s)) = 1..(Len(s) - cut)
<1>n. Len(s) \in Nat /\ cut \in Nat /\ cut <= Len(s)
  OBVIOUS
<1> USE <1>n
<1>0. \A i \in 1..Len(s) : s[i] \in S
  BY ElementOfSeq
<1>1. /\ SubSeq(s, 1, cut) \in Seq(S) /\ Len(SubSeq(s, 1, cut)) = cut
      /\ \A i \in 1..cut : SubSeq(s, 1, cut)[i] = s[i]
  <2>1. \A i \in 1..cut : s[i] \in S
    BY <1>0
  <2>2. /\ SubSeq(s, 1, cut) \in Seq(S)
        /\ Len(SubSeq(s, 1, cut)) = (IF 1 <= cut THEN cut - 1 + 1 ELSE 0)
        /\ \A i \in 1..(cut - 1 + 1) : SubSeq(s, 1, cut)[i] = s[1 + i - 1]
    BY <2>1, SubSeqProperties
  <2> QED BY <2>2
<1>2. /\ SubSeq(s, cut + 1, Len(s)) \in Seq(S)
      /\ Len(SubSeq(s, cut + 1, Len(s))) = Len(s) - cut
      /\ \A i \in 1..(Len(s) - cut) : SubSeq(s, cut + 1, Len(s))[i] = s[cut + i]
  <2>1. /\ cut + 1 \in Int /\ Len(s) \in Int
        /\ \A i \in (cut + 1)..Len(s) : s[i] \in S
    BY <1>0
  <2>2. /\ SubSeq(s, cut + 1, Len(s)) \in Seq(S)
        /\ Len(SubSeq(s, cut + 1, Len(s)))
             = (IF cut + 1 <= Len(s) THEN Len(s) - (cut + 1) + 1 ELSE 0)
        /\ \A i \in 1..(Len(s) - (cut + 1) + 1) :
             SubSeq(s, cut + 1, Len(s))[i] = s[(cut + 1) + i - 1]
    BY <2>1, SubSeqProperties
  <2>4. ASSUME NEW i \in 1..(Len(s) - cut) PROVE SubSeq(s, cut + 1, Len(s))[i] = s[cut + i]
    <3>1. (cut + 1) + i - 1 = cut + i /\ i \in 1..(Len(s) - (cut + 1) + 1)
      OBVIOUS
    <3> QED BY <2>2, <3>1
  <2>5. (IF cut + 1 <= Len(s) THEN Len(s) - (cut + 1) + 1 ELSE 0) = Len(s) - cut
    OBVIOUS
  <2> QED BY <2>2, <2>4, <2>5
<1> DEFINE p == SubSeq(s, 1, cut)
           q == SubSeq(s, cut + 1, Len(s))
<1>3. p \o q = s
  <2>1. p \in Seq(S) /\ q \in Seq(S)
    BY <1>1, <1>2
  <2>2. /\ p \o q \in Seq(S) /\ Len(p \o q) = Len(p) + Len(q)
        /\ \A i \in 1..(Len(p) + Len(q)) :
             (p \o q)[i] = IF i <= Len(p) THEN p[i] ELSE q[i - Len(p)]
    BY <2>1, ConcatProperties
  <2> HIDE DEF p, q
  <2>3. Len(p) = cut /\ Len(q) = Len(s) - cut
    BY <1>1, <1>2 DEF p, q
  <2>4. ASSUME NEW i \in 1..Len(s) PROVE (p \o q)[i] = s[i]
    <3>1. CASE i <= cut
      BY <1>1, <2>2, <2>3, <3>1 DEF p
    <3>2. CASE i > cut
      <4>1. i - cut \in 1..(Len(s) - cut) /\ cut + (i - cut) = i
        BY <3>2
      <4> QED BY <1>2, <2>2, <2>3, <3>2, <4>1 DEF q
    <3>3. i <= cut \/ i > cut
      OBVIOUS
    <3> QED BY <3>1, <3>2, <3>3
  <2>5. Len(p \o q) = Len(s)
    BY <2>2, <2>3
  <2> QED BY <2>2, <2>4, <2>5, SeqEqual
<1>4. DOMAIN p = 1..cut /\ DOMAIN q = 1..(Len(s) - cut)
  BY <1>1, <1>2, LenProperties
<1> QED BY <1>1, <1>2, <1>3, <1>4

\* A list with one more element at either end.
LEMMA Framed ==
  ASSUME NEW S, NEW L \in Seq(S), NEW x \in S, NEW y \in S
  PROVE  /\ (<<x>> \o L) \o <<y>> \in Seq(S)
         /\ Len((<<x>> \o L) \o <<y>>) = Len(L) + 2
         /\ ((<<x>> \o L) \o <<y>>)[1] = x
         /\ ((<<x>> \o L) \o <<y>>)[Len(L) + 2] = y
         /\ \A i \in 1..Len(L) : ((<<x>> \o L) \o <<y>>)[i + 1] = L[i]
<1> DEFINE a == <<x>>
           b == <<y>>
           h == a \o L
           s == h \o b
<1>1. a \in Seq(S) /\ Len(a) = 1 /\ a[1] = x /\ b \in Seq(S) /\ Len(b) = 1 /\ b[1] = y
  OBVIOUS
<1> HIDE DEF a, b
<1>2. /\ h \in Seq(S) /\ Len(h) = Len(a) + Len(L)
      /\ \A i \in 1..Len(a) + Len(L) : h[i] = IF i <= Len(a) THEN a[i] ELSE L[i - Len(a)]
  BY <1>1, ConcatProperties
<1> HIDE DEF h
<1>3. /\ s \in Seq(S) /\ Len(s) = Len(h) + Len(b)
      /\ \A i \in 1..Len(h) + Len(b) : s[i] = IF i <= Len(h) THEN h[i] ELSE b[i - Len(h)]
  <2>1. h \in Seq(S) /\ b \in Seq(S)
    BY <1>1, <1>2
  <2> QED BY <2>1, ConcatProperties
<1> HIDE DEF s
<1>4. Len(L) \in Nat
  OBVIOUS
<1>5. Len(h) = Len(L) + 1 /\ Len(s) = Len(L) + 2
  BY <1>1, <1>2, <1>3, <1>4
<1>6. s[1] = x /\ s[Len(L) + 2] = y
  <2>1. 1 <= Len(h) /\ 1 <= Len(a) /\ 1 \in 1..Len(h) + Len(b) /\ 1 \in 1..Len(a) + Len(L)
    BY <1>1, <1>4, <1>5
  <2>2. s[1] = x
    BY <1>1, <1>2, <1>3, <2>1
  <2>3. Len(L) + 2 \in 1..Len(h) + Len(b) /\ ~(Len(L) + 2 <= Len(h)) /\ Len(L) + 2 - Len(h) = 1
    BY <1>1, <1>4, <1>5
  <2> QED BY <1>1, <1>3, <2>2, <2>3
<1>7. ASSUME NEW i \in 1..Len(L) PROVE s[i + 1] = L[i]
  <2>1. i + 1 \in 1..Len(h) + Len(b) /\ i + 1 <= Len(h) /\ i + 1 \in 1..Len(a) + Len(L)
        /\ ~(i + 1 <= Len(a)) /\ i + 1 - Len(a) = i
    BY <1>1, <1>4, <1>5
  <2> QED BY <1>2, <1>3, <2>1
<1> QED BY <1>3, <1>5, <1>6, <1>7 DEF s, h, a, b

\* It does not matter which of two lists an element in front of both joins.
LEMMA HeadOfTwo ==
  ASSUME NEW S, NEW x \in S, NEW s \in Seq(S), NEW t \in Seq(S)
  PROVE  (<<x>> \o s) \o t = <<x>> \o (s \o t)
<1>1. <<x>> \in Seq(S)
  OBVIOUS
<1>2. PICK h \in Seq(S) : h = <<x>>
  BY <1>1
<1>3. (h \o s) \o t = h \o (s \o t)
  BY ConcatAssociative
<1> QED BY <1>2, <1>3

-----------------------------------------------------------------------------
\* Sums as numbers of things: f[x] things for every x.
Things(f) == UNION {{x} \X (1..f[x]) : x \in DOMAIN f}
Countable(f) == IsFiniteSet(DOMAIN f) /\ \A x \in DOMAIN f : f[x] \in Nat

LEMMA ThingIs ==
  ASSUME NEW f, Countable(f), NEW x, NEW k
  PROVE  <<x, k>> \in Things(f) <=> x \in DOMAIN f /\ k \in 1..f[x]
<1>1. ASSUME <<x, k>> \in Things(f) PROVE x \in DOMAIN f /\ k \in 1..f[x]
  <2>1. PICK y \in DOMAIN f : <<x, k>> \in {y} \X (1..f[y])
    BY <1>1, Zenon DEF Things
  <2> QED BY <2>1
<1>2. ASSUME x \in DOMAIN f, k \in 1..f[x] PROVE <<x, k>> \in Things(f)
  <2>1. <<x, k>> \in {x} \X (1..f[x])
    BY <1>2
  <2> QED BY <1>2, <2>1, Zenon DEF Things
<1> QED BY <1>1, <1>2

LEMMA ThingForm ==
  ASSUME NEW f, Countable(f), NEW p \in Things(f)
  PROVE  p = <<p[1], p[2]>> /\ p[1] \in DOMAIN f /\ p[2] \in 1..f[p[1]]
<1>1. PICK y \in DOMAIN f : p \in {y} \X (1..f[y])
  BY Zenon DEF Things
<1> QED BY <1>1

LEMMA ThingsFinite ==
  ASSUME NEW f, Countable(f)
  PROVE  IsFiniteSet(Things(f)) /\ Cardinality(Things(f)) \in Nat
<1> DEFINE S == DOMAIN f
           Pile(i) == {i} \X (1..f[i])
           Piles == {Pile(i) : i \in S}
<1>0. IsFiniteSet(S) /\ \A i \in S : f[i] \in Nat
  BY DEF Countable
<1>1. IsFiniteSet(Piles)
  <2> DEFINE g == [i \in S |-> Pile(i)]
  <2>1. g \in Surjection(S, Piles)
    BY DEF Surjection
  <2> HIDE DEF g, Piles, S
  <2> QED BY <1>0, <2>1, FS_Surjection
<1>2. ASSUME NEW i \in S PROVE IsFiniteSet(Pile(i))
  <2>1. IsFiniteSet({i})
    BY FS_Singleton
  <2>2. IsFiniteSet(1..f[i])
    <3>1. 1 \in Int /\ f[i] \in Int
      BY <1>0
    <3> QED BY <3>1, FS_Interval
  <2> QED BY <2>1, <2>2, FS_Product
<1>3. \A T \in Piles : IsFiniteSet(T)
  BY <1>2
<1>4. IsFiniteSet(UNION Piles)
  <2> HIDE DEF Piles
  <2> QED BY <1>1, <1>3, FS_UNION
<1>5. Things(f) = UNION Piles
  BY Zenon DEF Things
<1> QED BY <1>4, <1>5, FS_CardinalityType

\* No term is more than the sum.
LEMMA TermAtMostSum ==
  ASSUME NEW f, Countable(f), NEW x \in DOMAIN f
  PROVE  f[x] <= Cardinality(Things(f))
<1> DEFINE P == {x} \X (1..f[x])
<1>0. f[x] \in Nat
  BY DEF Countable
<1>1. IsFiniteSet({x}) /\ Cardinality({x}) = 1
  BY FS_Singleton
<1>2. IsFiniteSet(1..f[x]) /\ Cardinality(1..f[x]) = f[x]
  <2>1. 1 \in Int /\ f[x] \in Int
    BY <1>0
  <2>2. /\ IsFiniteSet(1..f[x])
        /\ Cardinality(1..f[x]) = IF 1 > f[x] THEN 0 ELSE f[x] - 1 + 1
    BY <2>1, FS_Interval
  <2> QED BY <1>0, <2>2
<1>3. Cardinality(P) = Cardinality({x}) * Cardinality(1..f[x])
  BY <1>1, <1>2, FS_Product
<1>4. P \subseteq Things(f)
  BY Zenon DEF Things
<1>5. Cardinality(P) <= Cardinality(Things(f))
  <2> HIDE DEF P
  <2> QED BY <1>4, ThingsFinite, FS_Subset
<1> QED BY <1>0, <1>1, <1>2, <1>3, <1>5

\* The sum of the sums of groups is the sum.
\* The part of f that h sends to d.
Group(f, h, d) == [x \in {y \in DOMAIN f : h[y] = d} |-> f[x]]

LEMMA OneToOne ==
  ASSUME NEW S, NEW T, NEW m \in Bijection(S, T)
  PROVE  /\ \A k \in S : m[k] \in T
         /\ \A k, l \in S : m[k] = m[l] => k = l
         /\ \A t \in T : \E k \in S : m[k] = t
BY DEF Bijection, Injection, Surjection, IsInjective

LEMMA SumByGroups ==
  ASSUME NEW f, Countable(f), NEW h, NEW w,
         DOMAIN w = {h[x] : x \in DOMAIN f},
         \A d \in DOMAIN w : w[d] = Cardinality(Things(Group(f, h, d)))
  PROVE  Cardinality(Things(w)) = Cardinality(Things(f))
<1> DEFINE D == DOMAIN w
           G(d) == [x \in {y \in DOMAIN f : h[y] = d} |-> f[x]]
           T(d) == Things(G(d))
           b(d) == CHOOSE m : m \in Bijection(1..w[d], T(d))
           B == [p \in Things(w) |-> b(p[1])[p[2]]]
<1>1. ASSUME NEW d \in D
      PROVE  /\ Countable(G(d)) /\ IsFiniteSet(T(d)) /\ w[d] = Cardinality(T(d)) /\ w[d] \in Nat
             /\ b(d) \in Bijection(1..w[d], T(d))
  <2>1. Countable(G(d))
    <3>1. DOMAIN G(d) \subseteq DOMAIN f
      OBVIOUS
    <3>2. IsFiniteSet(DOMAIN G(d))
      <4> HIDE DEF G
      <4> QED BY <3>1, FS_Subset DEF Countable
    <3> QED BY <3>2 DEF Countable
  <2>2. w[d] = Cardinality(T(d))
    BY Zenon DEF Group
  <2> HIDE DEF G
  <2>3. IsFiniteSet(T(d)) /\ Cardinality(T(d)) \in Nat
    BY <2>1, ThingsFinite
  <2> HIDE DEF T
  <2>4. ExistsBijection(1..Cardinality(T(d)), T(d))
    BY <2>3, FS_CardinalityType
  <2>5. \E m : m \in Bijection(1..w[d], T(d))
    BY <2>2, <2>4 DEF ExistsBijection
  <2> QED BY <2>1, <2>2, <2>3, <2>5, Zenon
<1>2. Countable(w)
  <2> DEFINE k == [x \in DOMAIN f |-> h[x]]
  <2>1. k \in Surjection(DOMAIN f, D)
    BY DEF Surjection
  <2>2. IsFiniteSet(D)
    <3> HIDE DEF k, D
    <3> QED BY <2>1, FS_Surjection DEF Countable
  <2> QED BY <1>1, <2>2 DEF Countable
<1>3. ASSUME NEW d \in D, NEW x, NEW l
      PROVE  <<x, l>> \in T(d) <=> <<x, l>> \in Things(f) /\ h[x] = d
  <2>1. <<x, l>> \in T(d) <=> x \in DOMAIN G(d) /\ l \in 1..(G(d)[x])
    <3>1. Countable(G(d))
      BY <1>1
    <3> HIDE DEF G
    <3> QED BY <3>1, ThingIs
  <2>2. <<x, l>> \in Things(f) <=> x \in DOMAIN f /\ l \in 1..f[x]
    BY ThingIs
  <2> HIDE DEF T
  <2> QED BY <2>1, <2>2
<1>4. ASSUME NEW d \in D, NEW t \in T(d) PROVE t \in Things(f) /\ h[t[1]] = d
  <2>1. t = <<t[1], t[2]>>
    <3>1. Countable(G(d))
      BY <1>1
    <3> HIDE DEF G
    <3> QED BY <3>1, ThingForm
  <2>2. <<t[1], t[2]>> \in T(d)
    BY <2>1
  <2> HIDE DEF T
  <2>3. <<t[1], t[2]>> \in Things(f) /\ h[t[1]] = d
    BY <1>3, <2>2
  <2> QED BY <2>1, <2>3
<1>5. ASSUME NEW t \in Things(f) PROVE h[t[1]] \in D /\ t \in T(h[t[1]])
  <2>1. t = <<t[1], t[2]>> /\ t[1] \in DOMAIN f
    BY ThingForm
  <2>2. h[t[1]] \in D
    BY <2>1
  <2> HIDE DEF T, D
  <2> QED BY <1>3, <2>1, <2>2
<1> HIDE DEF T, G
<1>6. ASSUME NEW d \in D
      PROVE  /\ \A k \in 1..w[d] : b(d)[k] \in T(d)
             /\ \A k, l \in 1..w[d] : b(d)[k] = b(d)[l] => k = l
             /\ \A t \in T(d) : \E k \in 1..w[d] : b(d)[k] = t
  <2>1. b(d) \in Bijection(1..w[d], T(d))
    BY <1>1
  <2> HIDE DEF b
  <2>2. PICK m \in Bijection(1..w[d], T(d)) : m = b(d)
    BY <2>1
  <2>3. /\ \A k \in 1..w[d] : m[k] \in T(d)
        /\ \A k, l \in 1..w[d] : m[k] = m[l] => k = l
        /\ \A t \in T(d) : \E k \in 1..w[d] : m[k] = t
    <3> DEFINE N == 1..w[d]
               Q == T(d)
    <3>1. m \in Bijection(N, Q)
      OBVIOUS
    <3> HIDE DEF N, Q
    <3>2. /\ \A k \in N : m[k] \in Q
          /\ \A k, l \in N : m[k] = m[l] => k = l
          /\ \A t \in Q : \E k \in N : m[k] = t
      BY <3>1, OneToOne
    <3> QED BY <3>2 DEF N, Q
  <2> QED BY <2>2, <2>3
<1> HIDE DEF b
<1>7. ASSUME NEW p \in Things(w)
      PROVE  p = <<p[1], p[2]>> /\ p[1] \in D /\ p[2] \in 1..w[p[1]] /\ B[p] = b(p[1])[p[2]]
  BY <1>2, ThingForm
<1>8. B \in [Things(w) -> Things(f)]
  <2>1. ASSUME NEW p \in Things(w) PROVE b(p[1])[p[2]] \in Things(f)
    BY <1>4, <1>6, <1>7
  <2> QED BY <2>1
<1> HIDE DEF B
<1>9. ASSUME NEW p \in Things(w), NEW q \in Things(w), B[p] = B[q] PROVE p = q
  <2>1. B[p] \in T(p[1]) /\ B[q] \in T(q[1])
    BY <1>6, <1>7
  <2>2. p[1] = q[1]
    BY <1>4, <1>7, <1>9, <2>1
  <2>3. p[2] = q[2]
    BY <1>6, <1>7, <1>9, <2>2
  <2> QED BY <1>7, <2>2, <2>3
<1>10. ASSUME NEW t \in Things(f) PROVE \E p \in Things(w) : B[p] = t
  <2>1. PICK d \in D : t \in T(d)
    BY <1>5
  <2>2. PICK k \in 1..w[d] : b(d)[k] = t
    BY <1>6, <2>1
  <2>3. <<d, k>> \in Things(w)
    BY <1>2, ThingIs
  <2>4. B[<<d, k>>] = t
    BY <1>7, <2>2, <2>3
  <2> QED BY <2>3, <2>4
<1>11. B \in Bijection(Things(w), Things(f))
  BY <1>8, <1>9, <1>10, Fun_IsBij
<1> QED BY <1>2, <1>11, ThingsFinite, FS_Bijection DEF ExistsBijection

-----------------------------------------------------------------------------
(***************************************************************************)
(* The semaphore: p maps a coroutine to its location; L is the set of      *)
(* locations that hold a slot, a the location of a waiter that sleeps, w   *)
(* (in L) that of a waiter that has been handed a slot.                    *)
(***************************************************************************)
Distinct(s) == \A i, j \in 1..Len(s) : s[i] = s[j] => i = j

\* The first element of s at location l, as a set of at most one.
FirstAt(p, s, l) ==
  {s[i] : i \in {k \in 1..Len(s) :
                   p[s[k]] = l /\ \A j \in 1..(k - 1) : p[s[j]] # l}}

Holders(p, R, L) == {x \in R : p[x] \in L}

\* The semaphore's state is consistent: only its waiters queue, each once;
\* free slots and holders add up; a free slot in front of a queue is about to
\* be passed on by the first of the queue.
SemOK(p, free, size, q, R, L, a, w) ==
  /\ free \in Nat
  /\ q \in Seq(R)
  /\ \A i \in 1..Len(q) : p[q[i]] \in {a, w}
  /\ Distinct(q)
  /\ free + Cardinality(Holders(p, R, L)) = size
  /\ free > 0 /\ q # <<>> => p[Head(q)] = w

Locations(L, a, w) == a \notin L /\ w \in L

\* A coroutine that x's step does not concern keeps its part.
Same(p, p2, x, L, a, w) ==
  /\ p2[x] \in L <=> p[x] \in L
  /\ p2[x] = a <=> p[x] = a
  /\ p2[x] = w <=> p[x] = w

Unconcerned(p, p2, R, L, a, w, X) == \A x \in R \ X : Same(p, p2, x, L, a, w)

LEMMA AppendDistinct ==
  ASSUME NEW S, NEW s \in Seq(S), NEW x \in S, Distinct(s),
         \A i \in 1..Len(s) : s[i] # x
  PROVE  Distinct(Append(s, x))
BY AppendFacts DEF Distinct

LEMMA TailDistinct ==
  ASSUME NEW S, NEW s \in Seq(S), s # <<>>, Distinct(s)
  PROVE  /\ Distinct(Tail(s))
         /\ \A i \in 1..Len(Tail(s)) : Tail(s)[i] # Head(s)
BY HeadTailFacts DEF Distinct

\* What a wake-up finds: nobody asleep, or the first sleeper.
LEMMA FirstAtShape ==
  ASSUME NEW S, NEW s \in Seq(S), NEW p, NEW l
  PROVE  \/ FirstAt(p, s, l) = {} /\ \A i \in 1..Len(s) : p[s[i]] # l
         \/ \E i \in 1..Len(s) : /\ FirstAt(p, s, l) = {s[i]} /\ p[s[i]] = l
                                 /\ \A j \in 1..(i - 1) : p[s[j]] # l
<1> DEFINE T == {k \in 1..Len(s) : p[s[k]] = l}
<1>1. Len(s) \in Nat /\ T \in SUBSET Nat
  OBVIOUS
<1>2. CASE T = {}
  BY <1>2 DEF FirstAt
<1>3. CASE T # {}
  <2>1. PICK m \in T : \A k \in T : m <= k
    <3> HIDE DEF T
    <3> QED BY <1>1, <1>3, LeastNatural
  <2>2. m \in 1..Len(s) /\ p[s[m]] = l
    OBVIOUS
  <2>3. \A j \in 1..(m - 1) : p[s[j]] # l
    BY <1>1, <2>1, <2>2
  <2>4. ASSUME NEW k \in 1..Len(s), p[s[k]] = l, \A j \in 1..(k - 1) : p[s[j]] # l
        PROVE  k = m
    BY <1>1, <2>2, <2>3, <2>4
  <2>5. FirstAt(p, s, l) = {s[m]}
    BY <2>2, <2>3, <2>4 DEF FirstAt
  <2> QED BY <2>2, <2>3, <2>5
<1> QED BY <1>2, <1>3

LEMMA FiniteHolders ==
  ASSUME NEW R, IsFiniteSet(R), NEW p, NEW L
  PROVE  IsFiniteSet(Holders(p, R, L)) /\ Cardinality(Holders(p, R, L)) \in Nat
<1>1. Holders(p, R, L) \subseteq R
  BY DEF Holders
<1> QED BY <1>1, FS_Subset, FS_CardinalityType

-----------------------------------------------------------------------------
\* A step that concerns no coroutine of the semaphore.
LEMMA SemUnrelated ==
  ASSUME NEW p, NEW p2, NEW free, NEW size, NEW q, NEW R, NEW L, NEW a, NEW w,
         SemOK(p, free, size, q, R, L, a, w),
         Unconcerned(p, p2, R, L, a, w, {})
  PROVE  SemOK(p2, free, size, q, R, L, a, w)
<1>1. Holders(p2, R, L) = Holders(p, R, L)
  BY DEF Holders, Unconcerned, Same
<1>2. q \in Seq(R) /\ \A i \in 1..Len(q) : q[i] \in R
  BY ElementsOf DEF SemOK
<1>3. \A i \in 1..Len(q) : p2[q[i]] \in {a, w}
  BY <1>2 DEF SemOK, Unconcerned, Same
<1>4. q # <<>> => Head(q) \in R
  BY <1>2, HeadTailFacts
<1>5. free > 0 /\ q # <<>> => p2[Head(q)] = w
  BY <1>4 DEF SemOK, Unconcerned, Same
<1> QED BY <1>1, <1>3, <1>5 DEF SemOK

\* acquire() when a slot is free and nobody queues.
LEMMA SemTake ==
  ASSUME NEW p, NEW p2, NEW free, NEW size, NEW q, NEW R, NEW L, NEW a, NEW w,
         SemOK(p, free, size, q, R, L, a, w), IsFiniteSet(R),
         NEW x \in R, Unconcerned(p, p2, R, L, a, w, {x}),
         free > 0, q = <<>>, p[x] \notin L, p2[x] \in L
  PROVE  SemOK(p2, free - 1, size, q, R, L, a, w)
<1>1. Holders(p2, R, L) = Holders(p, R, L) \cup {x} /\ x \notin Holders(p, R, L)
  BY DEF Holders, Unconcerned, Same
<1>2. Cardinality(Holders(p2, R, L)) = Cardinality(Holders(p, R, L)) + 1
  BY <1>1, FiniteHolders, FS_AddElement
<1>3. Cardinality(Holders(p, R, L)) \in Nat
  BY FiniteHolders
<1>4. free - 1 \in Nat /\ (free - 1) + Cardinality(Holders(p2, R, L)) = size
  BY <1>2, <1>3 DEF SemOK
<1>5. \A i \in 1..Len(q) : p2[q[i]] \in {a, w}
  OBVIOUS
<1> QED BY <1>4, <1>5 DEF SemOK

\* acquire() when it has to wait.
LEMMA SemJoin ==
  ASSUME NEW p, NEW p2, NEW free, NEW size, NEW q, NEW R, NEW L, NEW a, NEW w,
         SemOK(p, free, size, q, R, L, a, w), Locations(L, a, w),
         NEW x \in R, Unconcerned(p, p2, R, L, a, w, {x}),
         ~(free > 0 /\ q = <<>>), p[x] \notin L, p[x] # a, p2[x] = a
  PROVE  SemOK(p2, free, size, Append(q, x), R, L, a, w)
<1>1. Holders(p2, R, L) = Holders(p, R, L)
  BY DEF Holders, Unconcerned, Same, Locations
<1>2. /\ free \in Nat /\ q \in Seq(R) /\ Distinct(q)
      /\ \A i \in 1..Len(q) : p[q[i]] \in {a, w}
      /\ free > 0 /\ q # <<>> => p[Head(q)] = w
      /\ free + Cardinality(Holders(p, R, L)) = size
  BY DEF SemOK
<1>3. \A i \in 1..Len(q) : q[i] \in R /\ q[i] # x
  BY <1>2, ElementsOf DEF Locations
<1>4. \A i \in 1..Len(q) : p2[q[i]] \in {a, w}
  BY <1>2, <1>3 DEF Unconcerned, Same
<1>5. \A i \in 1..Len(Append(q, x)) : Append(q, x)[i] \in R /\ p2[Append(q, x)[i]] \in {a, w}
  BY <1>2, <1>3, <1>4, AppendFacts
<1>6. Append(q, x) \in Seq(R) /\ Distinct(Append(q, x))
  BY <1>2, <1>3, AppendFacts, AppendDistinct
<1>7. ASSUME free > 0 PROVE p2[Head(Append(q, x))] = w
  <2>1. q # <<>> /\ p[Head(q)] = w
    BY <1>2, <1>7
  <2>2. Head(q) \in R /\ Head(q) # x
    BY <1>2, <2>1, HeadTailFacts DEF Locations
  <2>3. Head(Append(q, x)) = Head(q)
    BY <1>2, <2>1, AppendFacts
  <2> QED BY <2>1, <2>2, <2>3 DEF Unconcerned, Same
<1> QED BY <1>1, <1>2, <1>5, <1>6, <1>7 DEF SemOK

\* release(): the slot goes to the first sleeper, or becomes free.
LEMMA SemRelease ==
  ASSUME NEW p, NEW p2, NEW free, NEW size, NEW q, NEW R, NEW L, NEW a, NEW w,
         SemOK(p, free, size, q, R, L, a, w), Locations(L, a, w), IsFiniteSet(R),
         NEW x \in R, NEW W, W = FirstAt(p, q, a),
         Unconcerned(p, p2, R, L, a, w, {x} \cup W), \A y \in W : p2[y] = w,
         p[x] \in L, p[x] # w, p2[x] \notin L, p2[x] # a
  PROVE  SemOK(p2, IF W = {} THEN free + 1 ELSE free, size, q, R, L, a, w)
<1>1. /\ free \in Nat /\ q \in Seq(R) /\ Distinct(q)
      /\ \A i \in 1..Len(q) : p[q[i]] \in {a, w}
      /\ free > 0 /\ q # <<>> => p[Head(q)] = w
      /\ free + Cardinality(Holders(p, R, L)) = size
  BY DEF SemOK
<1>2. \A i \in 1..Len(q) : q[i] \in R /\ q[i] # x
  BY <1>1, ElementsOf DEF Locations
<1>3. \A i \in 1..Len(q) : p2[q[i]] \in {a, w} /\ (p[q[i]] = w => p2[q[i]] = w)
  BY <1>1, <1>2 DEF Unconcerned, Same
<1>4. x \in Holders(p, R, L) /\ IsFiniteSet(Holders(p, R, L))
      /\ Cardinality(Holders(p, R, L)) \in Nat
  BY FiniteHolders DEF Holders
<1>5. q # <<>> => 1 \in 1..Len(q) /\ Head(q) = q[1]
  BY <1>1, HeadTailFacts
<1>6. CASE W = {} /\ \A i \in 1..Len(q) : p[q[i]] # a
  <2>1. Holders(p2, R, L) = Holders(p, R, L) \ {x}
    BY <1>6 DEF Holders, Unconcerned, Same
  <2>2. Cardinality(Holders(p2, R, L)) = Cardinality(Holders(p, R, L)) - 1
    BY <1>4, <2>1, FS_RemoveElement
  <2>3. free + 1 \in Nat /\ (free + 1) + Cardinality(Holders(p2, R, L)) = size
    BY <1>1, <1>4, <2>2
  <2>4. q # <<>> => p2[Head(q)] = w
    BY <1>1, <1>3, <1>5, <1>6
  <2> QED BY <1>1, <1>3, <1>6, <2>3, <2>4 DEF SemOK
<1>7. ASSUME NEW i \in 1..Len(q), W = {q[i]}, p[q[i]] = a,
             \A j \in 1..(i - 1) : p[q[j]] # a
      PROVE  SemOK(p2, free, size, q, R, L, a, w)
  <2>1. q[i] \in R /\ q[i] # x /\ q[i] \notin Holders(p, R, L)
    BY <1>2, <1>7 DEF Holders, Locations
  <2>2. Holders(p2, R, L) = (Holders(p, R, L) \ {x}) \cup {q[i]}
    BY <1>7, <2>1 DEF Holders, Unconcerned, Same, Locations
  <2>3. Cardinality(Holders(p2, R, L)) = Cardinality(Holders(p, R, L))
    BY <1>4, <2>1, <2>2, ReplaceElement
  <2>4. free > 0 /\ q # <<>> => p2[Head(q)] = w
    BY <1>1, <1>3, <1>5
  <2> QED BY <1>1, <1>3, <2>3, <2>4 DEF SemOK
<1>8. \/ W = {} /\ \A i \in 1..Len(q) : p[q[i]] # a
      \/ \E i \in 1..Len(q) : /\ W = {q[i]} /\ p[q[i]] = a
                              /\ \A j \in 1..(i - 1) : p[q[j]] # a
  BY <1>1, FirstAtShape
<1>9. CASE W = {}
  BY <1>6, <1>8, <1>9
<1>10. CASE W # {}
  BY <1>7, <1>8, <1>10
<1> QED BY <1>9, <1>10

\* A woken waiter resumes and passes another free slot on.
LEMMA SemResume ==
  ASSUME NEW p, NEW p2, NEW free, NEW size, NEW q, NEW R, NEW L, NEW a, NEW w,
         SemOK(p, free, size, q, R, L, a, w), Locations(L, a, w), IsFiniteSet(R),
         NEW x \in R, NEW W, W = IF free > 0 THEN FirstAt(p, q, a) ELSE {},
         Unconcerned(p, p2, R, L, a, w, {x} \cup W), \A y \in W : p2[y] = w,
         q # <<>>, x = Head(q), p[x] = w, p2[x] \in L
  PROVE  SemOK(p2, IF W = {} THEN free ELSE free - 1, size, Tail(q), R, L, a, w)
<1>1. /\ free \in Nat /\ q \in Seq(R) /\ Distinct(q)
      /\ \A i \in 1..Len(q) : p[q[i]] \in {a, w}
      /\ free + Cardinality(Holders(p, R, L)) = size
  BY DEF SemOK
<1>2. /\ Tail(q) \in Seq(R) /\ Distinct(Tail(q))
      /\ Len(q) \in Nat
      /\ \A i \in 1..Len(Tail(q)) : i + 1 \in 1..Len(q) /\ Tail(q)[i] = q[i + 1]
      /\ \A i \in 1..Len(Tail(q)) : Tail(q)[i] # x /\ Tail(q)[i] \in R
      /\ Head(q) = q[1]
  BY <1>1, HeadTailFacts, TailDistinct, ElementsOf
<1>3. \A i \in 1..Len(Tail(q)) :
        /\ p2[Tail(q)[i]] \in {a, w}
        /\ p[Tail(q)[i]] = w => p2[Tail(q)[i]] = w
  BY <1>1, <1>2 DEF Unconcerned, Same
<1>4. x \in Holders(p, R, L) /\ IsFiniteSet(Holders(p, R, L))
      /\ Cardinality(Holders(p, R, L)) \in Nat
  <2>1. x \in Holders(p, R, L)
    BY Zenon DEF Holders, Locations
  <2> QED BY <2>1, FiniteHolders
<1>5. Tail(q) # <<>> => 1 \in 1..Len(Tail(q)) /\ Head(Tail(q)) = Tail(q)[1]
                        /\ Head(Tail(q)) = q[2] /\ 2 \in 1..Len(q)
  BY <1>2, HeadTailFacts
<1>6. CASE W = {}
  <2>1. Holders(p2, R, L) = Holders(p, R, L)
    BY <1>4, <1>6 DEF Holders, Unconcerned, Same
  <2>2. ASSUME free > 0, Tail(q) # <<>> PROVE p2[Head(Tail(q))] = w
    <3>1. \A i \in 1..Len(q) : p[q[i]] # a
      <4>1. FirstAt(p, q, a) = {}
        BY <1>6, <2>2
      <4>2. q \in Seq(R)
        BY <1>1
      <4>3. \/ FirstAt(p, q, a) = {} /\ \A i \in 1..Len(q) : p[q[i]] # a
            \/ \E i \in 1..Len(q) : FirstAt(p, q, a) = {q[i]}
        BY <4>2, FirstAtShape
      <4> QED BY <4>1, <4>3
    <3> QED BY <1>1, <1>3, <1>5, <2>2, <3>1
  <2> QED BY <1>1, <1>2, <1>3, <1>6, <2>1, <2>2 DEF SemOK
<1>7. CASE W # {}
  <2>1. free > 0 /\ W = FirstAt(p, q, a)
    BY <1>7
  <2>2. PICK i \in 1..Len(q) : /\ W = {q[i]} /\ p[q[i]] = a
                               /\ \A j \in 1..(i - 1) : p[q[j]] # a
    BY <1>1, <1>7, <2>1, FirstAtShape
  <2>3. q[i] \in R /\ q[i] # x /\ q[i] \notin Holders(p, R, L) /\ i \in Nat
    BY <1>1, <2>2, ElementsOf DEF Holders, Locations
  <2>4. Holders(p2, R, L) = Holders(p, R, L) \cup {q[i]}
    BY <1>4, <2>2, <2>3 DEF Holders, Unconcerned, Same, Locations
  <2>5. Cardinality(Holders(p2, R, L)) = Cardinality(Holders(p, R, L)) + 1
    <3> DEFINE H == Holders(p, R, L)
    <3>1. IsFiniteSet(H) /\ q[i] \notin H
      BY <1>4, <2>3
    <3> HIDE DEF H
    <3>2. Cardinality(H \cup {q[i]}) = Cardinality(H) + 1
      BY <3>1, FS_AddElement
    <3> QED BY <2>4, <3>2 DEF H
  <2>6. free - 1 \in Nat /\ (free - 1) + Cardinality(Holders(p2, R, L)) = size
    BY <1>1, <1>4, <2>1, <2>5
  <2>7. ASSUME Tail(q) # <<>> PROVE p2[Head(Tail(q))] = w
    <3>1. CASE p[q[2]] = w
      BY <1>3, <1>5, <2>7, <3>1
    <3>2. CASE p[q[2]] = a
      <4>1. i # 1
        BY <1>2, <2>3
      <4>2. ~(2 \in 1..(i - 1))
        BY <2>2, <3>2
      <4>3. i = 2
        BY <1>2, <2>3, <4>1, <4>2
      <4> QED BY <1>5, <2>2, <2>7, <4>3
    <3> QED BY <1>1, <1>5, <2>7, <3>1, <3>2
  <2> QED BY <1>1, <1>2, <1>3, <1>7, <2>6, <2>7 DEF SemOK
<1> QED BY <1>6, <1>7
=============================================================================
