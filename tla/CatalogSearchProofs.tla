------------------------- MODULE CatalogSearchProofs -------------------------
(***************************************************************************)
(* Theorems about NeutralRanking and CatalogSearch.                        *)
(*                                                                         *)
(* The comparison of neutral-ranking.ts is the documented order, a strict  *)
(* total order of the products; hence products can be ranked in one way    *)
(* only, whatever order they came in.  Lexicographic is the disjunction    *)
(* over the keys, spelled out; the comparison and the documented order are *)
(* both shown to be it.  The products that come before one are more for    *)
(* each that is ranked later, so that every place is taken once.           *)
(*                                                                         *)
(* For searches of any number, of lists and pages of any size: what is     *)
(* about to be saved is ranked, and what was answered is stored; a walk in *)
(* pages of one size has returned as much, and the same products, as come  *)
(* before the page it asks for next.                                       *)
(***************************************************************************)
EXTENDS CatalogSearch, FiniteSetTheorems, SequenceTheorems, WellFoundedInduction, TLAPS

\* a before b in the lexicographic order of eight keys.
Lexicographic(a, b) ==
  \/ a[1] < b[1]
  \/ a[1] = b[1] /\ a[2] < b[2]
  \/ a[1] = b[1] /\ a[2] = b[2] /\ a[3] < b[3]
  \/ a[1] = b[1] /\ a[2] = b[2] /\ a[3] = b[3] /\ a[4] < b[4]
  \/ a[1] = b[1] /\ a[2] = b[2] /\ a[3] = b[3] /\ a[4] = b[4] /\ a[5] < b[5]
  \/ /\ a[1] = b[1] /\ a[2] = b[2] /\ a[3] = b[3] /\ a[4] = b[4] /\ a[5] = b[5]
     /\ a[6] < b[6]
  \/ /\ a[1] = b[1] /\ a[2] = b[2] /\ a[3] = b[3] /\ a[4] = b[4] /\ a[5] = b[5]
     /\ a[6] = b[6] /\ a[7] < b[7]
  \/ /\ a[1] = b[1] /\ a[2] = b[2] /\ a[3] = b[3] /\ a[4] = b[4] /\ a[5] = b[5]
     /\ a[6] = b[6] /\ a[7] = b[7] /\ a[8] < b[8]

LEMMA KeysAreIntegers ==
  ASSUME NEW p \in Products
  PROVE  /\ Keys(p)[1] = -p.relevanceBucket
         /\ Keys(p)[2] = (IF p.inStock THEN 0 ELSE 1)
         /\ Keys(p)[3] = p.totalAmountMinor
         /\ Keys(p)[4] = (IF p.deliveryEstimateDays = NoEstimate THEN 1 ELSE 0)
         /\ Keys(p)[5] = (IF p.deliveryEstimateDays = NoEstimate
                          THEN 0 ELSE p.deliveryEstimateDays)
         /\ Keys(p)[6] = -p.ratingConfidence
         /\ Keys(p)[7] = -p.freshnessEpochMs
         /\ Keys(p)[8] = p.id
         /\ \A k \in 1..8 : Keys(p)[k] \in Int
<1>1. /\ p.relevanceBucket \in Int /\ p.totalAmountMinor \in Int
      /\ p.ratingConfidence \in Int /\ p.freshnessEpochMs \in Int /\ p.id \in Int
      /\ p.deliveryEstimateDays \in Int \cup {NoEstimate} /\ p.inStock \in BOOLEAN
  BY DEF Products
<1>2. /\ Keys(p)[1] = -p.relevanceBucket
      /\ Keys(p)[2] = (IF p.inStock THEN 0 ELSE 1)
      /\ Keys(p)[3] = p.totalAmountMinor
      /\ Keys(p)[4] = (IF p.deliveryEstimateDays = NoEstimate THEN 1 ELSE 0)
      /\ Keys(p)[5] = (IF p.deliveryEstimateDays = NoEstimate
                       THEN 0 ELSE p.deliveryEstimateDays)
      /\ Keys(p)[6] = -p.ratingConfidence
      /\ Keys(p)[7] = -p.freshnessEpochMs
      /\ Keys(p)[8] = p.id
  BY DEF Keys
<1>3. \A k \in 1..8 : k \in {1, 2, 3, 4, 5, 6, 7, 8}
  OBVIOUS
<1>4. /\ Keys(p)[1] \in Int /\ Keys(p)[2] \in Int /\ Keys(p)[3] \in Int
      /\ Keys(p)[4] \in Int /\ Keys(p)[5] \in Int /\ Keys(p)[6] \in Int
      /\ Keys(p)[7] \in Int /\ Keys(p)[8] \in Int
  BY <1>1, <1>2
<1> QED  BY <1>2, <1>3, <1>4

\* The documented order, spelled out.
LEMMA BetterIsLexicographic ==
  ASSUME NEW p \in Products, NEW q \in Products
  PROVE  Better(p, q) <=> Lexicographic(Keys(p), Keys(q))
<1> DEFINE a == Keys(p)
           b == Keys(q)
           at(k) == a[k] < b[k] /\ \A j \in 1..k - 1 : a[j] = b[j]
<1> HIDE DEF a, b
<1>1. Better(p, q) <=> \E k \in 1..8 : at(k)
  BY DEF Better, a, b
<1>2. (\E k \in 1..8 : at(k)) <=>
        at(1) \/ at(2) \/ at(3) \/ at(4) \/ at(5) \/ at(6) \/ at(7) \/ at(8)
  <2> HIDE DEF at
  <2>1. 1..8 = {1, 2, 3, 4, 5, 6, 7, 8}
    OBVIOUS
  <2> QED  BY <2>1, Zenon
<1>3. /\ 1..0 = {} /\ 1..1 = {1} /\ 1..2 = {1, 2} /\ 1..3 = {1, 2, 3}
      /\ 1..4 = {1, 2, 3, 4} /\ 1..5 = {1, 2, 3, 4, 5}
      /\ 1..6 = {1, 2, 3, 4, 5, 6} /\ 1..7 = {1, 2, 3, 4, 5, 6, 7}
  OBVIOUS
<1>4. /\ 1 - 1 = 0 /\ 2 - 1 = 1 /\ 3 - 1 = 2 /\ 4 - 1 = 3 /\ 5 - 1 = 4 /\ 6 - 1 = 5
      /\ 7 - 1 = 6 /\ 8 - 1 = 7
  OBVIOUS
<1>5. (at(1) \/ at(2) \/ at(3) \/ at(4) \/ at(5) \/ at(6) \/ at(7) \/ at(8))
        <=> Lexicographic(a, b)
  BY <1>3, <1>4 DEF Lexicographic
<1> QED  BY <1>1, <1>2, <1>5 DEF a, b

\* A comparison by several keys: the first that is not zero decides.
LEMMA OrDecides ==
  ASSUME NEW x \in Int, NEW y \in Int
  PROVE  /\ Or(x, y) \in Int
         /\ Or(x, y) < 0 <=> x < 0 \/ (x = 0 /\ y < 0)
         /\ Or(x, y) = 0 <=> x = 0 /\ y = 0
BY DEF Or

\* What each comparison says of the keys.
LEMMA ComparisonsOfKeys ==
  ASSUME NEW p \in Products, NEW q \in Products
  PROVE  LET a == Keys(p)
             b == Keys(q)
             c1 == CompareNumberDesc(p.relevanceBucket, q.relevanceBucket)
             c2 == CompareBooleanDesc(p.inStock, q.inStock)
             c3 == CompareMoneyAsc(p.totalAmountMinor, q.totalAmountMinor)
             c4 == CompareNullableNumberAsc(p.deliveryEstimateDays, q.deliveryEstimateDays)
             c6 == CompareNumberDesc(p.ratingConfidence, q.ratingConfidence)
             c7 == CompareNumberDesc(p.freshnessEpochMs, q.freshnessEpochMs)
             c8 == p.id - q.id
         IN  /\ c1 \in Int /\ (c1 < 0 <=> a[1] < b[1]) /\ (c1 = 0 <=> a[1] = b[1])
             /\ c2 \in Int /\ (c2 < 0 <=> a[2] < b[2]) /\ (c2 = 0 <=> a[2] = b[2])
             /\ c3 \in Int /\ (c3 < 0 <=> a[3] < b[3]) /\ (c3 = 0 <=> a[3] = b[3])
             /\ c4 \in Int
             /\ c4 < 0 <=> a[4] < b[4] \/ (a[4] = b[4] /\ a[5] < b[5])
             /\ c4 = 0 <=> a[4] = b[4] /\ a[5] = b[5]
             /\ c6 \in Int /\ (c6 < 0 <=> a[6] < b[6]) /\ (c6 = 0 <=> a[6] = b[6])
             /\ c7 \in Int /\ (c7 < 0 <=> a[7] < b[7]) /\ (c7 = 0 <=> a[7] = b[7])
             /\ c8 \in Int /\ (c8 < 0 <=> a[8] < b[8]) /\ (c8 = 0 <=> a[8] = b[8])
<1> DEFINE a == Keys(p)
           b == Keys(q)
<1>1. /\ \A k \in 1..8 : a[k] \in Int
      /\ \A k \in 1..8 : b[k] \in Int
  BY KeysAreIntegers
<1>2. /\ p.relevanceBucket \in Int /\ q.relevanceBucket \in Int
      /\ p.inStock \in BOOLEAN /\ q.inStock \in BOOLEAN
      /\ p.totalAmountMinor \in Int /\ q.totalAmountMinor \in Int
      /\ p.deliveryEstimateDays \in Int \cup {NoEstimate}
      /\ q.deliveryEstimateDays \in Int \cup {NoEstimate}
      /\ p.ratingConfidence \in Int /\ q.ratingConfidence \in Int
      /\ p.freshnessEpochMs \in Int /\ q.freshnessEpochMs \in Int
      /\ p.id \in Int /\ q.id \in Int
  BY DEF Products
<1> DEFINE c1 == CompareNumberDesc(p.relevanceBucket, q.relevanceBucket)
           c2 == CompareBooleanDesc(p.inStock, q.inStock)
           c3 == CompareMoneyAsc(p.totalAmountMinor, q.totalAmountMinor)
           c4 == CompareNullableNumberAsc(p.deliveryEstimateDays, q.deliveryEstimateDays)
           c6 == CompareNumberDesc(p.ratingConfidence, q.ratingConfidence)
           c7 == CompareNumberDesc(p.freshnessEpochMs, q.freshnessEpochMs)
           c8 == p.id - q.id
<1>3. c1 \in Int /\ (c1 < 0 <=> a[1] < b[1]) /\ (c1 = 0 <=> a[1] = b[1])
  BY <1>2, KeysAreIntegers DEF CompareNumberDesc
<1>4. c2 \in Int /\ (c2 < 0 <=> a[2] < b[2]) /\ (c2 = 0 <=> a[2] = b[2])
  BY <1>2, KeysAreIntegers DEF CompareBooleanDesc, Number
<1>5. c3 \in Int /\ (c3 < 0 <=> a[3] < b[3]) /\ (c3 = 0 <=> a[3] = b[3])
  BY <1>2, KeysAreIntegers DEF CompareMoneyAsc
<1>6. /\ c4 \in Int
      /\ c4 < 0 <=> a[4] < b[4] \/ (a[4] = b[4] /\ a[5] < b[5])
      /\ c4 = 0 <=> a[4] = b[4] /\ a[5] = b[5]
  BY <1>2, KeysAreIntegers, RankingAssumption DEF CompareNullableNumberAsc
<1>7. c6 \in Int /\ (c6 < 0 <=> a[6] < b[6]) /\ (c6 = 0 <=> a[6] = b[6])
  BY <1>2, KeysAreIntegers DEF CompareNumberDesc
<1>8. c7 \in Int /\ (c7 < 0 <=> a[7] < b[7]) /\ (c7 = 0 <=> a[7] = b[7])
  BY <1>2, KeysAreIntegers DEF CompareNumberDesc
<1>9. c8 \in Int /\ (c8 < 0 <=> a[8] < b[8]) /\ (c8 = 0 <=> a[8] = b[8])
  BY <1>2, KeysAreIntegers
<1> HIDE DEF a, b, c1, c2, c3, c4, c6, c7, c8
<1> QED  BY <1>3, <1>4, <1>5, <1>6, <1>7, <1>8, <1>9 DEF a, b, c1, c2, c3, c4, c6, c7, c8

LEMMA BeforeIsLexicographic ==
  ASSUME NEW p \in Products, NEW q \in Products
  PROVE  Before(p, q) <=> Lexicographic(Keys(p), Keys(q))
<1> DEFINE a == Keys(p)
           b == Keys(q)
           c1 == CompareNumberDesc(p.relevanceBucket, q.relevanceBucket)
           c2 == CompareBooleanDesc(p.inStock, q.inStock)
           c3 == CompareMoneyAsc(p.totalAmountMinor, q.totalAmountMinor)
           c4 == CompareNullableNumberAsc(p.deliveryEstimateDays, q.deliveryEstimateDays)
           c6 == CompareNumberDesc(p.ratingConfidence, q.ratingConfidence)
           c7 == CompareNumberDesc(p.freshnessEpochMs, q.freshnessEpochMs)
           c8 == p.id - q.id
           d7 == Or(c7, c8)
           d6 == Or(c6, d7)
           d4 == Or(c4, d6)
           d3 == Or(c3, d4)
           d2 == Or(c2, d3)
           d1 == Or(c1, d2)
<1>1. Before(p, q) <=> d1 < 0
  BY DEF Before, CompareProduct
<1>2. /\ c1 \in Int /\ (c1 < 0 <=> a[1] < b[1]) /\ (c1 = 0 <=> a[1] = b[1])
      /\ c2 \in Int /\ (c2 < 0 <=> a[2] < b[2]) /\ (c2 = 0 <=> a[2] = b[2])
      /\ c3 \in Int /\ (c3 < 0 <=> a[3] < b[3]) /\ (c3 = 0 <=> a[3] = b[3])
      /\ c4 \in Int
      /\ c4 < 0 <=> a[4] < b[4] \/ (a[4] = b[4] /\ a[5] < b[5])
      /\ c4 = 0 <=> a[4] = b[4] /\ a[5] = b[5]
      /\ c6 \in Int /\ (c6 < 0 <=> a[6] < b[6]) /\ (c6 = 0 <=> a[6] = b[6])
      /\ c7 \in Int /\ (c7 < 0 <=> a[7] < b[7]) /\ (c7 = 0 <=> a[7] = b[7])
      /\ c8 \in Int /\ (c8 < 0 <=> a[8] < b[8]) /\ (c8 = 0 <=> a[8] = b[8])
  BY ComparisonsOfKeys
<1> HIDE DEF a, b, c1, c2, c3, c4, c6, c7, c8
<1>3. d7 \in Int /\ (d7 < 0 <=> c7 < 0 \/ (c7 = 0 /\ c8 < 0))
  BY <1>2, OrDecides
<1> HIDE DEF d7
<1>4. d6 \in Int /\ (d6 < 0 <=> c6 < 0 \/ (c6 = 0 /\ d7 < 0))
  BY <1>2, <1>3, OrDecides
<1> HIDE DEF d6
<1>5. d4 \in Int /\ (d4 < 0 <=> c4 < 0 \/ (c4 = 0 /\ d6 < 0))
  BY <1>2, <1>4, OrDecides
<1> HIDE DEF d4
<1>6. d3 \in Int /\ (d3 < 0 <=> c3 < 0 \/ (c3 = 0 /\ d4 < 0))
  BY <1>2, <1>5, OrDecides
<1> HIDE DEF d3
<1>7. d2 \in Int /\ (d2 < 0 <=> c2 < 0 \/ (c2 = 0 /\ d3 < 0))
  BY <1>2, <1>6, OrDecides
<1> HIDE DEF d2
<1>8. d1 < 0 <=> c1 < 0 \/ (c1 = 0 /\ d2 < 0)
  BY <1>2, <1>7, OrDecides
<1>9. d1 < 0 <=> Lexicographic(a, b)
  BY <1>2, <1>3, <1>4, <1>5, <1>6, <1>7, <1>8 DEF Lexicographic
<1> QED  BY <1>1, <1>9 DEF a, b

\* The comparison ranks products as documented: relevance, stock, total price,
\* delivery, confidence, freshness, id.
THEOREM RankedAsDocumented ==
  \A p, q \in Products : Before(p, q) <=> Better(p, q)
BY BeforeIsLexicographic, BetterIsLexicographic

-----------------------------------------------------------------------------
\* Products of equal keys are equal.
LEMMA KeysIdentify ==
  ASSUME NEW p \in Products, NEW q \in Products,
         \A k \in 1..8 : Keys(p)[k] = Keys(q)[k]
  PROVE  p = q
<1>1. /\ p.relevanceBucket \in Int /\ q.relevanceBucket \in Int
      /\ p.inStock \in BOOLEAN /\ q.inStock \in BOOLEAN
      /\ p.deliveryEstimateDays \in Int \cup {NoEstimate}
      /\ q.deliveryEstimateDays \in Int \cup {NoEstimate}
      /\ p.ratingConfidence \in Int /\ q.ratingConfidence \in Int
      /\ p.freshnessEpochMs \in Int /\ q.freshnessEpochMs \in Int
  BY DEF Products
<1>2. p.relevanceBucket = q.relevanceBucket
  BY <1>1, KeysAreIntegers
<1>3. p.inStock = q.inStock
  BY <1>1, KeysAreIntegers
<1>4. p.totalAmountMinor = q.totalAmountMinor
  BY KeysAreIntegers
<1>5. p.deliveryEstimateDays = q.deliveryEstimateDays
  BY <1>1, KeysAreIntegers
<1>6. p.ratingConfidence = q.ratingConfidence
  BY <1>1, KeysAreIntegers
<1>7. p.freshnessEpochMs = q.freshnessEpochMs
  BY <1>1, KeysAreIntegers
<1>8. p.id = q.id
  BY KeysAreIntegers
<1> QED  BY <1>2, <1>3, <1>4, <1>5, <1>6, <1>7, <1>8 DEF Products

\* The comparison is a strict total order: sort() gets a consistent answer, and
\* no two products tie.
THEOREM RankingIsTotalOrder ==
  /\ \A p \in Products : ~Before(p, p)
  /\ \A p, q, r \in Products : Before(p, q) /\ Before(q, r) => Before(p, r)
  /\ \A p, q \in Products : p = q \/ Before(p, q) \/ Before(q, p)
<1>1. ASSUME NEW p \in Products PROVE ~Before(p, p)
  BY BeforeIsLexicographic, KeysAreIntegers DEF Lexicographic
<1>2. ASSUME NEW p \in Products, NEW q \in Products, NEW r \in Products,
             Before(p, q), Before(q, r)
      PROVE  Before(p, r)
  <2> DEFINE a == Keys(p)
             b == Keys(q)
             c == Keys(r)
  <2>1. /\ \A k \in 1..8 : a[k] \in Int
        /\ \A k \in 1..8 : b[k] \in Int
        /\ \A k \in 1..8 : c[k] \in Int
    BY KeysAreIntegers
  <2>2. Lexicographic(a, b) /\ Lexicographic(b, c)
    BY <1>2, BeforeIsLexicographic
  <2> HIDE DEF a, b, c
  <2>3. Lexicographic(a, c)
    BY <2>1, <2>2 DEF Lexicographic
  <2> QED  BY <2>3, BeforeIsLexicographic DEF a, c
<1>3. ASSUME NEW p \in Products, NEW q \in Products, p # q, ~Before(p, q)
      PROVE  Before(q, p)
  <2> DEFINE a == Keys(p)
             b == Keys(q)
  <2>1. /\ \A k \in 1..8 : a[k] \in Int
        /\ \A k \in 1..8 : b[k] \in Int
    BY KeysAreIntegers
  <2>2. ~Lexicographic(a, b)
    BY <1>3, BeforeIsLexicographic
  <2>3. PICK k \in 1..8 : a[k] # b[k]
    BY <1>3, KeysIdentify
  <2> HIDE DEF a, b
  <2>4. k \in {1, 2, 3, 4, 5, 6, 7, 8}
    OBVIOUS
  <2>5. Lexicographic(b, a)
    BY <2>1, <2>2, <2>3, <2>4 DEF Lexicographic
  <2> QED  BY <2>5, BeforeIsLexicographic DEF a, b
<1> QED  BY <1>1, <1>2, <1>3

-----------------------------------------------------------------------------
\* s lists products in the order of the comparison.
IsRanked(s) ==
  /\ s \in Seq(Products)
  /\ \A i, j \in 1..Len(s) : i < j => Before(s[i], s[j])

\* A ranked sequence that agrees with another up to i, and is as long, is
\* followed there by a product the other has at i or later.
LEMMA NextIsLater ==
  ASSUME NEW s, NEW t, IsRanked(s), IsRanked(t),
         \A p \in Products : (\E k \in 1..Len(s) : s[k] = p)
                               => \E k \in 1..Len(t) : t[k] = p,
         NEW i \in 1..Len(s),
         \A k \in 1..Len(s) : k < i => k \in 1..Len(t) /\ s[k] = t[k]
  PROVE  \E j \in 1..Len(t) : i <= j /\ t[j] = s[i]
<1>1. s[i] \in Products /\ Len(s) \in Nat /\ Len(t) \in Nat
  BY DEF IsRanked
<1>2. PICK j \in 1..Len(t) : t[j] = s[i]
  BY <1>1
<1>3. ASSUME j < i PROVE FALSE
  <2>1. j \in 1..Len(s) /\ s[j] = s[i]
    BY <1>1, <1>2, <1>3
  <2>2. Before(s[j], s[i])
    BY <1>3, <2>1 DEF IsRanked
  <2> QED  BY <1>1, <2>1, <2>2, RankingIsTotalOrder
<1> QED  BY <1>1, <1>2, <1>3

\* Two ranked sequences of the same products are one: the least place where they
\* differed would hold two products, each before the other.
LEMMA RankedAlike ==
  ASSUME NEW s, NEW t, IsRanked(s), IsRanked(t),
         \A p \in Products : (\E k \in 1..Len(s) : s[k] = p)
                               <=> \E k \in 1..Len(t) : t[k] = p
  PROVE  \A i \in 1..Len(s) : i \in 1..Len(t) /\ s[i] = t[i]
<1> DEFINE D == {i \in 1..Len(s) : ~(i \in 1..Len(t) /\ s[i] = t[i])}
<1>1. SUFFICES ASSUME D # {} PROVE FALSE
  OBVIOUS
<1>2. s \in Seq(Products) /\ t \in Seq(Products) /\ Len(s) \in Nat /\ Len(t) \in Nat
  BY DEF IsRanked
<1>3. D \in SUBSET Nat
  BY <1>2
<1>4. \E i \in D : \A k \in D : ~ (<<k, i>> \in OpToRel(<, Nat))
  BY <1>1, <1>3, NatLessThanWellFounded, WFMin
<1>5. PICK i \in D : \A k \in D : ~ (<<k, i>> \in OpToRel(<, Nat))
  BY <1>4
<1>6. ASSUME NEW k \in 1..Len(s), k < i PROVE k \in 1..Len(t) /\ s[k] = t[k]
  <2>1. k \in Nat /\ i \in Nat
    BY <1>2
  <2>2. <<k, i>> \in {ss \in Nat \X Nat : ss[1] < ss[2]}
    BY <1>6, <2>1
  <2>3. k \notin D
    BY <1>5, <2>2, Zenon DEF OpToRel
  <2> QED  BY <2>3
<1>7. i \in 1..Len(s)
  OBVIOUS
<1>8. PICK j \in 1..Len(t) : i <= j /\ t[j] = s[i]
  BY <1>6, <1>7, NextIsLater
<1>9. i \in 1..Len(t) /\ s[i] # t[i]
  BY <1>2, <1>7, <1>8
<1>10. \A k \in 1..Len(t) : k < i => k \in 1..Len(s) /\ t[k] = s[k]
  BY <1>2, <1>6, <1>7
<1>11. PICK l \in 1..Len(s) : i <= l /\ s[l] = t[i]
  BY <1>9, <1>10, NextIsLater
<1>12. i < j /\ i < l
  BY <1>2, <1>7, <1>8, <1>9, <1>11
<1>13. Before(t[i], t[j]) /\ Before(s[i], s[l])
  BY <1>7, <1>9, <1>12 DEF IsRanked
<1>14. s[i] \in Products /\ t[i] \in Products
  BY <1>2, <1>7, <1>9
<1> QED  BY <1>8, <1>11, <1>13, <1>14, RankingIsTotalOrder

\* Products can be ranked in one way only: the page of a search does not depend
\* on the order the shops' answers came in.
THEOREM RankingIsUnique ==
  ASSUME NEW s, NEW t, IsRanked(s), IsRanked(t),
         \A p \in Products : (\E k \in 1..Len(s) : s[k] = p)
                               <=> \E k \in 1..Len(t) : t[k] = p
  PROVE  s = t
<1>1. s \in Seq(Products) /\ t \in Seq(Products) /\ Len(s) \in Nat /\ Len(t) \in Nat
  BY DEF IsRanked
<1>2. /\ \A i \in 1..Len(s) : i \in 1..Len(t) /\ s[i] = t[i]
      /\ \A i \in 1..Len(t) : i \in 1..Len(s) /\ t[i] = s[i]
  BY RankedAlike
<1>3. Len(s) = Len(t)
  <2>1. Len(s) > 0 => Len(s) \in 1..Len(s)
    BY <1>1
  <2>2. Len(t) > 0 => Len(t) \in 1..Len(t)
    BY <1>1
  <2> QED  BY <1>1, <1>2, <2>1, <2>2
<1> QED  BY <1>1, <1>2, <1>3

-----------------------------------------------------------------------------
\* Where sort() puts places is a strict total order of them.
LEMMA PrecedesIsOrder ==
  ASSUME NEW products, NEW places \in SUBSET Int,
         \A i \in places : products[i] \in Products
  PROVE  /\ \A i \in places : ~Precedes(products, i, i)
         /\ \A i, j, k \in places :
              Precedes(products, i, j) /\ Precedes(products, j, k)
                => Precedes(products, i, k)
         /\ \A i, j \in places :
              i = j \/ Precedes(products, i, j) \/ Precedes(products, j, i)
<1>1. ASSUME NEW i \in places, NEW j \in places
      PROVE  /\ Precedes(products, i, j) <=>
                  \/ Before(products[i], products[j])
                  \/ products[i] = products[j] /\ i < j
             /\ Before(products[i], products[j]) \/ products[i] = products[j]
                  \/ Before(products[j], products[i])
             /\ ~(Before(products[i], products[j]) /\ Before(products[j], products[i]))
             /\ ~Before(products[i], products[i])
  <2>1. products[i] \in Products /\ products[j] \in Products /\ i \in Int /\ j \in Int
    OBVIOUS
  <2> DEFINE p == products[i]
             q == products[j]
  <2> HIDE DEF p, q
  <2>2. /\ p = q \/ Before(p, q) \/ Before(q, p)
        /\ ~(Before(p, q) /\ Before(q, p)) /\ ~Before(p, p) /\ ~Before(q, q)
    <3>1. p \in Products /\ q \in Products
      BY <2>1 DEF p, q
    <3> QED  BY <3>1, RankingIsTotalOrder, Zenon
  <2>3. CASE i < j
    <3>1. Precedes(products, i, j) <=> ~Before(q, p)
      BY <2>3 DEF Precedes, p, q
    <3>2. ~Before(q, p) <=> Before(p, q) \/ p = q
      BY <2>2
    <3> QED  BY <2>2, <2>3, <3>1, <3>2 DEF p, q
  <2>4. CASE ~(i < j)
    <3>1. Precedes(products, i, j) <=> Before(p, q)
      BY <2>4 DEF Precedes, p, q
    <3> QED  BY <2>2, <2>4, <3>1 DEF p, q
  <2> QED  BY <2>3, <2>4
<1>2. ASSUME NEW i \in places PROVE ~Precedes(products, i, i)
  <2>1. i \in Int
    OBVIOUS
  <2> QED  BY <1>1, <2>1
<1>3. ASSUME NEW i \in places, NEW j \in places, NEW k \in places,
             Precedes(products, i, j), Precedes(products, j, k)
      PROVE  Precedes(products, i, k)
  <2>1. i \in Int /\ j \in Int /\ k \in Int
    OBVIOUS
  <2>2. /\ Before(products[i], products[j]) \/ (products[i] = products[j] /\ i < j)
        /\ Before(products[j], products[k]) \/ (products[j] = products[k] /\ j < k)
    <3>1. Before(products[i], products[j]) \/ (products[i] = products[j] /\ i < j)
      BY <1>1, <1>3, Zenon
    <3>2. Before(products[j], products[k]) \/ (products[j] = products[k] /\ j < k)
      BY <1>1, <1>3, Zenon
    <3> QED  BY <3>1, <3>2
  <2>3. Before(products[i], products[j]) /\ Before(products[j], products[k])
          => Before(products[i], products[k])
    BY RankingIsTotalOrder
  <2>4. Before(products[i], products[k]) \/ (products[i] = products[k] /\ i < k)
    BY <2>1, <2>2, <2>3
  <2> QED  BY <1>1, <2>4
<1>4. ASSUME NEW i \in places, NEW j \in places
      PROVE  i = j \/ Precedes(products, i, j) \/ Precedes(products, j, i)
  <2>1. i \in Int /\ j \in Int /\ (i < j \/ i = j \/ j < i)
    OBVIOUS
  <2>2. Before(products[i], products[j]) \/ products[i] = products[j]
          \/ Before(products[j], products[i])
    BY <1>1
  <2> QED  BY <1>1, <2>1, <2>2
<1> QED  BY <1>2, <1>3, <1>4

\* Every place is ranked once, in the order of sort(): no two are preceded by
\* equally many, so each number of predecessors there could be is that of one.
LEMMA RankingFacts ==
  ASSUME NEW products, NEW places \in SUBSET Int, IsFiniteSet(places),
         \A i \in places : products[i] \in Products
  PROVE  /\ Cardinality(places) \in Nat
         /\ Ranking(products, places) \in [1..Cardinality(places) -> places]
         /\ \A i \in places : \E k \in 1..Cardinality(places) :
              Ranking(products, places)[k] = i
         /\ \A k, l \in 1..Cardinality(places) :
              k < l => Precedes(products, Ranking(products, places)[k],
                                Ranking(products, places)[l])
<1> DEFINE r == Ranking(products, places)
           n == Cardinality(places)
           Pred(i) == {j \in places : Precedes(products, j, i)}
           f == [i \in places |-> Cardinality(Pred(i)) + 1]
<1>1. n \in Nat
  BY FS_CardinalityType
<1>2. \A i \in places :
        /\ Pred(i) \in SUBSET (places \ {i})
        /\ \A j \in places : j \in Pred(i) <=> Precedes(products, j, i)
  BY PrecedesIsOrder
<1>3. r = [k \in 1..n |-> CHOOSE i \in places : Cardinality(Pred(i)) = k - 1]
  BY DEF Ranking
<1> HIDE DEF Pred, n
<1>4. ASSUME NEW i \in places
      PROVE  /\ IsFiniteSet(Pred(i)) /\ Cardinality(Pred(i)) \in 0..n - 1
  <2>1. IsFiniteSet(places \ {i}) /\ Cardinality(places \ {i}) = n - 1
    BY FS_RemoveElement DEF n
  <2>2. IsFiniteSet(Pred(i)) /\ Cardinality(Pred(i)) <= Cardinality(places \ {i})
    BY <1>2, <2>1, FS_Subset
  <2>3. Cardinality(Pred(i)) \in Nat
    BY <2>2, FS_CardinalityType
  <2> QED  BY <1>1, <2>1, <2>2, <2>3
<1>5. ASSUME NEW i \in places, NEW j \in places, Precedes(products, i, j)
      PROVE  Cardinality(Pred(i)) < Cardinality(Pred(j))
  <2>1. Pred(i) \in SUBSET Pred(j)
    <3> SUFFICES ASSUME NEW k \in Pred(i) PROVE k \in Pred(j)
      OBVIOUS
    <3>1. k \in places /\ Precedes(products, k, i)
      BY <1>2
    <3>2. Precedes(products, k, j)
      BY <1>5, <3>1, PrecedesIsOrder
    <3> QED  BY <1>2, <3>1, <3>2
  <2>2. i \in Pred(j) /\ i \notin Pred(i)
    BY <1>2, <1>5
  <2>3. IsFiniteSet(Pred(j))
    BY <1>4
  <2>4. /\ Cardinality(Pred(i)) <= Cardinality(Pred(j))
        /\ Cardinality(Pred(i)) = Cardinality(Pred(j)) => Pred(i) = Pred(j)
    BY <2>1, <2>3, FS_Subset
  <2>5. Cardinality(Pred(i)) \in Int /\ Cardinality(Pred(j)) \in Int
    BY <1>1, <1>4
  <2> QED  BY <2>2, <2>4, <2>5
<1>6. ASSUME NEW i \in places, NEW j \in places, Cardinality(Pred(i)) = Cardinality(Pred(j))
      PROVE  i = j
  <2>1. Cardinality(Pred(i)) \in Int /\ Cardinality(Pred(j)) \in Int
    BY <1>1, <1>4
  <2>2. ~Precedes(products, i, j) /\ ~Precedes(products, j, i)
    BY <1>5, <1>6, <2>1
  <2> QED  BY <2>2, PrecedesIsOrder
<1>7. f \in Surjection(places, 1..n)
  <2>1. f \in [places -> 1..n]
    <3>1. \A i \in places : Cardinality(Pred(i)) + 1 \in 1..n
      BY <1>1, <1>4
    <3> QED  BY <3>1
  <2>2. \A i, j \in places : f[i] = f[j] => i = j
    <3> SUFFICES ASSUME NEW i \in places, NEW j \in places, f[i] = f[j] PROVE i = j
      OBVIOUS
    <3>1. Cardinality(Pred(i)) \in Int /\ Cardinality(Pred(j)) \in Int
      BY <1>1, <1>4
    <3>2. Cardinality(Pred(i)) + 1 = Cardinality(Pred(j)) + 1
      OBVIOUS
    <3> QED  BY <1>6, <3>1, <3>2
  <2>3. f \in Injection(places, 1..n)
    BY <2>1, <2>2 DEF Injection, IsInjective
  <2>4. IsFiniteSet(1..n) /\ Cardinality(1..n) = n
    BY <1>1, FS_Interval
  <2> QED  BY <2>3, <2>4, FS_Injection DEF n
<1>8. ASSUME NEW k \in 1..n
      PROVE  r[k] \in places /\ Cardinality(Pred(r[k])) = k - 1
  <2>1. PICK i \in places : f[i] = k
    BY <1>7 DEF Surjection
  <2>2. Cardinality(Pred(i)) \in Int
    BY <1>1, <1>4
  <2>3. Cardinality(Pred(i)) = k - 1
    BY <1>1, <2>1, <2>2
  <2>4. r[k] = CHOOSE j \in places : Cardinality(Pred(j)) = k - 1
    BY <1>3
  <2> HIDE DEF r
  <2> QED  BY <2>3, <2>4
<1>9. r \in [1..n -> places]
  BY <1>3, <1>8
<1> HIDE DEF r, f
<1>10. ASSUME NEW i \in places PROVE \E k \in 1..n : r[k] = i
  <2>1. Cardinality(Pred(i)) + 1 \in 1..n /\ Cardinality(Pred(i)) \in Int
    BY <1>1, <1>4
  <2> DEFINE k == Cardinality(Pred(i)) + 1
  <2>2. r[k] \in places /\ Cardinality(Pred(r[k])) = k - 1
    BY <1>8, <2>1
  <2>3. Cardinality(Pred(r[k])) = Cardinality(Pred(i))
    BY <2>1, <2>2
  <2>4. r[k] = i
    BY <1>6, <2>2, <2>3
  <2> QED  BY <2>1, <2>4
<1>11. ASSUME NEW k \in 1..n, NEW l \in 1..n, k < l
       PROVE  Precedes(products, r[k], r[l])
  <2>1. /\ r[k] \in places /\ Cardinality(Pred(r[k])) = k - 1
        /\ r[l] \in places /\ Cardinality(Pred(r[l])) = l - 1
    BY <1>8
  <2>2. k \in Int /\ l \in Int
    BY <1>1
  <2>3. ~Precedes(products, r[l], r[k]) /\ r[k] # r[l]
    <3>1. ASSUME Precedes(products, r[l], r[k]) PROVE FALSE
      <4>1. l - 1 < k - 1
        BY <1>5, <2>1, <3>1
      <4> QED  BY <1>11, <2>2, <4>1
    <3>2. r[k] # r[l]
      BY <1>11, <2>1, <2>2
    <3> QED  BY <3>1, <3>2
  <2> QED  BY <2>1, <2>3, PrecedesIsOrder
<1> QED  BY <1>1, <1>9, <1>10, <1>11 DEF r, n
-----------------------------------------------------------------------------
\* What a search is about to save is ranked; only tools ask for the stock.
Held ==
  /\ ~input[Viewer].located
  /\ \A s \in Searches :
       /\ phase[s] = "saving" =>
            \A i, j \in DOMAIN items[s] :
              i < j => ~Before(items[s][j].product, items[s][i].product)
       /\ phase[s] = "inventory" => s # Viewer
       /\ phase[s] \in {"idle", "fetching"} => items[s] = <<>>

\* What was answered was ranked, and is stored.
Answered ==
  /\ AnswersAreStored
  /\ \A i, j \in DOMAIN answer : i < j => ~Before(answer[j].product, answer[i].product)

\* How many products of the list come before a page.
Base(page, first) == (page - 1) * first

\* The products from..to of a list, and those a search holds.
Listed(list, from, to) == {list[k] : k \in from..to}
IdsOf(held) == {Id(held[i]) : i \in DOMAIN held}

\* What is known of a walk in pages of one size.
Walked ==
  ~uneven =>
    /\ walk.first = 0 => walk.page = 1 /\ got = <<>> /\ phase[Viewer] = "idle"
    /\ walk.page # 0 =>
         /\ Base(walk.page, walk.first) <= Len(upstream)
         /\ Len(got) = Base(walk.page, walk.first)
         /\ ToSet(got) = Listed(upstream, 1, Base(walk.page, walk.first))
    /\ walk.page = 0 =>
         /\ Len(got) = Len(upstream) /\ ToSet(got) = ToSet(upstream)
         /\ phase[Viewer] = "idle"
    /\ phase[Viewer] # "idle" => input[Viewer] = Plain(walk.page, walk.first)
    /\ phase[Viewer] = "saving" =>
         LET n == Base(walk.page, walk.first)
             to == Lesser(n + walk.first, Len(upstream))
         IN /\ Len(items[Viewer]) = to - n
            /\ IdsOf(items[Viewer]) = Listed(upstream, n + 1, to)
            /\ more[Viewer] <=> Len(items[Viewer]) = walk.first

Inv == TypeOK /\ Held /\ Answered /\ Walked

-----------------------------------------------------------------------------
LEMMA BaseFacts ==
  ASSUME NEW page \in Nat \ {0}, NEW first \in Nat
  PROVE  /\ Base(page, first) \in Nat /\ Base(1, first) = 0
         /\ page * first = Base(page, first) + first
         /\ Base(page + 1, first) = Base(page, first) + first
<1>1. Base(1, first) = 0
  BY DEF Base
<1>2. page * first = (page - 1) * first + first
  OBVIOUS
<1>3. (page + 1 - 1) * first = page * first
  OBVIOUS
<1>4. (page - 1) * first \in Nat
  <2> DEFINE k == page - 1
  <2>1. k \in Nat
    OBVIOUS
  <2> HIDE DEF k
  <2>2. k * first \in Nat
    BY <2>1
  <2> QED  BY <2>2 DEF k
<1> QED  BY <1>1, <1>2, <1>3, <1>4 DEF Base

\* A part of a sequence.
LEMMA SliceFacts ==
  ASSUME NEW S, NEW seq \in Seq(S), NEW from \in Nat \ {0}, NEW to \in Nat
  PROVE  /\ Slice(seq, from, to) \in Seq(S)
         /\ Len(Slice(seq, from, to)) =
              IF from <= Lesser(to, Len(seq)) THEN Lesser(to, Len(seq)) - from + 1 ELSE 0
         /\ \A i \in 1..Lesser(to, Len(seq)) - from + 1 :
              Slice(seq, from, to)[i] = seq[from + i - 1]
<1> DEFINE n == Lesser(to, Len(seq))
<1>1. n \in Nat /\ n <= Len(seq) /\ Len(seq) \in Nat
  BY DEF Lesser
<1> HIDE DEF n
<1>2. \A i \in from..n : seq[i] \in S
  BY <1>1
<1>3. /\ SubSeq(seq, from, n) \in Seq(S)
      /\ Len(SubSeq(seq, from, n)) = IF from <= n THEN n - from + 1 ELSE 0
      /\ \A i \in 1..n - from + 1 : SubSeq(seq, from, n)[i] = seq[from + i - 1]
  BY <1>1, <1>2, SubSeqProperties
<1> QED  BY <1>3 DEF Slice, n

\* What is ranked is what was there, each once, in the order of the comparison.
LEMMA RankFacts ==
  ASSUME NEW held \in Seq(Found), NEW places \in SUBSET (1..Len(held))
  PROVE  LET n == Cardinality(places)
             ranked == Rank(held, places)
         IN /\ n \in 0..Len(held) /\ ranked \in Seq(Found) /\ Len(ranked) = n
            /\ \A k \in 1..n : \E i \in places : ranked[k] = held[i]
            /\ \A i \in places : \E k \in 1..n : ranked[k] = held[i]
            /\ \A k, l \in 1..n :
                 k < l => ~Before(ranked[l].product, ranked[k].product)
<1> DEFINE n == Cardinality(places)
           products == [i \in DOMAIN held |-> held[i].product]
           r == Ranking(products, places)
           ranked == Rank(held, places)
<1>1. Len(held) \in Nat /\ DOMAIN held = 1..Len(held)
  OBVIOUS
<1>2. IsFiniteSet(places) /\ n \in 0..Len(held)
  <2>1. ASSUME NEW m \in Nat PROVE IsFiniteSet(1..m) /\ Cardinality(1..m) = m
    BY FS_Interval
  <2>2. IsFiniteSet(places) /\ n <= Len(held)
    <3>1. IsFiniteSet(1..Len(held)) /\ Cardinality(1..Len(held)) = Len(held)
      BY <1>1, <2>1
    <3> QED  BY <3>1, FS_Subset
  <2> QED  BY <1>1, <2>2, FS_CardinalityType
<1>3. \A i \in places : products[i] = held[i].product /\ products[i] \in Products
                        /\ held[i] \in Found
  <2> SUFFICES ASSUME NEW i \in places
               PROVE  products[i] = held[i].product /\ products[i] \in Products
                      /\ held[i] \in Found
    OBVIOUS
  <2>1. i \in 1..Len(held) /\ held[i] \in Found
    OBVIOUS
  <2>2. held[i].product \in Products
    BY <2>1 DEF Found
  <2> QED  BY <1>1, <2>1, <2>2
<1>4. places \in SUBSET Int
  BY <1>1
<1> HIDE DEF products
<1>5. /\ r \in [1..n -> places]
      /\ \A i \in places : \E k \in 1..n : r[k] = i
      /\ \A k, l \in 1..n : k < l => Precedes(products, r[k], r[l])
  <2>1. IsFiniteSet(places) /\ \A i \in places : products[i] \in Products
    BY <1>2, <1>3
  <2> HIDE DEF n, r
  <2>2. /\ Ranking(products, places) \in [1..Cardinality(places) -> places]
        /\ \A i \in places : \E k \in 1..Cardinality(places) :
             Ranking(products, places)[k] = i
        /\ \A k, l \in 1..Cardinality(places) :
             k < l => Precedes(products, Ranking(products, places)[k],
                               Ranking(products, places)[l])
    BY <1>4, <2>1, RankingFacts, Zenon
  <2> QED  BY <2>2 DEF n, r
<1>6. ranked = [k \in DOMAIN r |-> held[r[k]]]
  BY DEF Rank, products
<1> HIDE DEF r, n, ranked
<1>7. DOMAIN r = 1..n /\ \A k \in 1..n : r[k] \in places
  BY <1>5
<1>8. /\ DOMAIN ranked = 1..n
      /\ \A k \in 1..n : ranked[k] = held[r[k]] /\ ranked[k] \in Found
  BY <1>3, <1>6, <1>7
<1>9. ranked \in [1..n -> Found]
  <2>1. ranked = [k \in 1..n |-> ranked[k]]
    BY <1>6, <1>7, <1>8
  <2> QED  BY <1>8, <2>1
<1>10. ranked \in Seq(Found) /\ Len(ranked) = n
  <2>1. n \in Nat
    BY <1>2
  <2> QED  BY <1>9, <2>1
<1>11. ASSUME NEW k \in 1..n, NEW l \in 1..n, k < l
       PROVE  ~Before(ranked[l].product, ranked[k].product)
  <2> DEFINE a == r[k]
             b == r[l]
  <2>1. /\ a \in places /\ b \in places /\ Precedes(products, a, b)
        /\ ranked[k].product = products[a] /\ ranked[l].product = products[b]
        /\ products[a] \in Products /\ products[b] \in Products
    BY <1>3, <1>5, <1>7, <1>8, <1>11
  <2> HIDE DEF a, b
  <2>2. Before(products[a], products[b]) => ~Before(products[b], products[a])
    BY <2>1, RankingIsTotalOrder
  <2>3. CASE a < b
    BY <2>1, <2>3 DEF Precedes
  <2>4. CASE ~(a < b)
    BY <2>1, <2>2, <2>4 DEF Precedes
  <2> QED  BY <2>3, <2>4
<1>12. \A i \in places : \E k \in 1..n : ranked[k] = held[i]
  BY <1>5, <1>8
<1> QED  BY <1>2, <1>7, <1>8, <1>10, <1>11, <1>12 DEF n, ranked

\* A page the shop answers has the products of the list there.
LEMMA PageFacts ==
  ASSUME TypeOK, NEW in \in Inputs, NEW raw \in Pages(in)
  PROVE  LET base == Base(in.page, FetchSize(in))
             to == Lesser(base + FetchSize(in), Len(upstream))
         IN /\ raw \in Seq(Found)
            /\ base \in Nat /\ to \in Nat /\ to <= Len(upstream)
            /\ Len(raw) = IF base < to THEN to - base ELSE 0
            /\ \A i \in 1..Len(raw) : base + i \in DOMAIN upstream /\ Id(raw[i]) = upstream[base + i]
<1> DEFINE size == FetchSize(in)
           base == Base(in.page, size)
           to == Lesser(base + size, Len(upstream))
           listed == Slice(upstream, base + 1, base + size)
<1>1. in.page \in Nat \ {0} /\ size \in Nat \ {0}
  BY CatalogAssumption DEF Inputs, FetchSize
<1>2. upstream \in Seq(Ids) /\ price \in [Ids -> Nat] /\ Ids \subseteq Int
  BY CatalogAssumption DEF TypeOK
<1>3. base \in Nat /\ in.page * size = base + size /\ (in.page - 1) * size = base
  BY <1>1, BaseFacts DEF Base
<1>4. Len(upstream) \in Nat /\ to \in Nat /\ to <= Len(upstream)
      /\ DOMAIN upstream = 1..Len(upstream)
  BY <1>1, <1>2, <1>3 DEF Lesser
<1>5. /\ listed \in Seq(Ids)
      /\ Len(listed) = IF base < to THEN to - base ELSE 0
      /\ \A i \in 1..Len(listed) : listed[i] = upstream[base + i]
  <2> HIDE DEF base, size
  <2>1. base + 1 \in Nat \ {0} /\ base + size \in Nat
    BY <1>1, <1>3
  <2>2. /\ listed \in Seq(Ids)
        /\ Len(listed) = IF base + 1 <= to THEN to - (base + 1) + 1 ELSE 0
        /\ \A i \in 1..to - (base + 1) + 1 : listed[i] = upstream[base + 1 + i - 1]
    BY <1>2, <2>1, SliceFacts, ZenonT(40)
  <2> HIDE DEF listed, to
  <2>3. Len(listed) = IF base < to THEN to - base ELSE 0
    BY <1>3, <1>4, <2>2
  <2>4. ASSUME NEW i \in 1..Len(listed) PROVE listed[i] = upstream[base + i]
    <3>1. base < to /\ i \in 1..to - base
      BY <1>3, <1>4, <2>3
    <3>2. i \in 1..to - (base + 1) + 1 /\ base + 1 + i - 1 = base + i
      BY <1>3, <1>4, <3>1
    <3> QED  BY <2>2, <3>2
  <2> QED  BY <2>2, <2>3, <2>4
<1>6. PICK inStock \in [Ids -> BOOLEAN] :
        raw = [i \in DOMAIN listed |-> [product |-> Product(listed[i], inStock[listed[i]]),
                                        status |-> "none"]]
  BY <1>3 DEF Pages
<1> HIDE DEF listed, base, to, size
<1>7. DOMAIN listed = 1..Len(listed) /\ Len(listed) \in Nat
  BY <1>5
<1>8. ASSUME NEW i \in 1..Len(listed)
      PROVE  raw[i] \in Found /\ Id(raw[i]) = listed[i]
  <2>1. listed[i] \in Ids
    BY <1>5
  <2>2. raw[i] = [product |-> Product(listed[i], inStock[listed[i]]), status |-> "none"]
    BY <1>6, <1>7
  <2>3. price[listed[i]] \in Nat /\ inStock[listed[i]] \in BOOLEAN /\ listed[i] \in Int
    BY <1>2, <1>6, <2>1
  <2>4. Product(listed[i], inStock[listed[i]]) \in Products
    BY <2>3 DEF Product, Products
  <2>5. Product(listed[i], inStock[listed[i]]).id = listed[i]
    BY DEF Product
  <2> QED  BY <2>1, <2>2, <2>4, <2>5 DEF Found, Statuses, Id
<1>9. raw \in Seq(Found) /\ Len(raw) = Len(listed)
  <2>1. raw \in [1..Len(listed) -> Found]
    BY <1>6, <1>7, <1>8
  <2> QED  BY <1>7, <2>1
<1>10. \A i \in 1..Len(raw) : base + i \in DOMAIN upstream /\ Id(raw[i]) = upstream[base + i]
  BY <1>3, <1>4, <1>5, <1>8, <1>9
<1> QED  BY <1>3, <1>4, <1>5, <1>9, <1>10 DEF base, to, size
\* What is answered of a page: no more than was asked for, ranked; without a
\* budget all of a page that is no larger.
LEMMA SelectedFacts ==
  ASSUME NEW in \in Inputs, NEW raw \in Seq(Found)
  PROVE  LET within == WithinBudget(in, raw)
             selected == Selected(in, raw, within)
         IN /\ Cardinality(within) \in Nat
            /\ selected \in Seq(Found) /\ Len(selected) <= in.first
            /\ \A i, j \in DOMAIN selected :
                 i < j => ~Before(selected[j].product, selected[i].product)
            /\ in.budgetMax = None /\ Len(raw) <= in.first =>
                 /\ Len(selected) = Len(raw) /\ Cardinality(within) = Len(raw)
                 /\ IdsOf(selected) = IdsOf(raw)
<1> DEFINE within == WithinBudget(in, raw)
           n == Cardinality(within)
           ranked == Rank(raw, within)
           selected == Selected(in, raw, within)
           to == Lesser(in.first, n)
<1>1. in.first \in Nat \ {0} /\ Len(raw) \in Nat /\ DOMAIN raw = 1..Len(raw)
  BY CatalogAssumption DEF Inputs
<1>2. within \in SUBSET (1..Len(raw))
  BY <1>1 DEF WithinBudget
<1>3. in.budgetMax = None => within = 1..Len(raw)
  BY <1>1 DEF WithinBudget
<1> HIDE DEF within
<1>4. /\ n \in 0..Len(raw) /\ ranked \in Seq(Found) /\ Len(ranked) = n
      /\ \A k \in 1..n : \E i \in within : ranked[k] = raw[i]
      /\ \A i \in within : \E k \in 1..n : ranked[k] = raw[i]
      /\ \A k, l \in 1..n : k < l => ~Before(ranked[l].product, ranked[k].product)
  BY <1>2, RankFacts
<1>5. n \in Nat /\ to \in Nat /\ to <= n /\ to <= in.first
      /\ (n <= in.first => to = n)
  BY <1>1, <1>4 DEF Lesser
<1>6. /\ selected \in Seq(Found) /\ Len(selected) = to /\ DOMAIN selected = 1..to
      /\ \A i \in 1..to : selected[i] = ranked[i]
  <2>1. selected = Slice(ranked, 1, in.first)
    BY DEF Selected
  <2>2. Lesser(in.first, Len(ranked)) = to
    BY <1>4
  <2> HIDE DEF selected, ranked, to
  <2>3. /\ Slice(ranked, 1, in.first) \in Seq(Found)
        /\ Len(Slice(ranked, 1, in.first)) = IF 1 <= to THEN to - 1 + 1 ELSE 0
        /\ \A i \in 1..to - 1 + 1 : Slice(ranked, 1, in.first)[i] = ranked[1 + i - 1]
    <3>1. in.first \in Nat /\ 1 \in Nat \ {0}
      BY <1>1
    <3>2. ranked \in Seq(Found)
      BY <1>4
    <3> DEFINE m == Lesser(in.first, Len(ranked))
               sliced == Slice(ranked, 1, in.first)
    <3>3. /\ sliced \in Seq(Found)
          /\ Len(sliced) = IF 1 <= m THEN m - 1 + 1 ELSE 0
          /\ \A i \in 1..m - 1 + 1 : sliced[i] = ranked[1 + i - 1]
      <4>1. ASSUME NEW from \in Nat \ {0}, NEW t \in Nat
            PROVE  LET l == Lesser(t, Len(ranked))
                       some == Slice(ranked, from, t)
                   IN /\ some \in Seq(Found)
                      /\ Len(some) = IF from <= l THEN l - from + 1 ELSE 0
                      /\ \A i \in 1..l - from + 1 : some[i] = ranked[from + i - 1]
        BY <3>2, SliceFacts
      <4> QED  BY <3>1, <4>1
    <3> QED  BY <2>2, <3>3
  <2>4. Len(selected) = to /\ selected \in Seq(Found)
    BY <1>5, <2>1, <2>3
  <2>5. ASSUME NEW i \in 1..to PROVE selected[i] = ranked[i]
    <3>1. i \in 1..to - 1 + 1 /\ 1 + i - 1 = i
      BY <1>5
    <3> QED  BY <2>1, <2>3, <3>1
  <2> QED  BY <2>4, <2>5
<1> HIDE DEF selected, ranked, to, n
<1>7. \A i, j \in DOMAIN selected :
        i < j => ~Before(selected[j].product, selected[i].product)
  <2>1. \A i \in 1..to : i \in 1..n
    BY <1>5
  <2> QED  BY <1>4, <1>6, <2>1
<1>8. ASSUME in.budgetMax = None, Len(raw) <= in.first
      PROVE  /\ Len(selected) = Len(raw) /\ n = Len(raw)
             /\ IdsOf(selected) = IdsOf(raw)
  <2>1. n = Len(raw) /\ to = n
    <3>1. n = Cardinality(1..Len(raw))
      BY <1>3, <1>8 DEF n
    <3>2. ASSUME NEW m \in Nat PROVE Cardinality(1..m) = m
      BY FS_Interval
    <3>3. n = Len(raw)
      BY <1>1, <3>1, <3>2
    <3> QED  BY <1>5, <1>8, <3>3
  <2>2. \A i \in DOMAIN selected : \E k \in DOMAIN raw : selected[i] = raw[k]
    BY <1>1, <1>2, <1>4, <1>6, <2>1, ZenonT(40)
  <2>3. \A k \in DOMAIN raw : \E i \in DOMAIN selected : selected[i] = raw[k]
    BY <1>1, <1>3, <1>4, <1>6, <1>8, <2>1
  <2> QED  BY <1>6, <2>1, <2>2, <2>3 DEF IdsOf
<1> QED  BY <1>5, <1>6, <1>7, <1>8 DEF within, n, selected

\* The first page without a budget is what a search that is over asks for.
LEMMA PlainFacts ==
  ASSUME NEW page \in Nat \ {0}, NEW first \in 1..MaxSize
  PROVE  Plain(page, first) \in Inputs
BY DEF Plain, Inputs

LEMMA ClampFacts ==
  ASSUME NEW first \in Int
  PROVE  Clamp(first) \in 1..MaxSize
BY CatalogAssumption DEF Clamp, Lesser

\* A walk is as it was where nothing of the viewer's search changes.
LEMMA WalkFrame ==
  ASSUME Walked, UNCHANGED <<upstream, walk, got, uneven>>,
         phase'[Viewer] = phase[Viewer], input'[Viewer] = input[Viewer],
         items'[Viewer] = items[Viewer], more'[Viewer] = more[Viewer]
  PROVE  Walked'
<1>1. /\ walk' = walk /\ upstream' = upstream /\ got' = got /\ uneven' = uneven
      /\ phase'[Viewer] = phase[Viewer] /\ input'[Viewer] = input[Viewer]
      /\ items'[Viewer] = items[Viewer] /\ more'[Viewer] = more[Viewer]
  OBVIOUS
<1> QED  BY <1>1 DEF Walked
-----------------------------------------------------------------------------
LEMMA InitInv == Init => Inv
<1> SUFFICES ASSUME Init PROVE Inv
  OBVIOUS
<1>1. Plain(1, 1) \in Inputs
  <2>1. 1 \in 1..MaxSize /\ 1 \in Nat \ {0}
    BY CatalogAssumption
  <2> QED  BY <2>1, PlainFacts
<1>2. TypeOK
  <2>1. /\ input \in [Searches -> Inputs] /\ items \in [Searches -> Seq(Found)]
        /\ \A s \in Searches : items[s] = <<>> /\ input[s].first = 1 /\ open[s] = {}
    BY <1>1, EmptySeq DEF Init, Plain
  <2>2. \A s \in Searches : Len(items[s]) <= input[s].first /\ open[s] \subseteq DOMAIN items[s]
    BY <2>1, EmptySeq
  <2>3. open \in [Searches -> SUBSET (1..MaxSize)] /\ got \in Seq(Ids) /\ answer \in Seq(Found)
    BY EmptySeq DEF Init
  <2>4. walk \in [page : Nat, first : 0..MaxSize]
    BY CatalogAssumption DEF Init
  <2> QED  BY <2>1, <2>2, <2>3, <2>4 DEF Init, TypeOK
<1>3. Held /\ Answered
  BY EmptySeq DEF Init, Plain, Held, Answered, AnswersAreStored, Searches
<1>4. Walked
  <2>1. Base(1, 0) = 0
    BY DEF Base
  <2>2. upstream \in Seq(Ids) /\ Len(upstream) \in Nat
    BY <1>2, CatalogAssumption DEF TypeOK
  <2>3. ToSet(got) = {} /\ Listed(upstream, 1, 0) = {} /\ Len(got) = 0
    BY DEF Init, ToSet, Listed
  <2>4. walk.page = 1 /\ walk.first = 0 /\ got = <<>> /\ phase[Viewer] = "idle"
    BY DEF Init, Searches
  <2> QED  BY <2>1, <2>2, <2>3, <2>4 DEF Walked
<1> QED  BY <1>2, <1>3, <1>4 DEF Inv

LEMMA AskInv == Inv /\ Ask => Inv'
<1> SUFFICES ASSUME Inv, Ask PROVE Inv'
  OBVIOUS
<1>1. PICK requested \in 0..MaxSize + 1 :
        /\ input' = [input EXCEPT ![Viewer] = Plain(walk.page, Clamp(requested))]
        /\ walk' = IF walk.first = 0 THEN [walk EXCEPT !.first = Clamp(requested)] ELSE walk
        /\ uneven' = (uneven \/ walk.first \notin {0, Clamp(requested)})
  BY DEF Ask
<1> DEFINE first == Clamp(requested)
<1>2. first \in 1..MaxSize /\ MaxSize \in Nat
  BY ClampFacts, CatalogAssumption
<1> HIDE DEF first
<1>3. /\ phase[Viewer] = "idle" /\ walk.page # 0 /\ answer' = <<>>
      /\ phase' = [phase EXCEPT ![Viewer] = "fetching"]
      /\ UNCHANGED <<upstream, price, items, open, more, locks, stored, got>>
      /\ input' = [input EXCEPT ![Viewer] = Plain(walk.page, first)]
      /\ walk' = IF walk.first = 0 THEN [walk EXCEPT !.first = first] ELSE walk
      /\ uneven' = (uneven \/ walk.first \notin {0, first})
  BY <1>1 DEF Ask, first
<1>4. TypeOK /\ Held /\ Walked /\ Viewer \in Searches
  BY DEF Inv, Searches
<1>5. walk.page \in Nat \ {0} /\ walk \in [page : Nat, first : 0..MaxSize]
  BY <1>3, <1>4 DEF TypeOK
<1>6. Plain(walk.page, first) \in Inputs /\ Plain(walk.page, first).first = first
  BY <1>2, <1>5, PlainFacts DEF Plain
<1>7. TypeOK'
  <2>1. input' \in [Searches -> Inputs]
    BY <1>3, <1>4, <1>6 DEF TypeOK
  <2>2. phase' \in [Searches -> {"idle", "fetching", "inventory", "saving"}]
    BY <1>3, <1>4 DEF TypeOK
  <2>3. walk' \in [page : Nat, first : 0..MaxSize] /\ uneven' \in BOOLEAN
    BY <1>2, <1>3, <1>5
  <2>4. ASSUME NEW s \in Searches PROVE Len(items'[s]) <= input'[s].first
    <3>1. CASE s = Viewer
      <4>1. items'[s] = <<>> /\ input'[s].first = first
        BY <1>3, <1>4, <1>6, <3>1 DEF TypeOK, Held
      <4> QED  BY <1>2, <4>1, EmptySeq
    <3>2. CASE s # Viewer
      BY <1>3, <1>4, <3>2 DEF TypeOK
    <3> QED  BY <3>1, <3>2
  <2>5. answer' \in Seq(Found)
    BY <1>3, EmptySeq
  <2> QED  BY <1>3, <1>4, <2>1, <2>2, <2>3, <2>4, <2>5 DEF TypeOK
<1>8. Held'
  BY <1>3, <1>4 DEF Held, TypeOK, Plain
<1>9. Answered'
  BY <1>3 DEF Answered, AnswersAreStored
<1>10. Walked'
  <2> SUFFICES ASSUME ~uneven' PROVE Walked'
    BY DEF Walked
  <2>1. ~uneven /\ walk.first \in {0, first}
    BY <1>3
  <2>2. walk'.page = walk.page /\ walk'.first = first /\ first # 0
    BY <1>2, <1>3, <1>5, <2>1
  <2>3. /\ Base(walk.page, walk.first) <= Len(upstream)
        /\ Len(got) = Base(walk.page, walk.first)
        /\ ToSet(got) = Listed(upstream, 1, Base(walk.page, walk.first))
    BY <1>4, <1>5, <2>1 DEF Walked
  <2>4. Base(walk.page, walk.first) = Base(walk.page, first)
    <3>1. CASE walk.first = first
      BY <3>1
    <3>2. CASE walk.first = 0
      <4>1. walk.page = 1
        BY <1>4, <2>1, <3>2 DEF Walked
      <4>2. (1 - 1) * 0 = 0 /\ (1 - 1) * first = 0
        BY <1>2
      <4> QED  BY <3>2, <4>1, <4>2 DEF Base
    <3> QED  BY <2>1, <3>1, <3>2
  <2>5. phase'[Viewer] = "fetching" /\ input'[Viewer] = Plain(walk.page, first)
    BY <1>3, <1>4 DEF TypeOK
  <2> QED  BY <1>3, <1>5, <2>2, <2>3, <2>4, <2>5 DEF Walked
<1> QED  BY <1>7, <1>8, <1>9, <1>10 DEF Inv

LEMMA AskToolInv == ASSUME NEW s \in Tools, Inv, AskTool(s) PROVE Inv'
<1>1. PICK budgetMax \in Budgets \cup {None}, located \in BOOLEAN :
        input' = [input EXCEPT ![s] = [page |-> 1, first |-> ToolSize,
                                       budgetMax |-> budgetMax, located |-> located]]
  BY DEF AskTool
<1>2. /\ phase[s] = "idle" /\ phase' = [phase EXCEPT ![s] = "fetching"] /\ answer' = <<>>
      /\ UNCHANGED <<upstream, price, items, open, more, locks, stored, walk, got, uneven>>
  BY DEF AskTool
<1>3. TypeOK /\ Held /\ Walked /\ s \in Searches /\ s # Viewer /\ Viewer \in Searches
  BY CatalogAssumption DEF Inv, Searches
<1>4. TypeOK'
  <2>1. input' \in [Searches -> Inputs]
    BY <1>1, <1>3, CatalogAssumption DEF TypeOK, Inputs
  <2>2. phase' \in [Searches -> {"idle", "fetching", "inventory", "saving"}]
    BY <1>2, <1>3 DEF TypeOK
  <2>3. ASSUME NEW t \in Searches PROVE Len(items'[t]) <= input'[t].first
    <3>1. CASE t = s
      <4>1. items'[t] = <<>> /\ input'[t].first = ToolSize
        BY <1>1, <1>2, <1>3, <3>1 DEF TypeOK, Held
      <4> QED  BY <4>1, CatalogAssumption, EmptySeq
    <3>2. CASE t # s
      BY <1>1, <1>2, <1>3, <3>2 DEF TypeOK
    <3> QED  BY <3>1, <3>2
  <2>4. answer' \in Seq(Found)
    BY <1>2, EmptySeq
  <2> QED  BY <1>2, <1>3, <2>1, <2>2, <2>3, <2>4 DEF TypeOK
<1>5. Held'
  BY <1>1, <1>2, <1>3 DEF Held, TypeOK
<1>6. Answered'
  BY <1>2 DEF Answered, AnswersAreStored
<1>7. Walked'
  BY <1>1, <1>2, <1>3, WalkFrame DEF TypeOK
<1> QED  BY <1>4, <1>5, <1>6, <1>7 DEF Inv
\* What a search that is over leaves as it is for the others.
LEMMA OverFacts ==
  ASSUME NEW s \in Searches, TypeOK, Held, Over(s)
  PROVE  /\ phase' \in [Searches -> {"idle", "fetching", "inventory", "saving"}]
         /\ input' \in [Searches -> Inputs] /\ items' \in [Searches -> Seq(Found)]
         /\ open' \in [Searches -> SUBSET (1..MaxSize)] /\ more' \in [Searches -> BOOLEAN]
         /\ locks' \in [Ids -> Searches \cup {None}]
         /\ \A t \in Searches :
              Len(items'[t]) <= input'[t].first /\ open'[t] \subseteq DOMAIN items'[t]
         /\ phase'[s] = "idle" /\ Held'
         /\ \A t \in Searches \ {s} :
              /\ phase'[t] = phase[t] /\ input'[t] = input[t]
              /\ items'[t] = items[t] /\ more'[t] = more[t]
<1>1. /\ phase' = [phase EXCEPT ![s] = "idle"]
      /\ input' = [input EXCEPT ![s] = Plain(1, 1)]
      /\ items' = [items EXCEPT ![s] = <<>>] /\ open' = [open EXCEPT ![s] = {}]
      /\ more' = [more EXCEPT ![s] = FALSE]
      /\ locks' = [id \in Ids |-> IF locks[id] = s THEN None ELSE locks[id]]
  BY DEF Over
<1>2. Plain(1, 1) \in Inputs /\ Plain(1, 1).first = 1
  <2>1. 1 \in 1..MaxSize /\ 1 \in Nat \ {0}
    BY CatalogAssumption
  <2> QED  BY <2>1, PlainFacts DEF Plain
<1>3. <<>> \in Seq(Found) /\ Len(<<>>) = 0
  BY EmptySeq
<1>4. \A t \in Searches :
        Len(items'[t]) <= input'[t].first /\ open'[t] \subseteq DOMAIN items'[t]
  <2> SUFFICES ASSUME NEW t \in Searches
               PROVE  Len(items'[t]) <= input'[t].first /\ open'[t] \subseteq DOMAIN items'[t]
    OBVIOUS
  <2>1. CASE t = s
    <3>1. items'[t] = <<>> /\ input'[t].first = 1 /\ open'[t] = {}
      BY <1>1, <1>2, <2>1 DEF TypeOK
    <3> QED  BY <1>3, <3>1
  <2>2. CASE t # s
    BY <1>1, <2>2 DEF TypeOK
  <2> QED  BY <2>1, <2>2
<1>5. Held'
  BY <1>1 DEF Held, TypeOK, Plain, Searches
<1>6. locks' \in [Ids -> Searches \cup {None}]
  BY <1>1 DEF TypeOK
<1>7. open' \in [Searches -> SUBSET (1..MaxSize)]
  BY <1>1 DEF TypeOK
<1> QED  BY <1>1, <1>2, <1>3, <1>4, <1>5, <1>6, <1>7 DEF TypeOK

\* A search that fails leaves the walk where it was.
LEMMA FailInv == ASSUME NEW s \in Searches, Inv, Fail(s) PROVE Inv'
<1>1. /\ Over(s) /\ TypeOK /\ Held /\ Walked
      /\ UNCHANGED <<upstream, price, stored, walk, got, uneven, answer>>
  BY DEF Inv, Fail
<1>2. TypeOK' /\ Held'
  BY <1>1, OverFacts DEF TypeOK
<1>3. Answered'
  BY <1>1 DEF Inv, Answered, AnswersAreStored
<1>4. Walked'
  <2>1. CASE s # Viewer
    BY <1>1, <2>1, OverFacts, WalkFrame DEF Searches
  <2>2. CASE s = Viewer
    <3>1. phase'[Viewer] = "idle"
      BY <1>1, <2>2, OverFacts
    <3> QED  BY <1>1, <3>1 DEF Walked
  <2> QED  BY <2>1, <2>2
<1> QED  BY <1>2, <1>3, <1>4 DEF Inv

LEMMA LockInv == ASSUME NEW s \in Searches, Inv, Lock(s) PROVE Inv'
<1>1. PICK i \in DOMAIN items[s] :
        /\ locks' = [locks EXCEPT ![Id(items[s][i])] = s]
        /\ UNCHANGED <<upstream, price, phase, input, items, open, more, stored, walk,
                       got, uneven, answer>>
  BY DEF Lock
<1>2. TypeOK'
  BY <1>1 DEF Inv, TypeOK
<1>3. Held' /\ Answered'
  BY <1>1 DEF Inv, Held, Answered, AnswersAreStored
<1>4. Walked'
  BY <1>1, WalkFrame DEF Inv
<1> QED  BY <1>2, <1>3, <1>4 DEF Inv

\* The next chunk of stock calls is within what the search holds.
LEMMA ChunkFacts ==
  ASSUME NEW n \in Nat, NEW from \in Nat \ {0}
  PROVE  Chunk(from, n) \subseteq 1..n
BY CatalogAssumption DEF Chunk, Lesser

LEMMA InventoryInv == ASSUME NEW s \in Searches, Inv, Inventory(s) PROVE Inv'
<1>1. PICK i \in open[s] : \E held \in Settled(items[s], i) :
        LET asked == {j \in DOMAIN held : held[j].status # "none"}
            next == IF open[s] # {i} THEN open[s] \ {i}
                    ELSE NextChunk(Cardinality(asked), Len(held))
        IN /\ open' = [open EXCEPT ![s] = next]
           /\ items' = [items EXCEPT ![s] = IF next = {} THEN Reranked(held) ELSE held]
           /\ phase' = [phase EXCEPT ![s] = IF next = {} THEN "saving" ELSE @]
  BY DEF Inventory
<1>2. PICK held \in Settled(items[s], i) :
        LET asked == {j \in DOMAIN held : held[j].status # "none"}
            next == IF open[s] # {i} THEN open[s] \ {i}
                    ELSE NextChunk(Cardinality(asked), Len(held))
        IN /\ open' = [open EXCEPT ![s] = next]
           /\ items' = [items EXCEPT ![s] = IF next = {} THEN Reranked(held) ELSE held]
           /\ phase' = [phase EXCEPT ![s] = IF next = {} THEN "saving" ELSE @]
  BY <1>1
<1> DEFINE asked == {j \in DOMAIN held : held[j].status # "none"}
           next == IF open[s] # {i} THEN open[s] \ {i}
                   ELSE NextChunk(Cardinality(asked), Len(held))
           new == IF next = {} THEN Reranked(held) ELSE held
<1>3. /\ open' = [open EXCEPT ![s] = next] /\ items' = [items EXCEPT ![s] = new]
      /\ phase' = [phase EXCEPT ![s] = IF next = {} THEN "saving" ELSE @]
  BY <1>2
<1>4. /\ phase[s] = "inventory"
      /\ UNCHANGED <<upstream, price, input, more, locks, stored, walk, got, uneven, answer>>
  BY DEF Inventory
<1>5. TypeOK /\ Held /\ Walked /\ s # Viewer /\ Viewer \in Searches
  BY <1>4 DEF Inv, Held, Searches
<1>6. /\ items[s] \in Seq(Found) /\ i \in DOMAIN items[s] /\ open[s] \subseteq DOMAIN items[s]
      /\ Len(items[s]) \in 0..MaxSize /\ Len(items[s]) <= input[s].first
      /\ DOMAIN items[s] = 1..Len(items[s]) /\ input[s].first \in 1..MaxSize
  <2>1. /\ items[s] \in Seq(Found) /\ i \in DOMAIN items[s] /\ open[s] \subseteq DOMAIN items[s]
        /\ Len(items[s]) <= input[s].first /\ input[s] \in Inputs
    BY <1>5 DEF TypeOK
  <2>2. input[s].first \in 1..MaxSize /\ MaxSize \in Nat
    BY <2>1, CatalogAssumption DEF Inputs
  <2>3. Len(items[s]) \in Nat /\ DOMAIN items[s] = 1..Len(items[s])
    BY <2>1
  <2> QED  BY <2>1, <2>2, <2>3
<1>7. /\ held \in Seq(Found) /\ Len(held) = Len(items[s])
      /\ DOMAIN held = 1..Len(items[s])
  <2>1. PICK outcome \in {"in_stock", "out_of_stock", "fails"}, fetchedAt \in Times(items[s]) :
          held = [items[s] EXCEPT ![i] = WithInventory(items[s][i], outcome, fetchedAt)]
    BY DEF Settled
  <2>2. fetchedAt \in Int
    BY DEF Times
  <2>3. items[s][i] \in Found
    BY <1>6
  <2>4. WithInventory(items[s][i], outcome, fetchedAt) \in Found
    <3> DEFINE it == items[s][i]
    <3>1. it.product \in Products /\ it.product.id \in Ids
      BY <2>3 DEF Found
    <3> HIDE DEF it
    <3>2. CASE outcome = "fails"
      <4> DEFINE p == [it.product EXCEPT !.inStock = FALSE]
      <4>1. WithInventory(it, outcome, fetchedAt) = [product |-> p, status |-> "unconfirmed"]
        BY <3>2 DEF WithInventory
      <4>2. p \in Products /\ p.id = it.product.id
        BY <3>1 DEF Products
      <4> HIDE DEF p
      <4> QED  BY <3>1, <4>1, <4>2 DEF Found, Statuses, it
    <3>3. CASE outcome # "fails"
      <4> DEFINE p == [it.product EXCEPT !.inStock = (outcome = "in_stock"),
                                         !.freshnessEpochMs = fetchedAt]
      <4>1. WithInventory(it, outcome, fetchedAt) = [product |-> p, status |-> outcome]
        BY <2>1, <3>3 DEF WithInventory
      <4>2. p \in Products
        BY <2>2, <3>1 DEF Products
      <4>3. p.id = it.product.id
        BY <3>1 DEF Products
      <4>4. outcome \in Statuses
        BY <2>1, <3>3 DEF Statuses
      <4> HIDE DEF p
      <4> QED  BY <3>1, <4>1, <4>2, <4>3, <4>4 DEF Found, it
    <3> QED  BY <3>2, <3>3
  <2> HIDE DEF asked, next, new
  <2> QED  BY <1>6, <2>1, <2>4, ExceptSeq
<1>8. next \subseteq 1..Len(items[s])
  <2>1. CASE open[s] # {i}
    BY <1>6, <2>1
  <2>2. CASE open[s] = {i}
    <3>1. Cardinality(asked) \in Nat
      <4>1. IsFiniteSet(1..Len(items[s])) /\ asked \in SUBSET (1..Len(items[s]))
        BY <1>6, <1>7, FS_Interval
      <4>2. IsFiniteSet(asked)
        BY <4>1, FS_Subset
      <4> QED  BY <4>2, FS_CardinalityType
    <3>2. next = Chunk(Cardinality(asked) + 1, Len(held))
      BY <2>2 DEF NextChunk
    <3> HIDE DEF asked, next
    <3>3. Cardinality(asked) + 1 \in Nat \ {0} /\ Len(held) \in Nat
      BY <1>6, <1>7, <3>1
    <3> QED  BY <1>7, <3>2, <3>3, ChunkFacts
  <2> QED  BY <2>1, <2>2
<1> HIDE DEF asked, next
<1>9. /\ new \in Seq(Found) /\ Len(new) = Len(items[s]) /\ DOMAIN new = 1..Len(items[s])
      /\ next = {} => \A j, k \in DOMAIN new :
                        j < k => ~Before(new[k].product, new[j].product)
  <2>1. CASE next # {}
    BY <1>7, <2>1
  <2>2. CASE next = {}
    <3>1. new = Rank(held, 1..Len(held))
      BY <1>7, <2>2 DEF Reranked
    <3>2. Cardinality(1..Len(held)) = Len(held) /\ Len(held) \in Nat
      <4>1. ASSUME NEW m \in Nat PROVE Cardinality(1..m) = m
        BY FS_Interval
      <4> QED  BY <1>6, <1>7, <4>1
    <3> DEFINE n == Cardinality(1..Len(held))
    <3>3. /\ Rank(held, 1..Len(held)) \in Seq(Found) /\ Len(Rank(held, 1..Len(held))) = n
          /\ \A k, l \in 1..n : k < l => ~Before(Rank(held, 1..Len(held))[l].product,
                                                 Rank(held, 1..Len(held))[k].product)
      BY <1>7, RankFacts
    <3> HIDE DEF new
    <3> QED  BY <1>7, <3>1, <3>2, <3>3
  <2> QED  BY <2>1, <2>2
<1> HIDE DEF new
<1>10. TypeOK'
  <2>1. items' \in [Searches -> Seq(Found)] /\ phase' \in [Searches -> {"idle", "fetching", "inventory", "saving"}]
    BY <1>3, <1>5, <1>9 DEF TypeOK
  <2>2. open' \in [Searches -> SUBSET (1..MaxSize)]
    <3>1. next \in SUBSET (1..MaxSize)
      BY <1>6, <1>8, CatalogAssumption
    <3> QED  BY <1>3, <1>5, <3>1 DEF TypeOK
  <2>3. ASSUME NEW t \in Searches
        PROVE  Len(items'[t]) <= input'[t].first /\ open'[t] \subseteq DOMAIN items'[t]
    <3>1. CASE t = s
      <4>1. items'[t] = new /\ open'[t] = next /\ input'[t] = input[s]
        BY <1>3, <1>4, <1>5, <3>1 DEF TypeOK
      <4> QED  BY <1>6, <1>8, <1>9, <4>1
    <3>2. CASE t # s
      BY <1>3, <1>4, <1>5, <3>2 DEF TypeOK
    <3> QED  BY <3>1, <3>2
  <2> QED  BY <1>4, <1>5, <2>1, <2>2, <2>3 DEF TypeOK
<1>11. Held'
  <2> SUFFICES ASSUME NEW t \in Searches
               PROVE  /\ phase'[t] = "saving" =>
                           \A j, k \in DOMAIN items'[t] :
                             j < k => ~Before(items'[t][k].product, items'[t][j].product)
                      /\ phase'[t] = "inventory" => t # Viewer
                      /\ phase'[t] \in {"idle", "fetching"} => items'[t] = <<>>
    BY <1>4, <1>5 DEF Held
  <2>1. CASE t = s
    <3>1. items'[t] = new /\ phase'[t] = IF next = {} THEN "saving" ELSE "inventory"
      BY <1>3, <1>4, <1>5, <2>1 DEF TypeOK
    <3> QED  BY <1>5, <1>9, <2>1, <3>1
  <2>2. CASE t # s
    <3>1. items'[t] = items[t] /\ phase'[t] = phase[t]
      BY <1>3, <1>5, <2>2 DEF TypeOK
    <3> QED  BY <1>5, <3>1 DEF Held
  <2> QED  BY <2>1, <2>2
<1>12. Answered'
  BY <1>4 DEF Inv, Answered, AnswersAreStored
<1>13. Walked'
  BY <1>3, <1>4, <1>5, WalkFrame DEF TypeOK
<1> QED  BY <1>10, <1>11, <1>12, <1>13 DEF Inv
LEMMA FetchInv == ASSUME NEW s \in Searches, Inv, Fetch(s) PROVE Inv'
<1> DEFINE in == input[s]
<1>1. PICK raw \in Pages(in) :
        /\ items' = [items EXCEPT ![s] = Selected(in, raw, WithinBudget(in, raw))]
        /\ more' = [more EXCEPT ![s] = HasNextPage(in, raw, WithinBudget(in, raw))]
        /\ open' = [open EXCEPT ![s] = IF in.located THEN Chunk(1, Len(items'[s])) ELSE {}]
        /\ phase' = [phase EXCEPT ![s] = IF in.located /\ items'[s] # <<>>
                                         THEN "inventory" ELSE "saving"]
  BY DEF Fetch
<1> DEFINE within == WithinBudget(in, raw)
           selected == Selected(in, raw, within)
<1>2. /\ phase[s] = "fetching"
      /\ UNCHANGED <<upstream, price, input, locks, stored, walk, got, uneven, answer>>
  BY DEF Fetch
<1>3. TypeOK /\ Held /\ Walked /\ Viewer \in Searches
  BY DEF Inv, Searches
<1>4. in \in Inputs /\ in.first \in 1..MaxSize /\ MaxSize \in Nat
  BY <1>3, CatalogAssumption DEF TypeOK, Inputs
<1>5. raw \in Seq(Found)
  BY <1>3, <1>4, PageFacts
<1>6. /\ Cardinality(within) \in Nat
      /\ selected \in Seq(Found) /\ Len(selected) <= in.first
      /\ \A i, j \in DOMAIN selected :
           i < j => ~Before(selected[j].product, selected[i].product)
      /\ in.budgetMax = None /\ Len(raw) <= in.first =>
           /\ Len(selected) = Len(raw) /\ Cardinality(within) = Len(raw)
           /\ IdsOf(selected) = IdsOf(raw)
  BY <1>4, <1>5, SelectedFacts
<1>7. items' = [items EXCEPT ![s] = selected] /\ items'[s] = selected
  BY <1>1, <1>3 DEF TypeOK
<1> HIDE DEF selected, within
<1>8. Len(selected) \in Nat /\ DOMAIN selected = 1..Len(selected)
  BY <1>6
<1> DEFINE chunk == IF in.located THEN Chunk(1, Len(selected)) ELSE {}
<1>9. open' = [open EXCEPT ![s] = chunk] /\ chunk \subseteq 1..Len(selected)
  <2>1. Chunk(1, Len(selected)) \subseteq 1..Len(selected)
    BY <1>8, ChunkFacts
  <2> QED  BY <1>1, <1>7, <2>1
<1> HIDE DEF chunk
<1>10. /\ phase' = [phase EXCEPT ![s] = IF in.located /\ selected # <<>>
                                        THEN "inventory" ELSE "saving"]
       /\ more' = [more EXCEPT ![s] = HasNextPage(in, raw, within)]
  BY <1>1, <1>7 DEF within
<1>11. TypeOK'
  <2>1. /\ items' \in [Searches -> Seq(Found)]
        /\ phase' \in [Searches -> {"idle", "fetching", "inventory", "saving"}]
    BY <1>3, <1>6, <1>7, <1>10 DEF TypeOK
  <2>2. more' \in [Searches -> BOOLEAN]
    BY <1>3, <1>10 DEF TypeOK, HasNextPage
  <2>3. open' \in [Searches -> SUBSET (1..MaxSize)]
    <3>1. chunk \in SUBSET (1..MaxSize)
      BY <1>4, <1>6, <1>8, <1>9
    <3> QED  BY <1>3, <1>9, <3>1 DEF TypeOK
  <2>4. ASSUME NEW t \in Searches
        PROVE  Len(items'[t]) <= input'[t].first /\ open'[t] \subseteq DOMAIN items'[t]
    <3>1. CASE t = s
      <4>1. items'[t] = selected /\ open'[t] = chunk /\ input'[t] = in
        BY <1>2, <1>3, <1>7, <1>9, <3>1 DEF TypeOK
      <4> QED  BY <1>6, <1>8, <1>9, <4>1
    <3>2. CASE t # s
      BY <1>2, <1>3, <1>7, <1>9, <3>2 DEF TypeOK
    <3> QED  BY <3>1, <3>2
  <2> QED  BY <1>2, <1>3, <2>1, <2>2, <2>3, <2>4 DEF TypeOK
<1>12. ~input'[Viewer].located
  BY <1>2, <1>3 DEF Held
<1>13. Held'
  <2> SUFFICES ASSUME NEW t \in Searches
               PROVE  /\ phase'[t] = "saving" =>
                           \A j, k \in DOMAIN items'[t] :
                             j < k => ~Before(items'[t][k].product, items'[t][j].product)
                      /\ phase'[t] = "inventory" => t # Viewer
                      /\ phase'[t] \in {"idle", "fetching"} => items'[t] = <<>>
    BY <1>12 DEF Held
  <2>1. CASE t = s
    <3>1. /\ items'[t] = selected
          /\ phase'[t] = IF in.located /\ selected # <<>> THEN "inventory" ELSE "saving"
      BY <1>3, <1>7, <1>10, <2>1 DEF TypeOK
    <3>2. t = Viewer => ~in.located
      BY <1>2, <1>3, <2>1 DEF Held
    <3> QED  BY <1>6, <3>1, <3>2
  <2>2. CASE t # s
    <3>1. items'[t] = items[t] /\ phase'[t] = phase[t]
      BY <1>3, <1>7, <1>10, <2>2 DEF TypeOK
    <3> QED  BY <1>3, <3>1 DEF Held
  <2> QED  BY <2>1, <2>2
<1>14. Answered'
  BY <1>2 DEF Inv, Answered, AnswersAreStored
<1>15. Walked'
  <2>1. CASE s # Viewer
    BY <1>2, <1>3, <1>7, <1>10, <2>1, WalkFrame DEF TypeOK
  <2>2. ASSUME s = Viewer, ~uneven PROVE Walked'
    <3> DEFINE n == Base(walk.page, walk.first)
               to == Lesser(n + walk.first, Len(upstream))
    <3>1. /\ in = Plain(walk.page, walk.first) /\ walk.page # 0 /\ walk.first # 0
          /\ n <= Len(upstream) /\ Len(got) = n /\ ToSet(got) = Listed(upstream, 1, n)
      BY <1>2, <1>3, <2>2 DEF Walked
    <3>2. in.page = walk.page /\ in.first = walk.first /\ in.budgetMax = None
          /\ FetchSize(in) = walk.first
      BY <3>1 DEF Plain, FetchSize
    <3>3. walk.page \in Nat \ {0} /\ walk.first \in Nat \ {0} /\ n \in Nat
          /\ Len(upstream) \in Nat /\ DOMAIN upstream = 1..Len(upstream)
      <4>1. walk.page \in Nat \ {0} /\ walk.first \in Nat \ {0}
        BY <1>3, <1>4, <3>1 DEF TypeOK
      <4>2. upstream \in Seq(Ids)
        BY <1>3, CatalogAssumption DEF TypeOK
      <4>3. n \in Nat
        BY <4>1, BaseFacts
      <4> QED  BY <4>1, <4>2, <4>3
    <3>4. to \in Nat /\ n <= to /\ to <= n + walk.first /\ to <= Len(upstream)
      BY <3>1, <3>3 DEF Lesser
    <3>5. /\ Len(raw) = IF n < to THEN to - n ELSE 0
          /\ \A i \in 1..Len(raw) : n + i \in DOMAIN upstream /\ Id(raw[i]) = upstream[n + i]
      BY <1>3, <1>4, <3>2, PageFacts
    <3> HIDE DEF n, to
    <3>6. Len(raw) = to - n /\ Len(raw) <= walk.first /\ DOMAIN raw = 1..Len(raw)
      BY <1>5, <3>3, <3>4, <3>5
    <3>7. IdsOf(raw) = Listed(upstream, n + 1, to)
      <4>1. ASSUME NEW i \in DOMAIN raw PROVE Id(raw[i]) \in Listed(upstream, n + 1, to)
        <5>1. n + i \in n + 1..to /\ Id(raw[i]) = upstream[n + i]
          BY <3>3, <3>4, <3>5, <3>6
        <5> QED  BY <5>1 DEF Listed
      <4>2. ASSUME NEW k \in n + 1..to PROVE upstream[k] \in IdsOf(raw)
        <5>1. k - n \in DOMAIN raw /\ n + (k - n) = k
          BY <3>3, <3>4, <3>6
        <5>2. Id(raw[k - n]) = upstream[n + (k - n)]
          BY <3>5, <3>6, <5>1
        <5> QED  BY <5>1, <5>2 DEF IdsOf
      <4> QED  BY <4>1, <4>2 DEF IdsOf, Listed
    <3>8. /\ Len(selected) = to - n /\ IdsOf(selected) = Listed(upstream, n + 1, to)
          /\ Cardinality(within) = Len(raw)
      BY <1>6, <3>2, <3>6, <3>7
    <3>9. HasNextPage(in, raw, within) <=> Len(selected) = walk.first
      BY <3>2, <3>3, <3>4, <3>6, <3>8 DEF HasNextPage
    <3>10. /\ phase'[Viewer] # "idle" /\ items'[Viewer] = selected /\ input'[Viewer] = in
           /\ more'[Viewer] = HasNextPage(in, raw, within)
      BY <1>2, <1>3, <1>7, <1>10, <2>2 DEF TypeOK
    <3> QED  BY <1>2, <3>1, <3>8, <3>9, <3>10 DEF Walked, n, to
  <2>3. CASE uneven
    BY <1>2, <2>3 DEF Walked
  <2> QED  BY <2>1, <2>2, <2>3
<1> QED  BY <1>11, <1>13, <1>14, <1>15 DEF Inv
LEMMA CommitInv == ASSUME NEW s \in Searches, Inv, Commit(s) PROVE Inv'
<1>1. /\ phase[s] = "saving" /\ stored' = StoredBy(s) /\ answer' = items[s] /\ Over(s)
      /\ UNCHANGED <<upstream, price, uneven>>
      /\ s # Viewer => UNCHANGED <<walk, got>>
      /\ s = Viewer =>
           /\ walk' = [walk EXCEPT !.page = IF more[s] THEN EndCursor(input[s]) ELSE 0]
           /\ got' = got \o [i \in DOMAIN items[s] |-> Id(items[s][i])]
  BY DEF Commit
<1>2. TypeOK /\ Held /\ Walked /\ Answered /\ Viewer \in Searches
  BY DEF Inv, Searches
<1>3. /\ items[s] \in Seq(Found) /\ DOMAIN items[s] = 1..Len(items[s])
      /\ Len(items[s]) \in Nat
  BY <1>2 DEF TypeOK
<1>4. \A i \in DOMAIN items[s] : Id(items[s][i]) \in Ids
  <2> SUFFICES ASSUME NEW i \in DOMAIN items[s] PROVE Id(items[s][i]) \in Ids
    OBVIOUS
  <2>1. items[s][i] \in Found
    BY <1>3
  <2> QED  BY <2>1 DEF Found, Id
<1> DEFINE ids == [i \in DOMAIN items[s] |-> Id(items[s][i])]
<1>5. /\ ids \in Seq(Ids) /\ Len(ids) = Len(items[s]) /\ DOMAIN ids = 1..Len(items[s])
      /\ {ids[i] : i \in DOMAIN ids} = IdsOf(items[s])
  <2>1. ids \in [1..Len(items[s]) -> Ids]
    BY <1>3, <1>4
  <2>2. ids \in Seq(Ids) /\ Len(ids) = Len(items[s])
    BY <1>3, <2>1
  <2> QED  BY <1>3, <2>2 DEF IdsOf
<1> HIDE DEF ids
<1>6. TypeOK'
  <2>1. stored' \subseteq Ids
    BY <1>1, <1>2, <1>4 DEF TypeOK, StoredBy
  <2>2. got' \in Seq(Ids)
    <3>1. CASE s = Viewer
      <4>1. got' = got \o ids /\ got \in Seq(Ids)
        BY <1>1, <1>2, <3>1 DEF TypeOK, ids
      <4> QED  BY <1>5, <4>1, ConcatProperties
    <3>2. CASE s # Viewer
      BY <1>1, <1>2, <3>2 DEF TypeOK
    <3> QED  BY <3>1, <3>2
  <2>3. walk' \in [page : Nat, first : 0..MaxSize]
    <3>1. EndCursor(input[s]) \in Nat
      <4>1. input[s].page \in Nat
        BY <1>2 DEF TypeOK, Inputs
      <4> QED  BY <4>1 DEF EndCursor
    <3> QED  BY <1>1, <1>2, <3>1 DEF TypeOK
  <2> QED  BY <1>1, <1>2, <1>3, <2>1, <2>2, <2>3, OverFacts DEF TypeOK
<1>7. Held'
  BY <1>1, <1>2, OverFacts
<1>8. Answered'
  <2>1. \A i, j \in DOMAIN items[s] :
          i < j => ~Before(items[s][j].product, items[s][i].product)
    BY <1>1, <1>2 DEF Held
  <2>2. \A i \in DOMAIN items[s] : Id(items[s][i]) \in StoredBy(s)
    BY DEF StoredBy
  <2> QED  BY <1>1, <2>1, <2>2 DEF Answered, AnswersAreStored
<1>9. Walked'
  <2>1. CASE s # Viewer
    BY <1>1, <1>2, <2>1, OverFacts, WalkFrame DEF Searches
  <2>2. CASE uneven
    BY <1>1, <2>2 DEF Walked
  <2>3. ASSUME s = Viewer, ~uneven PROVE Walked'
    <3> DEFINE n == Base(walk.page, walk.first)
               to == Lesser(n + walk.first, Len(upstream))
    <3>1. /\ input[Viewer] = Plain(walk.page, walk.first) /\ walk.page # 0 /\ walk.first # 0
          /\ n <= Len(upstream) /\ Len(got) = n /\ ToSet(got) = Listed(upstream, 1, n)
          /\ Len(items[Viewer]) = to - n
          /\ IdsOf(items[Viewer]) = Listed(upstream, n + 1, to)
          /\ more[Viewer] <=> Len(items[Viewer]) = walk.first
      BY <1>1, <1>2, <2>3 DEF Walked
    <3>2. walk \in [page : Nat, first : 0..MaxSize]
          /\ walk.page \in Nat \ {0} /\ walk.first \in Nat \ {0}
      BY <1>2, <3>1, CatalogAssumption DEF TypeOK
    <3>3. n \in Nat /\ Base(walk.page + 1, walk.first) = n + walk.first
      BY <3>2, BaseFacts
    <3>4. upstream \in Seq(Ids) /\ Len(upstream) \in Nat /\ DOMAIN upstream = 1..Len(upstream)
          /\ got \in Seq(Ids)
      <4>1. upstream \in Seq(Ids) /\ got \in Seq(Ids)
        BY <1>2, CatalogAssumption DEF TypeOK
      <4> QED  BY <4>1
    <3>5. /\ to \in Nat /\ n <= to /\ to <= n + walk.first /\ to <= Len(upstream)
          /\ to = n + walk.first \/ to = Len(upstream)
      BY <3>1, <3>2, <3>3, <3>4 DEF Lesser
    <3> HIDE DEF n, to
    <3>6. got' = got \o ids
      BY <1>1, <2>3 DEF ids
    <3>7. Len(got') = to /\ ToSet(got') = Listed(upstream, 1, to)
      <4>1. /\ got' \in Seq(Ids) /\ Len(got') = Len(got) + Len(ids)
            /\ \A i \in 1..Len(got) + Len(ids) :
                 got'[i] = IF i <= Len(got) THEN got[i] ELSE ids[i - Len(got)]
        BY <1>5, <3>4, <3>6, ConcatProperties
      <4>2. Len(got) = n /\ Len(ids) = to - n
        BY <1>5, <2>3, <3>1
      <4>3. Len(got') = to /\ DOMAIN got' = 1..to /\ DOMAIN got = 1..n
            /\ DOMAIN ids = 1..to - n
        <5>1. DOMAIN got' = 1..Len(got') /\ DOMAIN got = 1..Len(got)
          BY <3>4, <4>1
        <5>2. DOMAIN ids = 1..Len(ids)
          BY <1>5
        <5>3. Len(got') = to
          BY <3>3, <3>5, <4>1, <4>2
        <5> QED  BY <4>2, <5>1, <5>2, <5>3
      <4>4. \A i \in 1..n : got'[i] = got[i] /\ i \in 1..to
        BY <3>3, <3>5, <4>1, <4>2
      <4>5. \A i \in n + 1..to : got'[i] = ids[i - n] /\ i - n \in 1..to - n /\ i \in 1..to
        BY <3>3, <3>5, <4>1, <4>2
      <4>6. \A i \in 1..to - n : got'[n + i] = ids[i] /\ n + i \in 1..to
        <5> SUFFICES ASSUME NEW i \in 1..to - n PROVE got'[n + i] = ids[i] /\ n + i \in 1..to
          OBVIOUS
        <5>1. n + i \in n + 1..to /\ (n + i) - n = i
          BY <3>3, <3>5
        <5> QED  BY <4>5, <5>1
      <4>7. ToSet(got') = ToSet(got) \cup {ids[i] : i \in DOMAIN ids}
        <5>1. ASSUME NEW i \in 1..to PROVE i \in 1..n \/ i \in n + 1..to
          BY <3>3, <3>5
        <5>2. ASSUME NEW x \in ToSet(got')
              PROVE  x \in ToSet(got) \cup {ids[i] : i \in DOMAIN ids}
          <6>1. PICK i \in 1..to : x = got'[i]
            BY <4>3 DEF ToSet
          <6>2. CASE i \in 1..n
            BY <4>3, <4>4, <6>1, <6>2 DEF ToSet
          <6>3. CASE i \in n + 1..to
            BY <4>3, <4>5, <6>1, <6>3
          <6> QED  BY <5>1, <6>2, <6>3
        <5>3. ToSet(got) \subseteq ToSet(got')
          BY <4>3, <4>4 DEF ToSet
        <5>4. {ids[i] : i \in DOMAIN ids} \subseteq ToSet(got')
          BY <4>3, <4>6 DEF ToSet
        <5> QED  BY <5>2, <5>3, <5>4
      <4>8. Listed(upstream, 1, n) \cup Listed(upstream, n + 1, to) = Listed(upstream, 1, to)
        <5>1. \A k \in 1..to : k \in 1..n \/ k \in n + 1..to
          BY <3>3, <3>5
        <5>2. (\A k \in 1..n : k \in 1..to) /\ \A k \in n + 1..to : k \in 1..to
          BY <3>3, <3>5
        <5> QED  BY <5>1, <5>2 DEF Listed
      <4> QED  BY <1>5, <2>3, <3>1, <4>3, <4>7, <4>8
    <3>8. phase'[Viewer] = "idle"
      BY <1>1, <1>2, <2>3, OverFacts
    <3>9. walk'.first = walk.first
          /\ walk'.page = IF more[Viewer] THEN walk.page + 1 ELSE 0
      BY <1>1, <2>3, <3>1, <3>2 DEF EndCursor, Plain
    <3>10. CASE more[Viewer]
      <4>1. to = n + walk.first
        BY <3>1, <3>2, <3>3, <3>5, <3>10
      <4>2. Base(walk'.page, walk'.first) = to /\ walk'.page # 0
        BY <3>2, <3>3, <3>9, <3>10, <4>1
      <4> QED  BY <1>1, <3>1, <3>5, <3>7, <3>8, <3>9, <4>2 DEF Walked
    <3>11. CASE ~more[Viewer]
      <4>1. to = Len(upstream)
        BY <3>1, <3>2, <3>3, <3>5, <3>11
      <4>2. ToSet(upstream) = Listed(upstream, 1, to)
        BY <3>4, <4>1 DEF ToSet, Listed
      <4>3. walk'.page = 0
        BY <3>9, <3>11
      <4> QED  BY <1>1, <3>1, <3>7, <3>8, <3>9, <4>1, <4>2, <4>3 DEF Walked
    <3> QED  BY <3>10, <3>11
  <2> QED  BY <2>1, <2>2, <2>3
<1> QED  BY <1>6, <1>7, <1>8, <1>9 DEF Inv

-----------------------------------------------------------------------------
\* What is known of the searches in every state.
THEOREM SearchesInvariant == Spec => []Inv
<1>1. ASSUME Inv, [Next]_vars PROVE Inv'
  <2>1. CASE Ask
    BY <1>1, <2>1, AskInv
  <2>2. ASSUME NEW s \in Tools, AskTool(s) PROVE Inv'
    BY <1>1, <2>2, AskToolInv
  <2>3. ASSUME NEW s \in Searches, Fetch(s) PROVE Inv'
    BY <1>1, <2>3, FetchInv
  <2>4. ASSUME NEW s \in Searches, Inventory(s) PROVE Inv'
    BY <1>1, <2>4, InventoryInv
  <2>5. ASSUME NEW s \in Searches, Lock(s) PROVE Inv'
    BY <1>1, <2>5, LockInv
  <2>6. ASSUME NEW s \in Searches, Commit(s) PROVE Inv'
    BY <1>1, <2>6, CommitInv
  <2>7. ASSUME NEW s \in Searches, FetchFails(s) \/ SaveFails(s) PROVE Inv'
    BY <1>1, <2>7, FailInv DEF FetchFails, SaveFails
  <2>8. CASE UNCHANGED vars
    <3>1. TypeOK' /\ Held' /\ Answered'
      BY <1>1, <2>8 DEF Inv, TypeOK, Held, Answered, AnswersAreStored, vars
    <3>2. Walked'
      BY <1>1, <2>8, WalkFrame DEF Inv, vars
    <3> QED  BY <3>1, <3>2 DEF Inv
  <2> QED  BY <1>1, <2>1, <2>2, <2>3, <2>4, <2>5, <2>6, <2>7, <2>8 DEF Next, Step
<1> QED  BY <1>1, InitInv, PTL DEF Spec

\* Type correctness of the searches, the rows' locks and the walk: no answer holds
\* more than was asked for, and only products that it has are asked about.
THEOREM TypeCorrect == Spec => []TypeOK
<1>1. Inv => TypeOK
  BY DEF Inv
<1> QED  BY <1>1, SearchesInvariant, PTL

\* Every answer is stored and in the documented order, whatever stock was found
\* meanwhile and whoever waited for whom; and a walk in pages of one size returns
\* as many products as the list has, and the same, whichever searches failed.
THEOREM SearchesAnswerRight == Spec => []AnswersAreRight
<1>1. ASSUME Inv PROVE AnswersAreRight
  <2>1. TypeOK /\ Answered /\ Walked
    BY <1>1 DEF Inv
  <2>2. AnswersAreRanked
    <3> SUFFICES ASSUME NEW i \in DOMAIN answer, NEW j \in DOMAIN answer, i < j
                 PROVE  ~Better(answer[j].product, answer[i].product)
      BY DEF AnswersAreRanked
    <3>1. answer \in Seq(Found)
      BY <2>1 DEF TypeOK
    <3>2. answer[i] \in Found /\ answer[j] \in Found
      BY <3>1
    <3>3. answer[i].product \in Products /\ answer[j].product \in Products
      BY <3>2 DEF Found
    <3>4. ~Before(answer[j].product, answer[i].product)
      BY <2>1 DEF Answered
    <3> QED  BY <3>3, <3>4, RankedAsDocumented
  <2>3. WalkIsExact
    BY <2>1 DEF Walked, WalkIsExact
  <2> QED  BY <2>1, <2>2, <2>3 DEF AnswersAreRight, Answered
<1> QED  BY <1>1, SearchesInvariant, PTL
=============================================================================
