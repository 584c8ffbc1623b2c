--------------------------- MODULE NeutralRanking ---------------------------
(***************************************************************************)
(* neutral-ranking.ts: the order in which products are shown, of whichever *)
(* shop they are.  A comparison is negative where its left side comes      *)
(* first, as for Array.prototype.sort.  Ids are integers in the order      *)
(* localeCompare gives to uuids.                                           *)
(***************************************************************************)
EXTENDS Integers, Sequences, FiniteSets

CONSTANT NoEstimate  \* deliveryEstimateDays: null

ASSUME RankingAssumption == NoEstimate \notin Int

Products == [relevanceBucket : Int, inStock : BOOLEAN, totalAmountMinor : Int,
             deliveryEstimateDays : Int \cup {NoEstimate}, ratingConfidence : Int,
             freshnessEpochMs : Int, id : Int]

Number(boolean) == IF boolean THEN 1 ELSE 0

CompareBooleanDesc(left, right) == Number(right) - Number(left)
CompareNumberDesc(left, right) == right - left

CompareNullableNumberAsc(left, right) ==
  IF left = NoEstimate THEN IF right = NoEstimate THEN 0 ELSE 1
  ELSE IF right = NoEstimate THEN -1 ELSE left - right

CompareMoneyAsc(left, right) ==
  IF left < right THEN -1 ELSE IF left > right THEN 1 ELSE 0

\* left || right
Or(left, right) == IF left # 0 THEN left ELSE right

\* Mutant: the price before the stock.
ComparePriceFirst(left, right) ==
  Or(CompareNumberDesc(left.relevanceBucket, right.relevanceBucket),
  Or(CompareMoneyAsc(left.totalAmountMinor, right.totalAmountMinor),
  Or(CompareBooleanDesc(left.inStock, right.inStock),
  Or(CompareNullableNumberAsc(left.deliveryEstimateDays, right.deliveryEstimateDays),
  Or(CompareNumberDesc(left.ratingConfidence, right.ratingConfidence),
  Or(CompareNumberDesc(left.freshnessEpochMs, right.freshnessEpochMs),
     left.id - right.id))))))

CompareProduct(left, right) ==
  Or(CompareNumberDesc(left.relevanceBucket, right.relevanceBucket),
  Or(CompareBooleanDesc(left.inStock, right.inStock),
  Or(CompareMoneyAsc(left.totalAmountMinor, right.totalAmountMinor),
  Or(CompareNullableNumberAsc(left.deliveryEstimateDays, right.deliveryEstimateDays),
  Or(CompareNumberDesc(left.ratingConfidence, right.ratingConfidence),
  Or(CompareNumberDesc(left.freshnessEpochMs, right.freshnessEpochMs),
     left.id - right.id))))))

Before(left, right) == CompareProduct(left, right) < 0

\* sort() leaves products that tie in the order it found them.
Precedes(products, i, j) ==
  IF i < j THEN ~Before(products[j], products[i]) ELSE Before(products[i], products[j])

\* The products at some places, ranked: whose place comes first, second...
Ranking(products, places) ==
  [n \in 1..Cardinality(places) |->
     CHOOSE i \in places :
       Cardinality({j \in places : Precedes(products, j, i)}) = n - 1]

-----------------------------------------------------------------------------
\* The documented order, key by key, the smaller the better: relevance, stock,
\* total price, delivery (unknown ones last), confidence, freshness, id.
Keys(p) == <<-p.relevanceBucket, IF p.inStock THEN 0 ELSE 1, p.totalAmountMinor,
             IF p.deliveryEstimateDays = NoEstimate THEN 1 ELSE 0,
             IF p.deliveryEstimateDays = NoEstimate THEN 0 ELSE p.deliveryEstimateDays,
             -p.ratingConfidence, -p.freshnessEpochMs, p.id>>

Better(p, q) == \E k \in 1..8 : /\ Keys(p)[k] < Keys(q)[k]
                                /\ \A j \in 1..k - 1 : Keys(p)[j] = Keys(q)[j]
=============================================================================
