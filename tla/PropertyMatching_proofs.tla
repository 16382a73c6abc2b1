----------------------- MODULE PropertyMatching_proofs -----------------------
(***************************************************************************)
(* What a match is worth: the arithmetic of the weights and thresholds.    *)
(***************************************************************************)
EXTENDS PropertyMatching, WellFoundedInduction, FiniteSetTheorems, TLAPS

\* What a value weighs when it is known, as Weights counts it.
Known(weight, value) == IF value = Unknown THEN 0 ELSE weight

LEMMA ComparisonsAreHundredths ==
    ASSUME NEW c \in Parcel
    PROVE  /\ {Agreement(c.house), Agreement(c.type), Agreement(c.prefix), Agreement(c.unit),
               Agreement(c.municipality), Agreement(c.postal_code), Agreement(c.grid),
               c.street, c.near, c.use} \subseteq Hundredths
           /\ AddressAgreement(c) \in {0, 100}
           /\ ~AddressExact(c) => AddressAgreement(c) = 0
BY DEF Parcel, Comparison, Hundredths, Agreement, AddressAgreement, Unknown

LEMMA WeighedBounded ==
    ASSUME NEW weight \in Nat, NEW value \in Hundredths
    PROVE  /\ Weighed(weight, value) \in Int /\ Known(weight, value) \in 0..weight
           /\ 0 <= Weighed(weight, value)
           /\ Weighed(weight, value) <= 100 * Known(weight, value)
<1>1. CASE value = Unknown
    BY <1>1 DEF Weighed, Known
<1>2. CASE value # Unknown
    <2>1. value \in 0..100
        BY <1>2 DEF Hundredths
    <2>2. weight * value \in Int /\ 0 <= weight * value /\ weight * value <= 100 * weight
        BY <2>1
    <2>3. QED
        BY <1>2, <2>2 DEF Weighed, Known
<1>3. QED
    BY <1>1, <1>2

LEMMA WeightsBounded ==
    ASSUME NEW c \in Parcel
    PROVE  Weights(c) \in 28..100
BY DEF Parcel, Hundredths, Comparison, Unknown, Weights, Weighing, Agreement, AddressAgreement

LEMMA PointsBounded ==
    ASSUME NEW c \in Parcel
    PROVE  /\ Points(c) \in Nat
           /\ ~AddressExact(c) => Points(c) <= 100 * Weights(c) - 2800
<1> DEFINE P(weight, value) == Weighed(weight, value)
           W(weight, value) == Known(weight, value)
<1>1. \A weight \in Nat, value \in Hundredths :
        /\ P(weight, value) \in Int /\ W(weight, value) \in Int
        /\ 0 <= P(weight, value)
        /\ P(weight, value) <= 100 * W(weight, value)
    BY WeighedBounded
<1>2. Weights(c) =
        W(28, AddressAgreement(c)) + W(18, Agreement(c.house)) + W(16, c.street)
          + W(6, Agreement(c.type)) + W(4, Agreement(c.prefix)) + W(8, Agreement(c.unit))
          + W(6, Agreement(c.municipality)) + W(5, Agreement(c.postal_code))
          + W(4, Agreement(c.grid)) + W(3, c.near) + W(2, c.use)
    BY Zenon DEF Weights, Weighing, Known
<1>3. Points(c) =
        P(28, AddressAgreement(c)) + P(18, Agreement(c.house)) + P(16, c.street)
          + P(6, Agreement(c.type)) + P(4, Agreement(c.prefix)) + P(8, Agreement(c.unit))
          + P(6, Agreement(c.municipality)) + P(5, Agreement(c.postal_code))
          + P(4, Agreement(c.grid)) + P(3, c.near) + P(2, c.use)
    BY Zenon DEF Points, Weighing
<1>4. /\ AddressAgreement(c) \in Hundredths
      /\ W(28, AddressAgreement(c)) = 28
      /\ ~AddressExact(c) => P(28, AddressAgreement(c)) = 0
    BY ComparisonsAreHundredths DEF Hundredths, Unknown, Known, Weighed
<1> HIDE DEF P, W
<1> DEFINE Bounded(weight, value) ==
        /\ P(weight, value) \in Int /\ W(weight, value) \in Int
        /\ 0 <= P(weight, value)
        /\ P(weight, value) <= 100 * W(weight, value)
<1>5. /\ Bounded(28, AddressAgreement(c)) /\ Bounded(18, Agreement(c.house))
      /\ Bounded(16, c.street) /\ Bounded(6, Agreement(c.type))
      /\ Bounded(4, Agreement(c.prefix)) /\ Bounded(8, Agreement(c.unit))
      /\ Bounded(6, Agreement(c.municipality)) /\ Bounded(5, Agreement(c.postal_code))
      /\ Bounded(4, Agreement(c.grid)) /\ Bounded(3, c.near) /\ Bounded(2, c.use)
    <2>1. \A weight \in Nat, value \in Hundredths : Bounded(weight, value)
        BY <1>1
    <2> HIDE DEF Bounded
    <2>2. QED
        BY <2>1, <1>4, ComparisonsAreHundredths
<1>6. QED
    BY <1>2, <1>3, <1>4, <1>5

\* However little is known of a parcel, what reaches the threshold of a match is at the
\* incident's own address: no sum of near-misses does (_score_candidate's weights).
THEOREM ThresholdNeedsTheAddress ==
    ASSUME NEW c \in Parcel, Points(c) >= MATCH_THRESHOLD * Weights(c)
    PROVE  AddressExact(c)
BY WeightsBounded, PointsBounded DEF MATCH_THRESHOLD

----------------------------------------------------------------------------
(* Ahead is an order, so a finite set of parcels has a best one *)

LEMMA ScaledProduct ==
    ASSUME NEW a \in Nat, NEW b \in Nat, NEW k \in Nat, a >= b
    PROVE  a * k >= b * k
OBVIOUS

\* Fractions x/u, y/v, z/w, the middle one with a positive denominator.
LEMMA RatioOrder ==
    ASSUME NEW x \in Nat, NEW y \in Nat, NEW z \in Nat,
           NEW u \in Nat \ {0}, NEW v \in Nat \ {0}, NEW w \in Nat \ {0},
           x * v >= y * u, y * w >= z * v
    PROVE  /\ x * w >= z * u
           /\ x * v > y * u \/ y * w > z * v => x * w > z * u
<1>1. (x * v) * w >= (y * u) * w /\ (y * w) * u >= (z * v) * u
    BY ScaledProduct
<1>2. /\ x * v > y * u => (x * v) * w > (y * u) * w
      /\ y * w > z * v => (y * w) * u > (z * v) * u
    OBVIOUS
<1>3. /\ (x * v) * w = (x * w) * v /\ (y * u) * w = (y * w) * u
      /\ (z * v) * u = (z * u) * v
    OBVIOUS
<1>4. (x * w) * v >= (z * u) * v
    BY <1>1, <1>3
<1>5. x * w < z * u => (x * w) * v < (z * u) * v
    OBVIOUS
<1>6. x * w = z * u => (x * w) * v = (z * u) * v
    OBVIOUS
<1>7. QED
    BY <1>1, <1>2, <1>3, <1>4, <1>5, <1>6

LEMMA AheadOrders ==
    ASSUME NEW c \in Parcel, NEW d \in Parcel, NEW e \in Parcel
    PROVE  /\ ~Ahead(c, c)
           /\ Ahead(c, d) /\ Ahead(d, e) => Ahead(c, e)
           /\ c.id # d.id => Ahead(c, d) \/ Ahead(d, c)
<1>1. /\ {c.id, d.id, e.id} \subseteq Nat
      /\ {Points(c), Points(d), Points(e)} \subseteq Nat
      /\ {Weights(c), Weights(d), Weights(e)} \subseteq Nat \ {0}
    BY WeightsBounded, PointsBounded DEF Parcel
<1>2. ~Ahead(c, c)
    BY <1>1 DEF Ahead
<1>3. Ahead(c, d) /\ Ahead(d, e) => Ahead(c, e)
    <2>1. SUFFICES ASSUME Ahead(c, d), Ahead(d, e)
                   PROVE  Ahead(c, e)
        OBVIOUS
    <2>2. /\ Points(c) * Weights(d) >= Points(d) * Weights(c)
          /\ Points(d) * Weights(e) >= Points(e) * Weights(d)
        BY <1>1, <2>1 DEF Ahead
    <2>3. Points(c) * Weights(e) >= Points(e) * Weights(c)
        BY <1>1, <2>2, RatioOrder
    <2>4. CASE \/ Points(c) * Weights(d) > Points(d) * Weights(c)
               \/ Points(d) * Weights(e) > Points(e) * Weights(d)
        BY <1>1, <2>2, <2>4, RatioOrder DEF Ahead
    <2>5. CASE c.id < d.id /\ d.id < e.id
        BY <1>1, <2>3, <2>5 DEF Ahead
    <2>6. QED
        BY <2>1, <2>4, <2>5 DEF Ahead
<1>4. c.id # d.id => Ahead(c, d) \/ Ahead(d, c)
    BY <1>1 DEF Ahead
<1>5. QED
    BY <1>2, <1>3, <1>4

\* What is ahead of a first one would be the smallest such set, but it is not empty.
LEMMA BestIsFirst ==
    ASSUME NEW S \in SUBSET Parcel, IsFiniteSet(S), S # {},
           \A c, d \in S : c.id = d.id => c = d
    PROVE  /\ Best(S) \in S
           /\ \A d \in S \ {Best(S)} : Ahead(Best(S), d)
<1> DEFINE Above(c) == {d \in S : Ahead(d, c)}
           T == {Above(c) : c \in S}
<1>1. IsWellFoundedOn(StrictSubsetOrdering(S), SUBSET S)
    BY FS_StrictSubsetOrderingWellFounded, FS_FiniteSubsetsOfFinite
<1>2. T \subseteq SUBSET S /\ T # {}
    <2>1. \A c \in S : Above(c) \in SUBSET S
        OBVIOUS
    <2>2. PICK c \in S : TRUE
        OBVIOUS
    <2> HIDE DEF Above
    <2>3. T \subseteq SUBSET S
        BY <2>1
    <2>4. Above(c) \in T
        OBVIOUS
    <2>5. QED
        BY <2>3, <2>4
<1>3. \E x \in T : \A y \in T : <<y, x>> \notin StrictSubsetOrdering(S)
    <2> HIDE DEF T
    <2>1. QED
        BY <1>1, <1>2, WFMin
<1>4. PICK c \in S : \A d \in S : <<Above(d), Above(c)>> \notin StrictSubsetOrdering(S)
    <2> HIDE DEF Above
    <2>1. QED
        BY <1>3, Zenon
<1>5. Above(c) = {}
    <2>1. SUFFICES ASSUME NEW d \in Above(c)
                   PROVE  FALSE
        OBVIOUS
    <2>2. d \in S /\ Ahead(d, c) /\ d \in Parcel /\ c \in Parcel
        OBVIOUS
    <2>3. Above(d) \subseteq Above(c)
        BY <2>2, AheadOrders
    <2>4. d \notin Above(d)
        BY <2>2, AheadOrders
    <2>5. <<Above(d), Above(c)>> \in StrictSubsetOrdering(S)
        BY <2>3, <2>4 DEF StrictSubsetOrdering
    <2>6. QED
        BY <1>4, <2>2, <2>5
<1>6. \A d \in S \ {c} : Ahead(c, d)
    <2>1. SUFFICES ASSUME NEW d \in S \ {c}
                   PROVE  Ahead(c, d)
        OBVIOUS
    <2>2. d.id # c.id /\ ~Ahead(d, c)
        BY <1>5
    <2>3. QED
        BY <2>2, AheadOrders
<1>7. QED
    BY <1>6 DEF Best

----------------------------------------------------------------------------

LEMMA CandidatesInPool ==
    ASSUME NEW pool \in Pool
    PROVE  CandidatesOf(pool) \in SUBSET pool.parcels /\ pool.parcels \in SUBSET Parcel
BY DEF CandidatesOf, Narrowed, Hits, Reached, Pool

LEMMA FactsAreFacts ==
    ASSUME NEW c \in Parcel
    PROVE  FactsOf(c) \in Facts
<1>1. {c.sourced, c.sourced /\ c.segment} \subseteq BOOLEAN
    BY DEF Parcel
<1>2. AddressExact(c) \in BOOLEAN
    BY DEF AddressExact, CoreMatches, Parcel
<1>3. QED
    BY <1>1, <1>2 DEF FactsOf, Facts

\* A run that is "matched" has a first candidate, and it is at the incident's address.
THEOREM MatchedIsExact ==
    ASSUME NEW pool \in Pool, Distinct(pool)
    PROVE  FoundIn(pool).status = "matched" =>
            FoundIn(pool).first \in FoundIn(pool).candidates /\ FoundIn(pool).first.exact
<1> DEFINE S == CandidatesOf(pool)
           best == Best(S)
<1>1. SUFFICES ASSUME StatusOf(pool) = "matched"
               PROVE  S # {} /\ best \in S /\ AddressExact(best)
    BY DEF FoundIn, FactsOf
<1>2. S # {} /\ Separated(S)
    BY <1>1 DEF StatusOf
<1>3. S \in SUBSET Parcel /\ IsFiniteSet(S) /\ \A c, d \in S : c.id = d.id => c = d
    BY CandidatesInPool, FS_Subset DEF Distinct
<1> HIDE DEF S
<1>4. best \in S /\ best \in Parcel
    BY <1>2, <1>3, BestIsFirst
<1>5. Points(best) >= MATCH_THRESHOLD * Weights(best)
    BY <1>2 DEF Separated
<1> HIDE DEF best
<1>6. QED
    BY <1>2, <1>4, <1>5, ThresholdNeedsTheAddress

LEMMA FoundInIsFound ==
    ASSUME NEW pool \in Pool, Distinct(pool)
    PROVE  FoundIn(pool) \in Found
<1> DEFINE S == CandidatesOf(pool)
           facts == {FactsOf(c) : c \in S}
           first == IF S = {} THEN NoFacts ELSE FactsOf(Best(S))
<1>1. S \in SUBSET Parcel /\ IsFiniteSet(S) /\ \A c, d \in S : c.id = d.id => c = d
    BY CandidatesInPool, FS_Subset DEF Distinct
<1>2. StatusOf(pool) \in MatchStatus
    BY DEF StatusOf, MatchStatus
<1>3. StatusOf(pool) = "matched" => S # {}
    BY DEF StatusOf
<1> HIDE DEF S
<1>4. S # {} => Best(S) \in Parcel
    BY <1>1, BestIsFirst
<1>5. (StatusOf(pool) = "matched" /\ ~Best(S).doubtful) \in BOOLEAN
    BY <1>3, <1>4 DEF Parcel
<1>6. facts \in SUBSET Facts
    BY <1>1, FactsAreFacts
<1>7. first \in Facts
    BY <1>4, FactsAreFacts DEF NoFacts, Facts
<1> DEFINE recommended == StatusOf(pool) = "matched" /\ ~Best(S).doubtful
<1>8. FoundIn(pool) = [status |-> StatusOf(pool), recommended |-> recommended,
                       first |-> first, candidates |-> facts]
    BY Zenon DEF FoundIn, S
<1> HIDE DEF facts, first, recommended
<1>9. QED
    BY <1>2, <1>5, <1>6, <1>7, <1>8 DEF Found, recommended
=============================================================================
