--------------------------- MODULE PropertyMatching ---------------------------
(***************************************************************************)
(* What a property match run makes of the county's parcels                 *)
(* (properties/resolution.py): which of them are candidates, how well each *)
(* fits the incident, and whether one stands out.                          *)
(*                                                                         *)
(* A parcel is described by how it compares with the incident, component   *)
(* by component of the two addresses; how similar two street names are and *)
(* how near two points is given, in hundredths.  Scores are exact ratios   *)
(* where the code has floating point.  The caps on a pool (500) and on the *)
(* candidates kept (20) are not reached.                                   *)
(***************************************************************************)
EXTENDS Integers, FiniteSets

LowPrecision == {"street_block", "intersection", "landmark", "highway", "approximate", "unusable"}
ExactPrecision == {"exact_address", "exact_address_with_unit"}

\* Of a component that one side does not give, nothing is known.
Comparison == {"agrees", "differs", "open"}
Unknown == -1
Hundredths == 0..100 \cup {Unknown}

NoParcel == 0
Parcel ==
    [id : Nat \ {NoParcel},
     reach : {"indexed", "broad", "none"},  \* the first search that finds it
     house : Comparison, name : {"agrees", "differs"}, type : Comparison,
     prefix : Comparison, suffix : Comparison, unit : Comparison,
     normal : BOOLEAN,          \* the normalized addresses are the same
     municipality : Comparison, postal_code : Comparison, grid : Comparison,
     street : Hundredths, near : Hundredths, use : Hundredths,
     is_unit : BOOLEAN, units : Nat, master : Nat,
     doubtful : BOOLEAN,        \* stale data or an invalid geometry
     sourced : BOOLEAN,         \* it has a row in the import that is matched against
     segment : BOOLEAN]         \* that row's use is a published property segment

\* The incident's address, and the parcels that are active.
Pool ==
    [parsed : ExactPrecision \cup LowPrecision, label : LowPrecision \cup {"none"},
     unit : BOOLEAN, parcels : SUBSET Parcel]

\* The parcels of a table are finitely many, each with its own id.
Distinct(pool) ==
    /\ IsFiniteSet(pool.parcels)
    /\ \A c, d \in pool.parcels : c.id = d.id => c = d

\* A provider's label for a coarse place overrules what the parser made of the address.
PrecisionOf(pool) == IF pool.label # "none" THEN pool.label ELSE pool.parsed

----------------------------------------------------------------------------
(* The candidates *)

CoreMatches(c) ==
    /\ c.house = "agrees"
    /\ c.name = "agrees"
    /\ "differs" \notin {c.type, c.prefix, c.suffix, c.unit}

Reached(pool, reach) == {c \in pool.parcels : c.reach = reach}

\* Broad searches are made only when the indexed ones find nothing.
Hits(pool) ==
    IF Reached(pool, "indexed") # {} THEN Reached(pool, "indexed") ELSE Reached(pool, "broad")

\* With an exact address, those that match its core drop the others.
Narrowed(pool) ==
    LET core == {c \in Hits(pool) : CoreMatches(c)}
    IN  IF PrecisionOf(pool) \in ExactPrecision /\ core # {} THEN core ELSE Hits(pool)

\* The masters and the units of what was found join it; if nothing was, all do.
CandidatesOf(pool) ==
    LET found == Narrowed(pool)
    IN  IF found = {} THEN pool.parcels
        ELSE found \cup {c \in pool.parcels :
                \E d \in found : d.master = c.id \/ c.master = d.id}

----------------------------------------------------------------------------
(* Their scores *)

Agreement(comparison) ==
    CASE comparison = "agrees" -> 100
      [] comparison = "differs" -> 0
      [] OTHER -> Unknown

AddressExact(c) == c.normal \/ CoreMatches(c)

\* Fault: an address that is not the same says nothing.
ExactOrUnknown(c) == IF AddressExact(c) THEN 100 ELSE Unknown

AddressAgreement(c) == IF AddressExact(c) THEN 100 ELSE 0

Weighed(weight, value) == IF value = Unknown THEN 0 ELSE weight * value

Weighing(c, of(_, _)) ==
    of(28, AddressAgreement(c)) + of(18, Agreement(c.house)) + of(16, c.street)
      + of(6, Agreement(c.type)) + of(4, Agreement(c.prefix)) + of(8, Agreement(c.unit))
      + of(6, Agreement(c.municipality)) + of(5, Agreement(c.postal_code))
      + of(4, Agreement(c.grid)) + of(3, c.near) + of(2, c.use)

\* The weighted mean of what is known is Points / Weights, in hundredths.
Points(c) == Weighing(c, Weighed)
Weights(c) == Weighing(c, LAMBDA weight, value : IF value = Unknown THEN 0 ELSE weight)

Ahead(c, d) ==
    \/ Points(c) * Weights(d) > Points(d) * Weights(c)
    \/ Points(c) * Weights(d) = Points(d) * Weights(c) /\ c.id < d.id

Best(candidates) == CHOOSE c \in candidates : \A d \in candidates \ {c} : Ahead(c, d)

----------------------------------------------------------------------------
(* The run *)

MATCH_THRESHOLD == 78
MARGIN_THRESHOLD == 10

\* The best candidate is good enough and far enough ahead of the next.
Separated(candidates) ==
    LET best == Best(candidates)
        rest == candidates \ {best}
        next == Best(rest)
    IN  /\ Points(best) >= MATCH_THRESHOLD * Weights(best)
        /\ rest # {} => Points(best) * Weights(next) - Points(next) * Weights(best)
                            >= MARGIN_THRESHOLD * Weights(best) * Weights(next)

\* Several units are at the address, and it does not say which is meant.
Ambiguous(pool) ==
    /\ ~pool.unit
    /\ Cardinality({c \in CandidatesOf(pool) : CoreMatches(c) /\ (c.is_unit \/ c.units > 1)}) > 1

\* All candidates are units of the one site, none of them under a master parcel.
SiteMatched(pool) ==
    /\ Ambiguous(pool)
    /\ PrecisionOf(pool) = "exact_address"
    /\ \A c \in CandidatesOf(pool) : CoreMatches(c) /\ c.is_unit /\ c.master = NoParcel

StatusOf(pool) ==
    IF CandidatesOf(pool) = {} \/ PrecisionOf(pool) \in LowPrecision THEN "abstained"
    ELSE IF SiteMatched(pool) THEN "site_matched"
    ELSE IF Ambiguous(pool) THEN "abstained"
    ELSE IF Separated(CandidatesOf(pool)) THEN "matched"
    ELSE "human_review"

MatchStatus == {"matched", "site_matched", "human_review", "abstained"}
\* Of a candidate: whether its address is the incident's, and what the import has of it:
\* an incremental one leaves parcels out.
Facts == [exact : BOOLEAN, sourced : BOOLEAN, segment : BOOLEAN]
\* Of a run: its status, whether its first candidate is recommended (its data is not
\* doubtful), that candidate, and all that a reviewer may choose from.
Found ==
    [status : MatchStatus, recommended : BOOLEAN, first : Facts, candidates : SUBSET Facts]

NoFacts == [exact |-> FALSE, sourced |-> FALSE, segment |-> FALSE]
FactsOf(c) ==
    [exact |-> AddressExact(c), sourced |-> c.sourced, segment |-> c.sourced /\ c.segment]

FoundIn(pool) ==
    LET best == Best(CandidatesOf(pool))
    IN  [status |-> StatusOf(pool),
         recommended |-> StatusOf(pool) = "matched" /\ ~best.doubtful,
         first |-> IF CandidatesOf(pool) = {} THEN NoFacts ELSE FactsOf(best),
         candidates |-> {FactsOf(c) : c \in CandidatesOf(pool)}]
=============================================================================
