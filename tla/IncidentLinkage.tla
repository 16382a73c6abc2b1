---------------------------- MODULE IncidentLinkage ----------------------------
(***************************************************************************)
(* Whether a new observation belongs to an incident, judged from the       *)
(* observations the incident has (incidents/linkage.py).                   *)
(*                                                                         *)
(* Facts is what the rows say; how alike two addresses are and what the    *)
(* weighted sum of all features comes to is given, in hundredths.  A time  *)
(* similarity is exp(-minutes / 120), so its thresholds are minutes here.  *)
(* Every row has an event time.  Two rows of one source record are never   *)
(* compared: the record's alias decides before (IncidentLedger).           *)
(***************************************************************************)
EXTENDS Integers, FiniteSets

CONSTANTS
    Obs,            \* dispatch observations
    Identifier,     \* source event ids, case numbers, agencies
    Unstated,       \* an identifier that a row does not give
    Facts,          \* observation -> what its row says
    Alike,          \* two observations -> address_similarity
    Rated           \* two observations -> the weighted sum of the features

ASSUME FactsAssumption ==
    Facts \in [Obs -> [event : Identifier \cup {Unstated}, case : Identifier \cup {Unstated},
                       agency : Identifier \cup {Unstated}, minute : Nat, family : Identifier]]
ASSUME AlikeAssumption == Alike \in [Obs \X Obs -> 0..100]
ASSUME RatedAssumption == Rated \in [Obs \X Obs -> 0..100]

MATCH_THRESHOLD == 88
DETERMINISTIC_TIME_WINDOW_MINUTES == 90
SAME_CASE_EVENT_UPDATE_WINDOW_MINUTES == DETERMINISTIC_TIME_WINDOW_MINUTES
ALTERNATE_CASE_EVENT_DUPLICATE_WINDOW_MINUTES == 5
MAX_CLUSTER_SPAN_HOURS == 24

----------------------------------------------------------------------------
(* Two observations *)

Same(x, y) == x # Unstated /\ x = y
Differ(x, y) == x # Unstated /\ y # Unstated /\ x # y

MinutesApart(o, p) ==
    IF Facts[o].minute >= Facts[p].minute
    THEN Facts[o].minute - Facts[p].minute ELSE Facts[p].minute - Facts[o].minute

SameEvent(o, p) == Same(Facts[o].event, Facts[p].event)
SameAgency(o, p) == Same(Facts[o].agency, Facts[p].agency)
SameCase(o, p) ==
    /\ Same(Facts[o].case, Facts[p].case)
    /\ ~Differ(Facts[o].agency, Facts[p].agency)

\* An identifier in common lifts the sum.
PairScore(o, p) ==
    IF (SameEvent(o, p) \/ SameCase(o, p)) /\ Rated[o, p] < 94 THEN 94 ELSE Rated[o, p]

ReusedEvent(o, p) ==
    /\ SameEvent(o, p)
    /\ \/ Alike[o, p] < 55
       \/ MinutesApart(o, p) >
            IF SameCase(o, p) THEN SAME_CASE_EVENT_UPDATE_WINDOW_MINUTES
            ELSE ALTERNATE_CASE_EVENT_DUPLICATE_WINDOW_MINUTES

ReusedCase(o, p) ==
    /\ Same(Facts[o].case, Facts[p].case) /\ SameAgency(o, p)
    /\ Alike[o, p] < 55 \/ MinutesApart(o, p) > DETERMINISTIC_TIME_WINDOW_MINUTES

IdentifierConflict(o, p) == ReusedEvent(o, p) \/ ReusedCase(o, p)

\* Two cases of one agency at one place, unless an event id says they are the same.
DifferentReliableIds(o, p) ==
    /\ ~(/\ SameEvent(o, p) /\ Alike[o, p] >= 98
         /\ Facts[o].family = Facts[p].family
         /\ MinutesApart(o, p) <= DETERMINISTIC_TIME_WINDOW_MINUTES)
    /\ SameAgency(o, p)
    /\ Differ(Facts[o].case, Facts[p].case)
    /\ Alike[o, p] >= 80 /\ MinutesApart(o, p) <= 180

----------------------------------------------------------------------------
(* An observation and the evidence of an incident *)

\* Fault: the identifiers are not asked of the whole cluster.
SpanAndPlaceOnly(o, evidence) ==
    /\ \A p, q \in evidence \cup {o} : MinutesApart(p, q) <= MAX_CLUSTER_SPAN_HOURS * 60
    /\ \A p \in evidence : ~(Alike[o, p] < 35 /\ MinutesApart(o, p) <= 42)

ClusterIsConsistent(o, evidence) ==
    /\ \A p, q \in evidence \cup {o} : MinutesApart(p, q) <= MAX_CLUSTER_SPAN_HOURS * 60
    /\ \A p \in evidence :
        /\ ~(Alike[o, p] < 35 /\ MinutesApart(o, p) <= 42)
        /\ ~IdentifierConflict(o, p)

\* The best pairs; which of equal ones comes first depends on the order of the rows.
References(o, evidence) ==
    {p \in evidence : \A q \in evidence : PairScore(o, q) <= PairScore(o, p)}

\* A reason that needs no score.  The identifier rules are asked of the best pair, and
\* no conflict with any other.
Deterministic(o, p) ==
    \/ /\ SameEvent(o, p) \/ SameCase(o, p)
       /\ MinutesApart(o, p) <= 95 /\ Alike[o, p] >= 55
    \/ /\ Alike[o, p] >= 98
       /\ MinutesApart(o, p) <= DETERMINISTIC_TIME_WINDOW_MINUTES
       /\ Facts[o].family = Facts[p].family

\* Cases that differ are looked for in the best pair only.
Guarded(o, evidence, p) == ~ClusterIsConsistent(o, evidence) \/ DifferentReliableIds(o, p)

\* The scores it can match with.  A possible match, which somebody should review, is
\* none: the observation gets an incident of its own as if nothing were alike.
MatchScores(o, evidence) ==
    {IF Deterministic(o, p) /\ PairScore(o, p) < 94 THEN 94 ELSE PairScore(o, p) :
        p \in {r \in References(o, evidence) :
                /\ ~Guarded(o, evidence, r)
                /\ Deterministic(o, r) \/ PairScore(o, r) >= MATCH_THRESHOLD}}

MayNotMatch(o, evidence) ==
    \/ evidence = {}
    \/ \E p \in References(o, evidence) :
        \/ Guarded(o, evidence, p)
        \/ ~Deterministic(o, p) /\ PairScore(o, p) < MATCH_THRESHOLD
=============================================================================
