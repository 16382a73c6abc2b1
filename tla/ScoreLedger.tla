----------------------------- MODULE ScoreLedger -----------------------------
(***************************************************************************)
(* The property matches and the opportunity scores of one incident         *)
(* (properties/resolution.py, opportunities/scoring.py): which parcel match*)
(* a score rests on, the gates it passes, and the chain of current,        *)
(* superseded and rolled-back score runs.                                  *)
(*                                                                         *)
(* The property imports of the incident's county come and go as            *)
(* PropertyImports says; here a row only tells what the matcher finds in   *)
(* its projection for this incident.  Of the weighted geometric mean only  *)
(* one thing is kept: whether it reaches 80 points.                        *)
(*                                                                         *)
(* Scorings are serialized by a lock in the process and by the incident's  *)
(* row on PostgreSQL, but the first is released before the commit and the  *)
(* second does not exist on SQLite: there a scoring or a rollback commits  *)
(* on a current run it read earlier, if the unique index lets it.          *)
(***************************************************************************)
EXTENDS IncidentLifecycle, PropertyMatching, Sequences

CONSTANTS
    Pools,          \* bound: the parcels a match may meet in an import
    EightyPoints,   \* the observations, matches and parcels that reach 80 points
    MaxImports,     \* bound: property imports
    MaxMatches,     \* bound: property match runs
    MaxScores       \* bound: score runs

ASSUME ScoreBoundAssumption == {MaxImports, MaxMatches, MaxScores} \subseteq Nat
ASSUME PoolAssumption == Pools \subseteq Pool /\ \A pool \in Pools : Distinct(pool)

VARIABLES
    imports,        \* property imports: predecessor, and what a match finds in them
    live,           \* the import with is_current, 0 when there is none
    matches,        \* incident_property_match_runs by creation
    decision,       \* what the latest property_match_decisions row says, and of which
                    \* candidate of which run
    scores,         \* opportunity_score_runs by creation
    current,        \* the score run with is_current, 0 when there is none
    override,       \* the latest reviewer's score decision is "suppress"
    scoreRaced      \* history: a scoring or rollback rested on a current run it had read too early

propertyVars == <<imports, live, matches, decision>>
scoreVars == <<scores, current, override>>

\* Rejected and cleared are "negative"; a correction, or a decision that names no
\* candidate, says nothing of any match run and hides what was said before.
DecisionKind == {"none", "confirmed", "negative"}
Import == [prev : 0..MaxImports, finds : Found]
Match == [import : 1..MaxImports, evidence : Linked, found : Found]
Decision(runs) == [kind : DecisionKind, match : 0..Len(runs), choice : Facts]
\* A score rests on the first candidate of a match or on the one a reviewer confirmed.
Score ==
    [match : 0..MaxMatches, on : Facts, confirmed : BOOLEAN, prev : 0..MaxScores,
     evidence : Linked, status : {"scored", "suppressed", "abstained", "rolled_back"},
     alert_eligibility : BOOLEAN]

ScoreInit ==
    /\ imports = <<>> /\ live = 0
    /\ matches = <<>>
    /\ decision = [kind |-> "none", match |-> 0, choice |-> NoFacts]
    /\ scores = <<>> /\ current = 0
    /\ override = FALSE
    /\ pending = [s \in Session |-> None]
    /\ scoreRaced = FALSE

----------------------------------------------------------------------------
(* The matcher *)

\* A completed run over the live import and the same observations is used again.
Reusable == {m \in 1..Len(matches) : matches[m].import = live /\ matches[m].evidence = evidence}

\* Fault: the run is filed under the import that comes next.
MatchAhead == [import |-> live + 1, evidence |-> evidence, found |-> imports[live].finds]

MatchRun == [import |-> live, evidence |-> evidence, found |-> imports[live].finds]

\* The runs after run_property_match (force: the reprocess route).
Matched(force) ==
    IF ~force /\ Reusable # {} THEN matches ELSE Append(matches, MatchRun)

CreateMatch(force) ==
    /\ live # 0
    /\ Len(Matched(force)) <= MaxMatches
    /\ matches' = Matched(force)
    /\ UNCHANGED <<lifecycleVars, imports, live, decision, scoreVars, pending, scoreRaced>>

\* A decision names any candidate of any run of the incident; what matters of a negative
\* one is the run.
DecideMatch(kind, m, choice) ==
    /\ (kind = "none") = (m = 0)
    /\ kind # "none" => matches[m].found.candidates # {}
    /\ IF kind = "confirmed" THEN choice \in matches[m].found.candidates ELSE choice = NoFacts
    /\ decision' = [kind |-> kind, match |-> m, choice |-> choice]
    /\ UNCHANGED <<lifecycleVars, imports, live, matches, scoreVars, pending, scoreRaced>>

FoundFor == [pool \in Pools |-> FoundIn(pool)]

PropertyImported(pool) ==
    /\ Len(imports) < MaxImports
    /\ imports' = Append(imports, [prev |-> live, finds |-> FoundFor[pool]])
    /\ live' = Len(imports) + 1
    /\ UNCHANGED <<lifecycleVars, matches, decision, scoreVars, pending, scoreRaced>>

PropertyRolledBack ==
    /\ live # 0
    /\ live' = imports[live].prev
    /\ UNCHANGED <<lifecycleVars, imports, matches, decision, scoreVars, pending, scoreRaced>>

----------------------------------------------------------------------------
(* Scoring *)

FIRE_SCOREABLE_FAMILIES == {"structure_fire", "brush_fire"}
\* "alarm" and "brush" are among the wordings that count as negative relevance.
NEGATIVE_FAMILIES == {"brush_fire", "alarm"}
FIT_FIRE_FAMILIES == {"structure_fire", "brush_fire"}

Eligible(e) == e # Nothing /\ ClassifiedAs(e) \in FIRE_SCOREABLE_FAMILIES
Negative(e) == e # Nothing /\ e.families \cap NEGATIVE_FAMILIES # {}
Conflicting(e) == e # Nothing /\ Contradictory(e)
Authorized(e) == e # Nothing /\ e.modes = {"manual_snapshot"}

QualityOf(found) ==
    CASE found.status = "matched" /\ found.recommended -> "available"
      [] found.status = "site_matched" /\ found.first.sourced -> "site_matched"
      [] OTHER -> "abstained"

\* A human decision counts only for the run it was made on.
Decided(m, kind) == m # 0 /\ decision.match = m /\ decision.kind = kind

\* The parcel a score looks up: a confirmed candidate's instead of the first one's.
ParcelOf(m, found) == IF Decided(m, "confirmed") THEN decision.choice ELSE found.first

\* A confirmed parcel that the import has no row of is no evidence.
MatchQuality(m, found) ==
    IF m = 0 THEN "missing"
    ELSE IF Decided(m, "negative") THEN "negative"
    ELSE IF ~Decided(m, "confirmed") THEN QualityOf(found)
    ELSE IF decision.choice.sourced THEN "human_confirmed"
    ELSE "abstained"

\* Without the parcel's row in the import there is nothing to fit.
Fit(e, parcel) ==
    IF ~parcel.sourced THEN "missing"
    ELSE IF parcel.segment /\ e # Nothing /\ ClassifiedAs(e) \in FIT_FIRE_FAMILIES THEN "available"
    ELSE "partial"

MaterialLoss(e) ==
    IF Negative(e) THEN "negative"
    ELSE IF e # Nothing /\ e.families \cap STRUCTURE_FAMILIES # {} THEN "available"
    ELSE "weak"

\* The structure of a parcel is known when a reviewer or a site names the parcel.
Components(e, quality, parcel) ==
    [source_quality |-> IF e = Nothing THEN "missing" ELSE "available",
     incident_validity |-> IF Conflicting(e) THEN "contradicted" ELSE "available",
     property_match_quality |-> quality,
     material_loss_evidence |-> MaterialLoss(e),
     loss_complexity |->
        IF quality \in {"human_confirmed", "site_matched"} THEN "available" ELSE "partial",
     beyond_adjusting_fit |-> Fit(e, parcel),
     evidence_freshness |-> "available"]

\* Seven tenths of the components are there.
Sufficient(components) ==
    10 * Cardinality({c \in DOMAIN components :
            components[c] \in {"available", "human_confirmed", "partial"}})
        >= 7 * Cardinality(DOMAIN components)

Blocked(e, quality) ==
    Negative(e) \/ quality \in {"missing", "negative", "abstained"} \/ Conflicting(e)

Elite(e, components, found, parcel) ==
    <<e, found, parcel>> \in EightyPoints /\ Sufficient(components)

AlertEligible(e, quality, found, parcel) ==
    LET components == Components(e, quality, parcel)
    IN  /\ ~Blocked(e, quality)
        /\ Elite(e, components, found, parcel)
        /\ Authorized(e)
        /\ quality \in {"available", "human_confirmed"}
        /\ components.beyond_adjusting_fit = "available"

NoMatch ==
    [status |-> "abstained", recommended |-> FALSE, first |-> NoFacts, candidates |-> {}]

\* The score on the newest of the given match runs; a run that is new has no decision.
ScoreRow(prev, runs) ==
    LET m == Len(runs)
        found == IF m = 0 THEN NoMatch ELSE runs[m].found
        parcel == ParcelOf(m, found)
        quality == MatchQuality(m, found)
    IN  [match |-> m, on |-> parcel, confirmed |-> Decided(m, "confirmed"),
         prev |-> prev, evidence |-> evidence,
         status |-> IF Negative(evidence) THEN "suppressed"
                    ELSE IF Blocked(evidence, quality) THEN "abstained" ELSE "scored",
         alert_eligibility |-> AlertEligible(evidence, quality, found, parcel)]

\* score_incident takes the newest match run, whatever has become of its import; an
\* incident without observations is scored, one that is no fire is refused.
CanScore == evidence = Nothing \/ Eligible(evidence)

BeginScore(s) ==
    /\ pending[s] = None
    /\ CanScore
    /\ pending' = [pending EXCEPT ![s] = [op |-> "score", read |-> current]]
    /\ UNCHANGED <<lifecycleVars, propertyVars, scoreVars, scoreRaced>>

CommitScore(s) ==
    /\ pending[s] # None /\ pending[s].op = "score"
    /\ CanScore
    /\ Len(scores) < MaxScores
    /\ current \in {0, pending[s].read}
    /\ scores' = Append(scores, ScoreRow(pending[s].read, matches))
    /\ current' = Len(scores) + 1
    /\ scoreRaced' = (scoreRaced \/ current # pending[s].read)
    /\ pending' = [pending EXCEPT ![s] = None]
    /\ UNCHANGED <<lifecycleVars, propertyVars, override>>

BeginRollback(s) ==
    /\ pending[s] = None
    /\ current # 0
    /\ pending' = [pending EXCEPT ![s] = [op |-> "rollback", read |-> current]]
    /\ UNCHANGED <<lifecycleVars, propertyVars, scoreVars, scoreRaced>>

\* The index refuses to make the predecessor current beside another run.
RollbackFits(i) == scores[i].prev # 0 => current \in {0, i, scores[i].prev}

\* Fault: a run without a predecessor stays current.
KeepCurrent(s) ==
    LET i == pending[s].read
        prev == scores[i].prev
    IN  /\ pending[s] # None /\ pending[s].op = "rollback"
        /\ RollbackFits(i)
        /\ scores' = [scores EXCEPT ![i].status = "rolled_back"]
        /\ current' = IF prev # 0 THEN prev ELSE current
        /\ scoreRaced' = (scoreRaced \/ current # i)
        /\ pending' = [pending EXCEPT ![s] = None]
        /\ UNCHANGED <<lifecycleVars, propertyVars, override>>

CommitRollback(s) ==
    LET i == pending[s].read
        prev == scores[i].prev
    IN  /\ pending[s] # None /\ pending[s].op = "rollback"
        /\ RollbackFits(i)
        /\ scores' = [scores EXCEPT ![i].status = "rolled_back"]
        /\ current' = IF prev # 0 THEN prev ELSE IF current = i THEN 0 ELSE current
        /\ scoreRaced' = (scoreRaced \/ current # i)
        /\ pending' = [pending EXCEPT ![s] = None]
        /\ UNCHANGED <<lifecycleVars, propertyVars, override>>

\* The unique index, or evidence that is no fire any more, fails the request.
RefuseScoring(s) ==
    /\ pending[s] # None
    /\ \/ pending[s].op = "score" /\ (current \notin {0, pending[s].read} \/ ~CanScore)
       \/ pending[s].op = "rollback" /\ ~RollbackFits(pending[s].read)
    /\ pending' = [pending EXCEPT ![s] = None]
    /\ UNCHANGED <<lifecycleVars, propertyVars, scoreVars, scoreRaced>>

----------------------------------------------------------------------------
(* ensure_fire_score_runs: after a poll, at startup and on request *)

\* The current run is of this evidence and of a match in the live import.
Complete ==
    /\ current # 0
    /\ scores[current].evidence = evidence
    /\ live # 0 => /\ scores[current].match # 0
                   /\ matches[scores[current].match].import = live

DeactivateNonFire ==
    /\ incident.is_active
    /\ ~Eligible(evidence)
    /\ current # 0
    /\ current' = 0
    /\ UNCHANGED <<lifecycleVars, propertyVars, scores, override, pending, scoreRaced>>

RefreshedMatches == IF live = 0 THEN matches ELSE Matched(FALSE)

\* Fault: it scores on the match there was before it matched.
ScoreFirst ==
    /\ incident.is_active
    /\ Eligible(evidence)
    /\ ~Complete
    /\ Len(scores) < MaxScores
    /\ Len(RefreshedMatches) <= MaxMatches
    /\ matches' = RefreshedMatches
    /\ scores' = Append(scores, ScoreRow(current, matches))
    /\ current' = Len(scores) + 1
    /\ UNCHANGED <<lifecycleVars, imports, live, decision, override, pending, scoreRaced>>

Refresh ==
    /\ incident.is_active
    /\ Eligible(evidence)
    /\ ~Complete
    /\ Len(scores) < MaxScores
    /\ Len(RefreshedMatches) <= MaxMatches
    /\ matches' = RefreshedMatches
    /\ scores' = Append(scores, ScoreRow(current, RefreshedMatches))
    /\ current' = Len(scores) + 1
    /\ UNCHANGED <<lifecycleVars, imports, live, decision, override, pending, scoreRaced>>

\* A decision needs a current score of an incident that is still a fire.
RecordOverride(suppress) ==
    /\ current # 0 /\ Eligible(evidence)
    /\ override' = suppress
    /\ UNCHANGED <<lifecycleVars, propertyVars, scores, current, pending, scoreRaced>>

Scoring ==
    \/ DeactivateNonFire
    \/ Refresh
    \/ \E s \in Session :
        BeginScore(s) \/ CommitScore(s) \/ BeginRollback(s) \/ CommitRollback(s) \/ RefuseScoring(s)

Matching == \E force \in BOOLEAN : CreateMatch(force)

PropertyChange ==
    \/ \E pool \in Pools : PropertyImported(pool)
    \/ PropertyRolledBack

Review ==
    \/ \E kind \in DecisionKind, m \in 0..Len(matches), choice \in Facts :
            DecideMatch(kind, m, choice)
    \/ \E suppress \in BOOLEAN : RecordOverride(suppress)

ScoreTypeOK ==
    /\ imports \in Seq(Import) /\ Len(imports) <= MaxImports
    /\ live \in 0..Len(imports)
    /\ matches \in Seq(Match) /\ Len(matches) <= MaxMatches
    /\ decision \in Decision(matches)
    /\ scores \in Seq(Score) /\ Len(scores) <= MaxScores
    /\ current \in 0..Len(scores)
    /\ override \in BOOLEAN
    /\ scoreRaced \in BOOLEAN
=============================================================================
