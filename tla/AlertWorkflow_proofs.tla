------------------------- MODULE AlertWorkflow_proofs -------------------------
(***************************************************************************)
(* Proofs about AlertWorkflow and the modules it is made of, for any       *)
(* observations, parcels, requests and bounds.                             *)
(***************************************************************************)
EXTENDS AlertWorkflow, PropertyMatching_proofs, SequenceTheorems

\* A confirmation names a candidate of its run.
Chosen ==
    decision.kind = "confirmed" =>
        /\ decision.match \in 1..Len(matches)
        /\ decision.choice \in matches[decision.match].found.candidates

\* Rows name rows that are there; a score comes after the one it supersedes.
References ==
    /\ Chosen
    /\ \A i \in 1..Len(imports) : imports[i].prev \in 0..Len(imports)
    /\ \A i \in 1..Len(scores) :
        scores[i].match \in 0..Len(matches) /\ scores[i].prev \in 0..(i - 1)
    /\ alert.score \in 0..Len(scores)

\* So do requests that read them.
RequestsResolve ==
    \A s \in Session : pending[s] # None =>
        /\ pending[s].op \in {"score", "rollback"} => pending[s].read \in 0..Len(scores)
        /\ pending[s].op = "rollback" => pending[s].read # 0
        /\ pending[s].op = "generate" => pending[s].score \in 1..Len(scores)

\* TypeOK without the count of events, which every step changes.
TypeInv ==
    /\ LifecycleTypeOK
    /\ ScoreTypeOK
    /\ pending \in [Session -> Request \cup {None}]
    /\ alert \in Alert
    /\ job \in JobStatus
    /\ {client, alertRaced} \subseteq BOOLEAN
    /\ References
    /\ RequestsResolve

----------------------------------------------------------------------------
(* The lifecycle *)

LEMMA StateForIsState ==
    ASSUME NEW state \in VALID_STATES, NEW e
    PROVE  StateFor(state, e) \in VALID_STATES
BY DEF StateFor, VALID_STATES

LEMMA RecomputedType ==
    ASSUME NEW row \in Incident, NEW e
    PROVE  Recomputed(row, e) \in Incident /\ Recomputed(row, e).is_active = row.is_active
<1>1. Contradictory(e) \in BOOLEAN
    BY DEF Contradictory
<1>2. SignalFor(row.signal, e) \in {"not_issued", "active", "revoked"}
    BY DEF SignalFor, Incident
<1>3. StateFor(row.state, e) \in VALID_STATES
    BY StateForIsState DEF Incident
<1>4. QED
    BY <1>1, <1>2, <1>3 DEF Recomputed, Incident

LEMMA WrittenType ==
    ASSUME LifecycleTypeOK, NEW saw \in Incident, NEW new \in Incident
    PROVE  /\ Written(saw, new) \in Incident
           /\ Written(saw, new).state = Column(saw.state, new.state, incident.state)
BY DEF LifecycleTypeOK, Written, Column, Incident

LEMMA AllowedAreStates ==
    ASSUME NEW state \in VALID_STATES
    PROVE  ALLOWED_TRANSITIONS[state] \subseteq VALID_STATES
BY DEF ALLOWED_TRANSITIONS, VALID_STATES, Reviewed, Dispositions

\* Requests that read the row, and what they then write.
LEMMA CommitsWriteIncidents ==
    ASSUME LifecycleTypeOK, pending \in [Session -> Request \cup {None}], EvidenceCommit
    PROVE  LifecycleTypeOK'
<1>1. ASSUME NEW s \in Session, CommitRecompute(s)
      PROVE  LifecycleTypeOK'
    <2> DEFINE request == pending[s]
    <2>1. /\ request.row \in Incident /\ request.from \in Linked /\ request.to \in Linked
          /\ evidence' \in LinksAfter(request)
        BY <1>1 DEF CommitRecompute, Answers, Request, LifecycleRequest
    <2>2. PICK e : incident' = Written(request.row, Recomputed(request.row, e))
        BY <1>1 DEF CommitRecompute
    <2>3. evidence' \in Linked
        BY <2>1 DEF LinksAfter, LifecycleTypeOK, Linked
    <2> HIDE DEF request
    <2>4. incident' \in Incident
        BY <2>1, <2>2, RecomputedType, WrittenType
    <2>5. QED
        BY <2>3, <2>4 DEF LifecycleTypeOK
<1>2. ASSUME NEW s \in Session, CommitTransition(s)
      PROVE  LifecycleTypeOK'
    <2> DEFINE request == pending[s]
               new == [request.row EXCEPT !.state = request.to]
    <2>1. request.row \in Incident /\ request.to \in VALID_STATES
        BY <1>2 DEF CommitTransition, Answers, Request, LifecycleRequest
    <2>2. incident' = Written(request.row, new) /\ evidence' = evidence
        BY <1>2 DEF CommitTransition
    <2>3. new \in Incident
        BY <2>1 DEF Incident
    <2> HIDE DEF new
    <2>4. QED
        BY <2>1, <2>2, <2>3, WrittenType DEF LifecycleTypeOK
<1>3. ASSUME NEW s \in Session, CommitAbsorption(s)
      PROVE  LifecycleTypeOK'
    <2> DEFINE request == pending[s]
               new == [request.row EXCEPT !.is_active = FALSE, !.state = "Closed"]
    <2>1. request.row \in Incident
        BY <1>3 DEF CommitAbsorption, Answers, Request, LifecycleRequest
    <2>2. incident' = Written(request.row, new) /\ evidence' \in Linked
        BY <1>3 DEF CommitAbsorption, Linked
    <2>3. new \in Incident
        BY <2>1 DEF Incident, VALID_STATES
    <2> HIDE DEF new
    <2>4. QED
        BY <2>1, <2>2, <2>3, WrittenType DEF LifecycleTypeOK
<1>4. QED
    BY <1>1, <1>2, <1>3 DEF EvidenceCommit

----------------------------------------------------------------------------
(* Matches and scores *)

LEMMA MatchRunType ==
    ASSUME TypeInv, live # 0
    PROVE  MatchRun \in Match /\ MatchRun.import = live
<1>1. imports \in Seq(Import) /\ live \in 1..Len(imports) /\ live \in 1..MaxImports
    BY ScoreBoundAssumption DEF TypeInv, ScoreTypeOK
<1>2. imports[live] \in Import
    BY <1>1, ElementOfSeq
<1>3. QED
    BY <1>1, <1>2 DEF TypeInv, LifecycleTypeOK, MatchRun, Match, Import

LEMMA MatchedType ==
    ASSUME TypeInv, live # 0, NEW force \in BOOLEAN, Len(Matched(force)) <= MaxMatches
    PROVE  /\ Matched(force) \in Seq(Match)
           /\ Len(Matched(force)) \in {Len(matches), Len(matches) + 1}
           /\ \A m \in 1..Len(matches) : Matched(force)[m] = matches[m]
           /\ Len(Matched(force)) = Len(matches) + 1 =>
                Matched(force)[Len(matches) + 1] = MatchRun
BY MatchRunType DEF TypeInv, ScoreTypeOK, Matched

\* The gates an alert's score has passed, as far as the score decides on them.
Gated(score, runs) ==
    /\ Authorized(score.evidence)
    /\ ~Negative(score.evidence) /\ ~Conflicting(score.evidence)
    /\ score.match # 0
    /\ LET found == runs[score.match].found
       IN  /\ <<score.evidence, found, score.on>> \in EightyPoints
           /\ score.on.segment
           /\ IF score.confirmed THEN score.on \in found.candidates ELSE score.on = found.first

LEMMA ScoreRowType ==
    ASSUME TypeInv, NEW prev \in 0..MaxScores,
           NEW runs \in Seq(Match), Len(runs) <= MaxMatches, Len(runs) >= Len(matches),
           \A m \in 1..Len(matches) : runs[m] = matches[m]
    PROVE  /\ ScoreRow(prev, runs) \in Score
           /\ ScoreRow(prev, runs).prev = prev
           /\ ScoreRow(prev, runs).match = Len(runs)
           /\ ScoreRow(prev, runs).evidence = evidence
           /\ ScoreRow(prev, runs).status # "rolled_back"
           /\ ScoreRow(prev, runs).alert_eligibility => Gated(ScoreRow(prev, runs), runs)
<1> DEFINE m == Len(runs)
           found == IF m = 0 THEN NoMatch ELSE runs[m].found
           parcel == ParcelOf(m, found)
           quality == MatchQuality(m, found)
           confirmed == Decided(m, "confirmed")
<1>1. ScoreRow(prev, runs) =
        [match |-> m, on |-> parcel, confirmed |-> confirmed, prev |-> prev, evidence |-> evidence,
         status |-> IF Negative(evidence) THEN "suppressed"
                    ELSE IF Blocked(evidence, quality) THEN "abstained" ELSE "scored",
         alert_eligibility |-> AlertEligible(evidence, quality, found, parcel)]
    BY DEF ScoreRow
<1>2. AlertEligible(evidence, quality, found, parcel) \in BOOLEAN /\ confirmed \in BOOLEAN
    BY DEF AlertEligible, Decided
<1>3. AlertEligible(evidence, quality, found, parcel) =>
        /\ Authorized(evidence) /\ ~Negative(evidence) /\ ~Conflicting(evidence)
        /\ quality # "missing" /\ parcel.segment
        /\ <<evidence, found, parcel>> \in EightyPoints
    BY DEF AlertEligible, Blocked, Elite, Components, Fit
<1>4. m = 0 => quality = "missing"
    BY DEF MatchQuality
<1>5. m \in Nat /\ m \in 0..MaxMatches /\ Len(matches) \in Nat
    BY ScoreBoundAssumption, LenProperties DEF TypeInv, ScoreTypeOK
<1>6. evidence \in Linked
    BY DEF TypeInv, LifecycleTypeOK
<1>7. found.first \in Facts
    <2>1. CASE m = 0
        BY <2>1 DEF NoMatch, NoFacts, Facts
    <2>2. CASE m # 0
        <3>1. runs[m] \in Match
            BY <1>5, <2>2, ElementOfSeq
        <3>2. QED
            BY <2>2, <3>1 DEF Match, Found
    <2>3. QED
        BY <2>1, <2>2
<1>8. parcel \in Facts
    BY <1>7 DEF ParcelOf, TypeInv, ScoreTypeOK, Decision
<1>9. IF confirmed THEN parcel \in found.candidates ELSE parcel = found.first
    <2>1. CASE confirmed
        <3>1. /\ m # 0 /\ decision.match = m /\ decision.kind = "confirmed"
              /\ parcel = decision.choice
            BY <2>1 DEF ParcelOf, Decided
        <3>2. m \in 1..Len(matches) /\ decision.choice \in matches[m].found.candidates
            BY <3>1 DEF TypeInv, References, Chosen
        <3>3. QED
            BY <2>1, <3>1, <3>2
    <2>2. CASE ~confirmed
        BY <2>2 DEF ParcelOf
    <2>3. QED
        BY <2>1, <2>2
<1>10. m # 0 => found = runs[m].found
    OBVIOUS
<1> DEFINE row == ScoreRow(prev, runs)
<1> HIDE DEF m, found, parcel, quality, confirmed
<1>11. /\ row.match = m /\ row.on = parcel /\ row.confirmed = confirmed /\ row.prev = prev
       /\ row.evidence = evidence /\ row.status \in {"suppressed", "abstained", "scored"}
       /\ row.alert_eligibility = AlertEligible(evidence, quality, found, parcel)
    BY <1>1
<1>12. row \in Score
    BY <1>1, <1>2, <1>5, <1>6, <1>8 DEF Score
<1> HIDE DEF row
<1>13. row.alert_eligibility => Gated(row, runs)
    BY <1>3, <1>4, <1>9, <1>10, <1>11 DEF Gated
<1>14. QED
    BY <1>11, <1>12, <1>13 DEF m, row

----------------------------------------------------------------------------
(* Every step keeps the types *)

\* Only what one session asks changes in pending.
LEMMA AskedType ==
    ASSUME TypeInv, NEW s \in Session, NEW r \in Request \cup {None},
           pending' = [pending EXCEPT ![s] = r], scores' \in Seq(Score),
           Len(scores') >= Len(scores),
           r # None =>
                /\ r.op \in {"score", "rollback"} => r.read \in 0..Len(scores)
                /\ r.op = "rollback" => r.read # 0
                /\ r.op = "generate" => r.score \in 1..Len(scores)
    PROVE  pending' \in [Session -> Request \cup {None}] /\ RequestsResolve'
<1>1. pending' \in [Session -> Request \cup {None}]
    BY DEF TypeInv
<1>2. Len(scores) \in Nat /\ Len(scores') \in Nat
    BY LenProperties DEF TypeInv, ScoreTypeOK
<1>3. ASSUME NEW t \in Session, pending'[t] # None
      PROVE  /\ pending'[t].op \in {"score", "rollback"} => pending'[t].read \in 0..Len(scores')
             /\ pending'[t].op = "rollback" => pending'[t].read # 0
             /\ pending'[t].op = "generate" => pending'[t].score \in 1..Len(scores')
    <2>1. CASE t = s
        <3>1. pending'[t] = r
            BY <2>1 DEF TypeInv
        <3>2. QED
            BY <1>2, <1>3, <3>1
    <2>2. CASE t # s
        <3>1. pending'[t] = pending[t]
            BY <2>2 DEF TypeInv
        <3>2. QED
            BY <1>2, <1>3, <3>1 DEF TypeInv, RequestsResolve
    <2>3. QED
        BY <2>1, <2>2
<1>4. QED
    BY <1>1, <1>3 DEF RequestsResolve

\* More match runs leave what was decided of the earlier ones.
LEMMA DecisionKept ==
    ASSUME TypeInv, decision' = decision, matches' \in Seq(Match),
           Len(matches') >= Len(matches), \A m \in 1..Len(matches) : matches'[m] = matches[m]
    PROVE  decision' \in Decision(matches') /\ Chosen'
<1>1. Len(matches) \in Nat /\ Len(matches') \in Nat
    BY LenProperties DEF TypeInv, ScoreTypeOK
<1>2. 0..Len(matches) \subseteq 0..Len(matches') /\ 1..Len(matches) \subseteq 1..Len(matches')
    BY <1>1
<1>3. decision' \in Decision(matches')
    BY <1>2 DEF TypeInv, ScoreTypeOK, Decision
<1>4. Chosen'
    BY <1>2 DEF TypeInv, References, Chosen
<1>5. QED
    BY <1>3, <1>4

LEMMA PropertyStepType ==
    ASSUME TypeInv, PropertyChange \/ Review \/ Matching, UNCHANGED workflowVars
    PROVE  TypeInv'
<1>1. /\ Len(imports) \in Nat /\ Len(matches) \in Nat /\ imports \in Seq(Import)
      /\ live \in 0..Len(imports)
    BY LenProperties DEF TypeInv, ScoreTypeOK
<1>2. ASSUME UNCHANGED <<lifecycleVars, scoreVars, pending, scoreRaced>>, ScoreTypeOK', References'
      PROVE  TypeInv'
    BY <1>2 DEF TypeInv, LifecycleTypeOK, lifecycleVars, scoreVars, workflowVars, RequestsResolve
<1>3. ASSUME NEW pool \in Pools, PropertyImported(pool)
      PROVE  TypeInv'
    <2>1. FoundFor[pool] \in Found
        BY FoundInIsFound, PoolAssumption DEF FoundFor
    <2>2. [prev |-> live, finds |-> FoundFor[pool]] \in Import
        <3>1. live \in 0..MaxImports
            BY <1>1, ScoreBoundAssumption DEF TypeInv, ScoreTypeOK
        <3>2. QED
            BY <2>1, <3>1 DEF Import
    <2>3. Len(imports) \in Nat /\ Len(imports) + 1 <= MaxImports
        BY <1>3, <1>1, ScoreBoundAssumption DEF PropertyImported
    <2>4. /\ imports' \in Seq(Import) /\ Len(imports') = Len(imports) + 1
          /\ live' = Len(imports) + 1
          /\ \A i \in 1..Len(imports) : imports'[i] = imports[i]
          /\ imports'[Len(imports) + 1].prev = live
        <3>1. imports' = Append(imports, [prev |-> live, finds |-> FoundFor[pool]])
              /\ live' = Len(imports) + 1
            BY <1>3 DEF PropertyImported
        <3>2. QED
            BY <1>1, <3>1, <2>2, AppendProperties
    <2>5. ScoreTypeOK'
        BY <1>3, <2>3, <2>4 DEF PropertyImported, scoreVars, TypeInv, ScoreTypeOK
    <2>6. References'
        <3>1. \A i \in 1..(Len(imports) + 1) : imports'[i].prev \in 0..(Len(imports) + 1)
            <4>1. TAKE i \in 1..(Len(imports) + 1)
            <4>2. CASE i \in 1..Len(imports)
                <5>1. imports[i].prev \in 0..Len(imports) /\ imports'[i] = imports[i]
                    BY <2>4, <4>2 DEF TypeInv, References, Chosen
                <5>2. QED
                    BY <2>3, <5>1
            <4>3. CASE i = Len(imports) + 1
                <5>1. imports'[i].prev = live /\ live \in 0..Len(imports)
                    BY <1>1, <2>4, <4>3
                <5>2. QED
                    BY <2>3, <5>1
            <4>4. i \in 1..Len(imports) \/ i = Len(imports) + 1
                BY <2>3
            <4>5. QED
                BY <4>2, <4>3, <4>4
        <3>2. QED
            BY <1>3, <2>4, <3>1 DEF PropertyImported, scoreVars, workflowVars, TypeInv, References, Chosen
    <2>7. QED
        BY <1>2, <1>3, <2>5, <2>6 DEF PropertyImported
<1>4. CASE PropertyRolledBack
    <2>1. /\ UNCHANGED <<lifecycleVars, imports, matches, decision, scoreVars, pending, scoreRaced>>
          /\ live' \in 0..Len(imports)
        <3>1. live # 0 /\ live' = imports[live].prev
            BY <1>4 DEF PropertyRolledBack
        <3>2. live \in 1..Len(imports)
            BY <1>1, <3>1
        <3>3. QED
            BY <1>4, <3>1, <3>2 DEF PropertyRolledBack, TypeInv, References, Chosen
    <2>2. ScoreTypeOK' /\ References'
        BY <2>1 DEF TypeInv, ScoreTypeOK, References, Chosen, scoreVars, workflowVars
    <2>3. QED
        BY <1>2, <2>1, <2>2
<1>5. ASSUME NEW kind \in DecisionKind, NEW m \in 0..Len(matches), NEW choice \in Facts,
             DecideMatch(kind, m, choice)
      PROVE  TypeInv'
    <2>1. /\ UNCHANGED <<lifecycleVars, imports, live, matches, scoreVars, pending, scoreRaced>>
          /\ decision' = [kind |-> kind, match |-> m, choice |-> choice]
          /\ kind = "confirmed" =>
                m \in 1..Len(matches) /\ choice \in matches[m].found.candidates
        BY <1>1, <1>5 DEF DecideMatch
    <2>2. decision' \in Decision(matches') /\ Chosen'
        BY <2>1 DEF Decision, Chosen
    <2>3. ScoreTypeOK' /\ References'
        BY <2>1, <2>2 DEF TypeInv, ScoreTypeOK, References, scoreVars, workflowVars
    <2>4. QED
        BY <1>2, <2>1, <2>3
<1>6. ASSUME NEW suppress \in BOOLEAN, RecordOverride(suppress)
      PROVE  TypeInv'
    <2>1. UNCHANGED <<lifecycleVars, propertyVars, scores, current, pending, scoreRaced>>
          /\ override' \in BOOLEAN
        BY <1>6 DEF RecordOverride
    <2>2. ScoreTypeOK' /\ References' /\ RequestsResolve'
        BY <2>1 DEF TypeInv, ScoreTypeOK, References, Chosen, propertyVars, workflowVars, RequestsResolve
    <2>3. QED
        BY <2>1, <2>2 DEF TypeInv, LifecycleTypeOK, lifecycleVars, workflowVars
<1>7. ASSUME NEW force \in BOOLEAN, CreateMatch(force)
      PROVE  TypeInv'
    <2>1. /\ UNCHANGED <<lifecycleVars, imports, live, decision, scoreVars, pending, scoreRaced>>
          /\ live # 0 /\ matches' = Matched(force) /\ Len(Matched(force)) <= MaxMatches
        BY <1>7 DEF CreateMatch
    <2>2. /\ matches' \in Seq(Match) /\ Len(matches') <= MaxMatches
          /\ Len(matches') \in {Len(matches), Len(matches) + 1}
          /\ \A m \in 1..Len(matches) : matches'[m] = matches[m]
        BY <2>1, MatchedType
    <2>3. 0..Len(matches) \subseteq 0..Len(matches') /\ Len(matches') >= Len(matches)
        BY <1>1, <2>2
    <2>4. decision' \in Decision(matches') /\ Chosen'
        BY <2>1, <2>2, <2>3, DecisionKept
    <2>5. ScoreTypeOK'
        BY <2>1, <2>2, <2>4 DEF TypeInv, ScoreTypeOK, scoreVars
    <2>6. References'
        BY <2>1, <2>3, <2>4 DEF TypeInv, References, scoreVars, workflowVars
    <2>7. QED
        BY <1>2, <2>1, <2>5, <2>6
<1>8. QED
    BY <1>3, <1>4, <1>5, <1>6, <1>7 DEF PropertyChange, Review, Matching

\* What a scoring step leaves: new rows come after the rows that were there.
LEMMA ScoredType ==
    ASSUME TypeInv,
           UNCHANGED <<lifecycleVars, imports, live, decision, workflowVars>>,
           matches' \in Seq(Match), Len(matches') <= MaxMatches,
           Len(matches') >= Len(matches),
           \A m \in 1..Len(matches) : matches'[m] = matches[m],
           NEW prev \in 0..Len(scores), Len(scores) < MaxScores,
           scores' = Append(scores, ScoreRow(prev, matches')),
           current' = Len(scores) + 1,
           override' \in BOOLEAN, scoreRaced' \in BOOLEAN
    PROVE  /\ LifecycleTypeOK' /\ ScoreTypeOK' /\ References'
           /\ alert' \in Alert /\ job' \in JobStatus /\ {client', alertRaced'} \subseteq BOOLEAN
           /\ scores' \in Seq(Score) /\ Len(scores') >= Len(scores)
<1>1. /\ Len(scores) \in Nat /\ Len(matches) \in Nat /\ Len(matches') \in Nat
      /\ prev \in 0..MaxScores
    BY ScoreBoundAssumption, LenProperties DEF TypeInv, ScoreTypeOK
<1>2. /\ ScoreRow(prev, matches') \in Score
      /\ ScoreRow(prev, matches').prev = prev
      /\ ScoreRow(prev, matches').match = Len(matches')
    BY <1>1, ScoreRowType
<1>3. /\ scores' \in Seq(Score) /\ Len(scores') = Len(scores) + 1
      /\ \A i \in 1..Len(scores) : scores'[i] = scores[i]
      /\ scores'[Len(scores) + 1] = ScoreRow(prev, matches')
    <2> HIDE DEF ScoreRow
    <2>1. QED
        BY <1>2, AppendProperties DEF TypeInv, ScoreTypeOK
<1>4. ASSUME NEW i \in 1..(Len(scores) + 1)
      PROVE  scores'[i].match \in 0..Len(matches') /\ scores'[i].prev \in 0..(i - 1)
    <2>1. CASE i \in 1..Len(scores)
        <3>1. /\ scores[i].match \in 0..Len(matches) /\ scores[i].prev \in 0..(i - 1)
              /\ scores'[i] = scores[i]
            BY <1>3, <2>1 DEF TypeInv, References, Chosen
        <3>2. QED
            BY <1>1, <3>1
    <2>2. CASE i = Len(scores) + 1
        BY <1>1, <1>2, <1>3, <2>2
    <2>3. QED
        BY <1>1, <2>1, <2>2
<1>5. References'
    <2>1. /\ imports' = imports /\ alert' = alert
          /\ \A i \in 1..Len(imports) : imports[i].prev \in 0..Len(imports)
          /\ alert.score \in 0..Len(scores)
        BY DEF TypeInv, References, workflowVars
    <2>2. Chosen'
        BY DecisionKept
    <2>3. QED
        BY <1>1, <1>3, <1>4, <2>1, <2>2 DEF References
<1>6. LifecycleTypeOK'
    BY DEF TypeInv, LifecycleTypeOK, lifecycleVars
<1>7. ScoreTypeOK'
    <2>1. /\ imports' \in Seq(Import) /\ Len(imports') <= MaxImports
          /\ live' \in 0..Len(imports')
        BY DEF TypeInv, ScoreTypeOK
    <2>2. decision' \in Decision(matches')
        BY DecisionKept
    <2>3. /\ Len(scores') <= MaxScores /\ current' \in 0..Len(scores')
        BY <1>1, <1>3, ScoreBoundAssumption
    <2>4. QED
        BY <1>3, <2>1, <2>2, <2>3 DEF ScoreTypeOK
<1>8. QED
    BY <1>1, <1>3, <1>5, <1>6, <1>7 DEF TypeInv, workflowVars

LEMMA ScoringType ==
    ASSUME TypeInv, Scoring, UNCHANGED workflowVars
    PROVE  TypeInv'
<1>0. /\ Len(scores) \in Nat /\ Len(matches) \in Nat
      /\ matches \in Seq(Match) /\ Len(matches) <= MaxMatches
      /\ scores \in Seq(Score) /\ current \in 0..Len(scores)
      /\ override \in BOOLEAN /\ scoreRaced \in BOOLEAN
    BY LenProperties DEF TypeInv, ScoreTypeOK
\* Where only pending changes, or the current run.
<1>1. ASSUME UNCHANGED <<lifecycleVars, propertyVars, scores, override>>,
             current' \in 0..Len(scores), scoreRaced' \in BOOLEAN,
             pending' \in [Session -> Request \cup {None}], RequestsResolve'
      PROVE  TypeInv'
    <2>1. LifecycleTypeOK'
        BY <1>1 DEF TypeInv, LifecycleTypeOK, lifecycleVars
    <2>2. ScoreTypeOK'
        BY <1>1 DEF TypeInv, ScoreTypeOK, propertyVars
    <2>3. References'
        BY <1>1 DEF TypeInv, References, Chosen, propertyVars, workflowVars
    <2>4. QED
        BY <1>1, <2>1, <2>2, <2>3 DEF TypeInv, workflowVars
<1>2. CASE DeactivateNonFire
    <2>1. RequestsResolve' /\ pending' = pending
        BY <1>2 DEF DeactivateNonFire, TypeInv, RequestsResolve
    <2>2. QED
        BY <1>0, <1>1, <1>2, <2>1 DEF DeactivateNonFire, TypeInv
<1>3. CASE Refresh
    <2>1. /\ RefreshedMatches \in Seq(Match) /\ Len(RefreshedMatches) <= MaxMatches
          /\ Len(RefreshedMatches) >= Len(matches)
          /\ \A m \in 1..Len(matches) : RefreshedMatches[m] = matches[m]
        <3>1. CASE live = 0
            BY <1>0, <3>1 DEF RefreshedMatches
        <3>2. CASE live # 0
            <4>1. RefreshedMatches = Matched(FALSE) /\ Len(RefreshedMatches) <= MaxMatches
                BY <1>3, <3>2 DEF Refresh, RefreshedMatches
            <4>2. /\ Matched(FALSE) \in Seq(Match)
                  /\ Len(Matched(FALSE)) \in {Len(matches), Len(matches) + 1}
                  /\ \A m \in 1..Len(matches) : Matched(FALSE)[m] = matches[m]
                BY <3>2, <4>1, MatchedType
            <4> DEFINE runs == Matched(FALSE)
            <4> HIDE DEF runs
            <4>3. /\ RefreshedMatches = runs /\ runs \in Seq(Match)
                  /\ Len(runs) \in {Len(matches), Len(matches) + 1}
                  /\ \A m \in 1..Len(matches) : runs[m] = matches[m]
                BY <4>1, <4>2 DEF runs
            <4>4. Len(runs) >= Len(matches)
                BY <1>0, <4>3
            <4>5. RefreshedMatches \in Seq(Match)
                BY <4>3
            <4>6. Len(RefreshedMatches) >= Len(matches)
                BY <4>3, <4>4
            <4>7. QED
                BY <4>1, <4>3, <4>5, <4>6
        <3>3. QED
            BY <3>1, <3>2
    <2>2. /\ matches' = RefreshedMatches
          /\ scores' = Append(scores, ScoreRow(current, matches'))
          /\ current' = Len(scores) + 1 /\ Len(scores) < MaxScores
          /\ UNCHANGED <<lifecycleVars, imports, live, decision, override, pending, scoreRaced>>
        BY <1>3 DEF Refresh
    <2>3. /\ LifecycleTypeOK' /\ ScoreTypeOK' /\ References'
          /\ alert' \in Alert /\ job' \in JobStatus /\ {client', alertRaced'} \subseteq BOOLEAN
          /\ Len(scores') >= Len(scores)
        <3> HIDE DEF ScoreRow, RefreshedMatches
        <3>1. QED
            BY <1>0, <2>1, <2>2, ScoredType
    <2>4. RequestsResolve'
        <3>1. Len(scores') \in Nat
            BY <2>3, LenProperties DEF ScoreTypeOK
        <3>2. QED
            BY <1>0, <2>2, <2>3, <3>1 DEF TypeInv, RequestsResolve
    <2>5. QED
        BY <2>2, <2>3, <2>4 DEF TypeInv
<1>4. ASSUME NEW s \in Session, BeginScore(s)
      PROVE  TypeInv'
    <2> DEFINE r == [op |-> "score", read |-> current]
    <2>1. current \in 0..MaxScores
        BY <1>0, ScoreBoundAssumption DEF TypeInv, ScoreTypeOK
    <2>2. r \in Request
        BY <2>1 DEF Request
    <2>3. UNCHANGED <<lifecycleVars, propertyVars, scoreVars, scoreRaced>>
          /\ pending' = [pending EXCEPT ![s] = r]
        BY <1>4 DEF BeginScore
    <2>4. scores' \in Seq(Score) /\ Len(scores') >= Len(scores)
        BY <1>0, <2>3 DEF scoreVars
    <2>5. pending' \in [Session -> Request \cup {None}] /\ RequestsResolve'
        BY <1>0, <2>2, <2>3, <2>4, AskedType
    <2>6. QED
        BY <1>0, <1>1, <2>3, <2>5 DEF scoreVars
<1>5. ASSUME NEW s \in Session, BeginRollback(s)
      PROVE  TypeInv'
    <2> DEFINE r == [op |-> "rollback", read |-> current]
    <2>1. current \in 0..MaxScores /\ current # 0
        BY <1>0, <1>5, ScoreBoundAssumption DEF TypeInv, ScoreTypeOK, BeginRollback
    <2>2. r \in Request
        BY <2>1 DEF Request
    <2>3. UNCHANGED <<lifecycleVars, propertyVars, scoreVars, scoreRaced>>
          /\ pending' = [pending EXCEPT ![s] = r]
        BY <1>5 DEF BeginRollback
    <2>4. scores' \in Seq(Score) /\ Len(scores') >= Len(scores)
        BY <1>0, <2>3 DEF scoreVars
    <2>5. pending' \in [Session -> Request \cup {None}] /\ RequestsResolve'
        BY <1>0, <2>1, <2>2, <2>3, <2>4, AskedType
    <2>6. QED
        BY <1>0, <1>1, <2>3, <2>5 DEF scoreVars
<1>6. ASSUME NEW s \in Session, CommitScore(s)
      PROVE  TypeInv'
    <2>1. /\ pending[s].read \in 0..Len(scores)
          /\ scores' = Append(scores, ScoreRow(pending[s].read, matches'))
          /\ current' = Len(scores) + 1 /\ Len(scores) < MaxScores
          /\ UNCHANGED <<lifecycleVars, propertyVars, override>>
          /\ scoreRaced' \in BOOLEAN
          /\ pending' = [pending EXCEPT ![s] = None]
        BY <1>0, <1>6 DEF CommitScore, propertyVars, TypeInv, RequestsResolve
    <2>2. /\ LifecycleTypeOK' /\ ScoreTypeOK' /\ References'
          /\ alert' \in Alert /\ job' \in JobStatus /\ {client', alertRaced'} \subseteq BOOLEAN
          /\ scores' \in Seq(Score) /\ Len(scores') >= Len(scores)
        <3>1. /\ matches' \in Seq(Match) /\ Len(matches') <= MaxMatches
              /\ Len(matches') >= Len(matches)
              /\ \A m \in 1..Len(matches) : matches'[m] = matches[m]
            BY <1>0, <2>1 DEF propertyVars
        <3> HIDE DEF ScoreRow
        <3>2. QED
            BY <1>0, <2>1, <3>1, ScoredType DEF propertyVars
    <2>3. pending' \in [Session -> Request \cup {None}] /\ RequestsResolve'
        BY <2>1, <2>2, AskedType
    <2>4. QED
        BY <2>2, <2>3 DEF TypeInv
<1>7. ASSUME NEW s \in Session, CommitRollback(s)
      PROVE  TypeInv'
    <2> DEFINE i == pending[s].read
    <2>1. /\ i \in 1..Len(scores)
          /\ scores' = [scores EXCEPT ![i].status = "rolled_back"]
          /\ current' \in {scores[i].prev, 0, current}
          /\ UNCHANGED <<lifecycleVars, propertyVars, override>>
          /\ scoreRaced' \in BOOLEAN
          /\ pending' = [pending EXCEPT ![s] = None]
        BY <1>0, <1>7 DEF CommitRollback, TypeInv, RequestsResolve
    <2>2. \A j \in 1..Len(scores) :
            /\ scores[j].match \in 0..Len(matches) /\ scores[j].prev \in 0..(j - 1)
            /\ scores[j] \in Score
        BY <1>0, ElementOfSeq DEF TypeInv, References, Chosen
    <2> HIDE DEF i
    <2>3. /\ scores' \in Seq(Score) /\ Len(scores') = Len(scores)
          /\ \A j \in 1..Len(scores) :
                scores'[j].match = scores[j].match /\ scores'[j].prev = scores[j].prev
        <3>1. [scores[i] EXCEPT !.status = "rolled_back"] \in Score
            BY <2>1, <2>2 DEF Score
        <3>2. scores' = [scores EXCEPT ![i] = [scores[i] EXCEPT !.status = "rolled_back"]]
            BY <2>1
        <3>3. /\ scores' \in Seq(Score) /\ Len(scores') = Len(scores)
              /\ \A j \in 1..Len(scores) : scores'[j] =
                    IF j = i THEN [scores[i] EXCEPT !.status = "rolled_back"] ELSE scores[j]
            <4> DEFINE row == [scores[i] EXCEPT !.status = "rolled_back"]
            <4>1. row \in Score
                BY <3>1
            <4>2. scores' = [scores EXCEPT ![i] = row]
                BY <3>2
            <4> HIDE DEF row
            <4>3. QED
                BY <1>0, <2>1, <4>1, <4>2, ExceptSeq DEF row
        <3>4. QED
            BY <2>1, <2>2, <3>3 DEF Score
    <2>4. current' \in 0..Len(scores')
        BY <1>0, <2>1, <2>2, <2>3
    <2>5. LifecycleTypeOK'
        BY <2>1 DEF TypeInv, LifecycleTypeOK, lifecycleVars
    <2>6. ScoreTypeOK'
        BY <2>1, <2>3, <2>4 DEF TypeInv, ScoreTypeOK, propertyVars
    <2>7. References'
        BY <2>1, <2>2, <2>3 DEF TypeInv, References, Chosen, propertyVars, workflowVars
    <2>8. pending' \in [Session -> Request \cup {None}] /\ RequestsResolve'
        <3>1. pending' = [pending EXCEPT ![s] = None] /\ Len(scores') >= Len(scores)
            BY <1>0, <2>1, <2>3
        <3>2. QED
            BY <2>3, <3>1, AskedType
    <2>9. QED
        BY <2>5, <2>6, <2>7, <2>8 DEF TypeInv, workflowVars
<1>8. ASSUME NEW s \in Session, RefuseScoring(s)
      PROVE  TypeInv'
    <2>1. UNCHANGED <<lifecycleVars, propertyVars, scoreVars, scoreRaced>>
          /\ pending' = [pending EXCEPT ![s] = None]
        BY <1>8 DEF RefuseScoring
    <2>2. scores' \in Seq(Score) /\ Len(scores') >= Len(scores)
        BY <1>0, <2>1 DEF scoreVars
    <2>3. pending' \in [Session -> Request \cup {None}] /\ RequestsResolve'
        BY <2>1, <2>2, AskedType
    <2>4. QED
        BY <1>0, <1>1, <2>1, <2>3 DEF scoreVars
<1>9. QED
    BY <1>2, <1>3, <1>4, <1>5, <1>6, <1>7, <1>8 DEF Scoring

LEMMA ReviewingType ==
    ASSUME TypeInv, Reviewing
    PROVE  TypeInv'
<1>0. /\ scores \in Seq(Score) /\ Len(scores) \in Nat /\ Len(scores) <= MaxScores
      /\ current \in 0..Len(scores) /\ MaxScores \in Nat
      /\ alert \in Alert /\ alert.score \in 0..Len(scores)
      /\ job \in JobStatus /\ alertRaced \in BOOLEAN
      /\ pending \in [Session -> Request \cup {None}]
    BY LenProperties, ScoreBoundAssumption DEF TypeInv, ScoreTypeOK, References, Chosen
\* Only the request, the alert and its job change.
<1>1. ASSUME UNCHANGED unrelated, NEW s \in Session, NEW r \in Request \cup {None},
             pending' = [pending EXCEPT ![s] = r],
             r # None =>
                /\ r.op \notin {"score", "rollback"}
                /\ r.op = "generate" => r.score \in 1..Len(scores),
             alert' \in Alert, alert'.score \in 0..Len(scores),
             job' \in JobStatus, alertRaced' \in BOOLEAN
      PROVE  TypeInv'
    <2>1. LifecycleTypeOK'
        BY <1>1 DEF TypeInv, LifecycleTypeOK, lifecycleVars, unrelated
    <2>2. ScoreTypeOK'
        BY <1>1 DEF TypeInv, ScoreTypeOK, propertyVars, scoreVars, unrelated
    <2>3. References'
        BY <1>1 DEF TypeInv, References, Chosen, propertyVars, scoreVars, unrelated
    <2>4. /\ scores' \in Seq(Score) /\ Len(scores') >= Len(scores)
        BY <1>0, <1>1 DEF unrelated, scoreVars
    <2>5. pending' \in [Session -> Request \cup {None}] /\ RequestsResolve'
        BY <1>1, <2>4, AskedType
    <2>6. {client', alertRaced'} \subseteq BOOLEAN
        BY <1>1 DEF TypeInv, unrelated
    <2>7. QED
        BY <1>1, <2>1, <2>2, <2>3, <2>5, <2>6 DEF TypeInv
<1>2. ASSUME NEW s \in Session, BeginGenerate(s)
      PROVE  TypeInv'
    <2> DEFINE verdict == Verdict(current)
               r == [op |-> "generate", score |-> current, alert |-> alert, verdict |-> verdict]
    <2>1. verdict \in {"eligible", "suppress", "leave"}
        BY DEF Verdict
    <2>2. current \in 1..Len(scores) /\ current \in 1..MaxScores
        BY <1>0, <1>2 DEF BeginGenerate
    <2>3. UNCHANGED unrelated /\ UNCHANGED <<alert, job, alertRaced>>
          /\ pending' = [pending EXCEPT ![s] = r]
        BY <1>2 DEF BeginGenerate, Asks
    <2> HIDE DEF verdict
    <2>4. r \in Request
        BY <1>0, <2>1, <2>2 DEF Request
    <2>5. QED
        BY <1>0, <1>1, <2>2, <2>3, <2>4
<1>3. ASSUME NEW s \in Session, CommitGenerate(s)
      PROVE  TypeInv'
    <2> DEFINE request == pending[s]
    <2>1. /\ request.score \in 1..Len(scores) /\ request.score \in 1..MaxScores
          /\ request.alert \in Alert
        BY <1>0, <1>3 DEF CommitGenerate, Answers, TypeInv, RequestsResolve, Request, LifecycleRequest
    <2>2. UNCHANGED unrelated /\ pending' = [pending EXCEPT ![s] = None]
          /\ alertRaced' \in BOOLEAN
        BY <1>0, <1>3 DEF CommitGenerate, Answers
    <2>3. alert' \in Alert /\ alert'.score \in 0..Len(scores) /\ job' \in JobStatus
        <3>1. CASE CreateAlert(request)
            BY <1>0, <2>1, <3>1 DEF CreateAlert, Alert, AlertStatus, ActiveStatus, JobStatus
        <3>2. CASE SuppressAlert(request)
            BY <1>0, <3>2 DEF SuppressAlert, Alert, AlertStatus, TERMINAL_ALERT_STATES
        <3>3. CASE RefreshAlert(request)
            BY <1>0, <2>1, <3>3 DEF RefreshAlert, Alert
        <3>4. CASE LeaveAlert(request)
            BY <1>0, <3>4 DEF LeaveAlert
        <3>5. QED
            BY <1>3, <3>1, <3>2, <3>3, <3>4 DEF CommitGenerate
    <2>4. QED
        BY <1>1, <2>2, <2>3
<1>4. ASSUME NEW s \in Session, RefuseGenerate(s)
      PROVE  TypeInv'
    BY <1>0, <1>1, <1>4 DEF RefuseGenerate, Answers
<1>5. ASSUME NEW s \in Session, NEW action \in Action, BeginChange(s, action)
      PROVE  TypeInv'
    <2>1. PICK to \in ChangesTo(action) :
            pending' = [pending EXCEPT ![s] =
                [op |-> "change", to |-> to, alert |-> alert, job |-> job]]
        BY <1>5 DEF BeginChange, Asks
    <2>2. to \in AlertStatus
        BY DEF ChangesTo, AlertStatus, ActiveStatus, TERMINAL_ALERT_STATES
    <2>3. [op |-> "change", to |-> to, alert |-> alert, job |-> job] \in Request
        BY <1>0, <2>2 DEF Request
    <2>4. UNCHANGED unrelated /\ UNCHANGED <<alert, job, alertRaced>>
        BY <1>5 DEF BeginChange
    <2>5. QED
        BY <1>0, <1>1, <2>1, <2>3, <2>4
<1>6. ASSUME NEW s \in Session, CommitChange(s)
      PROVE  TypeInv'
    <2> DEFINE request == pending[s]
    <2>1. request.to \in AlertStatus
        BY <1>0, <1>6 DEF CommitChange, Answers, Request, LifecycleRequest
    <2>2. UNCHANGED unrelated /\ pending' = [pending EXCEPT ![s] = None]
          /\ alertRaced' \in BOOLEAN
        BY <1>0, <1>6 DEF CommitChange, Answers
    <2>3. alert' \in Alert /\ alert'.score = alert.score
        BY <1>0, <1>6, <2>1 DEF CommitChange, Alert
    <2>4. job' \in JobStatus
        BY <1>0, <1>6 DEF CommitChange, JobStatus
    <2>5. QED
        BY <1>0, <1>1, <2>2, <2>3, <2>4
<1>7. ASSUME NEW s \in Session, BeginDispatch(s)
      PROVE  TypeInv'
    <2>1. [op |-> "dispatch", alert |-> alert] \in Request
        BY <1>0 DEF Request
    <2>2. UNCHANGED unrelated /\ UNCHANGED <<alert, job, alertRaced>>
          /\ pending' = [pending EXCEPT ![s] = [op |-> "dispatch", alert |-> alert]]
        BY <1>7 DEF BeginDispatch, Asks
    <2>3. QED
        BY <1>0, <1>1, <2>1, <2>2
<1>8. ASSUME NEW s \in Session, CommitDispatch(s)
      PROVE  TypeInv'
    BY <1>0, <1>1, <1>8 DEF CommitDispatch, Answers, JobStatus
<1>9. QED
    BY <1>2, <1>3, <1>4, <1>5, <1>6, <1>7, <1>8 DEF Reviewing

LEMMA TypeInitial == Init => TypeInv
<1> SUFFICES ASSUME Init PROVE TypeInv
    OBVIOUS
<1>1. LifecycleTypeOK
    <2> DEFINE row == [state |-> "Newly observed", contradictions |-> FALSE,
                       signal |-> "not_issued", is_active |-> TRUE]
    <2>1. row \in Incident
        BY DEF Incident, VALID_STATES
    <2>2. evidence \in Situation /\ incident = Recomputed(row, evidence)
        BY DEF Init, LifecycleInit
    <2> HIDE DEF row
    <2>3. QED
        BY <2>1, <2>2, RecomputedType DEF LifecycleTypeOK, Linked
<1>2. /\ imports = <<>> /\ live = 0 /\ matches = <<>> /\ scores = <<>> /\ current = 0
      /\ decision = [kind |-> "none", match |-> 0, choice |-> NoFacts] /\ override = FALSE /\ scoreRaced = FALSE
      /\ pending = [s \in Session |-> None]
      /\ alert = [status |-> "none", score |-> 0] /\ job = "none"
      /\ client = FALSE /\ alertRaced = FALSE
    BY DEF Init, ScoreInit
<1>3. ScoreTypeOK
    <2>1. /\ imports \in Seq(Import) /\ matches \in Seq(Match) /\ scores \in Seq(Score)
          /\ Len(imports) = 0 /\ Len(matches) = 0 /\ Len(scores) = 0
        BY <1>2
    <2>2. decision \in Decision(matches)
        BY <1>2, <2>1 DEF DecisionKind, Decision, NoFacts, Facts
    <2>3. MaxImports \in Nat /\ MaxMatches \in Nat /\ MaxScores \in Nat
        BY ScoreBoundAssumption
    <2>4. /\ Len(imports) <= MaxImports /\ Len(matches) <= MaxMatches /\ Len(scores) <= MaxScores
          /\ live \in 0..Len(imports) /\ current \in 0..Len(scores)
        BY <1>2, <2>1, <2>3
    <2>5. override \in BOOLEAN /\ scoreRaced \in BOOLEAN
        BY <1>2
    <2>6. QED
        BY <2>1, <2>2, <2>4, <2>5 DEF ScoreTypeOK
<1>4. alert \in Alert /\ job \in JobStatus /\ pending \in [Session -> Request \cup {None}]
    BY <1>2, ScoreBoundAssumption DEF Alert, JobStatus
<1>5. References /\ RequestsResolve
    BY <1>2 DEF References, Chosen, RequestsResolve
<1>6. QED
    BY <1>1, <1>2, <1>3, <1>4, <1>5 DEF TypeInv

\* What the requests on the incident itself ask and answer.
LEMMA LifecycleAsks ==
    ASSUME TypeInv, EvidenceChange \/ EvidenceCommit
    PROVE  \E s \in Session : \E r \in LifecycleRequest \cup {None} :
                pending' = [pending EXCEPT ![s] = r]
<1>1. ASSUME NEW s \in Session, NEW e \in Linked, BeginRecompute(s, e)
      PROVE  \E r \in LifecycleRequest : pending' = [pending EXCEPT ![s] = r]
    <2> DEFINE r == [op |-> "recompute", row |-> incident, from |-> evidence, to |-> e]
    <2>1. r \in LifecycleRequest
        BY DEF TypeInv, LifecycleTypeOK, LifecycleRequest
    <2>2. pending' = [pending EXCEPT ![s] = r]
        BY <1>1 DEF BeginRecompute, Asks
    <2> HIDE DEF r
    <2>3. QED
        BY <2>1, <2>2
<1>2. ASSUME NEW s \in Session, NEW state \in Disposition, BeginTransition(s, state)
      PROVE  \E r \in LifecycleRequest : pending' = [pending EXCEPT ![s] = r]
    <2> DEFINE r == [op |-> "transition", row |-> incident, to |-> state]
    <2>1. incident \in Incident /\ incident.state \in VALID_STATES
        BY DEF TypeInv, LifecycleTypeOK, Incident
    <2>2. state \in VALID_STATES
        BY <1>2, <2>1, AllowedAreStates DEF BeginTransition
    <2>3. r \in LifecycleRequest
        BY <2>1, <2>2 DEF LifecycleRequest
    <2>4. pending' = [pending EXCEPT ![s] = r]
        BY <1>2 DEF BeginTransition, Asks
    <2> HIDE DEF r
    <2>5. QED
        BY <2>3, <2>4
<1>3. ASSUME NEW s \in Session, BeginAbsorption(s)
      PROVE  \E r \in LifecycleRequest : pending' = [pending EXCEPT ![s] = r]
    <2> DEFINE r == [op |-> "absorb", row |-> incident, from |-> evidence]
    <2>1. r \in LifecycleRequest
        BY DEF TypeInv, LifecycleTypeOK, LifecycleRequest
    <2>2. pending' = [pending EXCEPT ![s] = r]
        BY <1>3 DEF BeginAbsorption, Asks
    <2> HIDE DEF r
    <2>3. QED
        BY <2>1, <2>2
<1>4. ASSUME NEW s \in Session, CommitRecompute(s) \/ CommitTransition(s) \/ CommitAbsorption(s)
      PROVE  pending' = [pending EXCEPT ![s] = None]
    BY <1>4 DEF CommitRecompute, CommitTransition, CommitAbsorption, Answers
<1>5. CASE EvidenceChange
    BY <1>1, <1>2, <1>3, <1>5 DEF EvidenceChange
<1>6. CASE EvidenceCommit
    BY <1>4, <1>6 DEF EvidenceCommit
<1>7. QED
    BY <1>5, <1>6

LEMMA LifecycleStepType ==
    ASSUME TypeInv, EvidenceChange \/ EvidenceCommit
    PROVE  TypeInv'
<1>1. UNCHANGED <<propertyVars, scoreVars, scoreRaced, workflowVars>>
    BY DEF EvidenceChange, EvidenceCommit
<1>2. ScoreTypeOK' /\ References'
    BY <1>1 DEF TypeInv, ScoreTypeOK, References, Chosen, propertyVars, scoreVars, workflowVars
<1>3. LifecycleTypeOK'
    <2>1. CASE EvidenceChange
        BY <2>1 DEF EvidenceChange, BeginRecompute, BeginTransition, BeginAbsorption,
                    lifecycleVars, TypeInv, LifecycleTypeOK
    <2>2. CASE EvidenceCommit
        BY <2>2, CommitsWriteIncidents DEF TypeInv
    <2>3. QED
        BY <2>1, <2>2
<1>4. PICK s \in Session : \E r \in LifecycleRequest \cup {None} : pending' = [pending EXCEPT ![s] = r]
    BY LifecycleAsks
<1>5. PICK r \in LifecycleRequest \cup {None} : pending' = [pending EXCEPT ![s] = r]
    BY <1>4
<1>6. /\ r \in Request \cup {None}
      /\ r # None => r.op \in {"recompute", "transition", "absorb"}
    BY <1>5 DEF Request, LifecycleRequest
<1>7. scores' \in Seq(Score) /\ Len(scores') >= Len(scores)
    BY <1>1, LenProperties DEF scoreVars, TypeInv, ScoreTypeOK
<1>8. pending' \in [Session -> Request \cup {None}] /\ RequestsResolve'
    BY <1>5, <1>6, <1>7, AskedType
<1>9. QED
    BY <1>1, <1>2, <1>3, <1>8 DEF TypeInv, workflowVars

LEMMA TypeStep ==
    ASSUME TypeInv, [Next]_vars
    PROVE  TypeInv'
<1>1. CASE EvidenceChange \/ EvidenceCommit
    BY <1>1, LifecycleStepType
<1>2. CASE (PropertyChange \/ Review \/ Matching) /\ UNCHANGED workflowVars
    BY <1>2, PropertyStepType
<1>3. CASE ImportClients \/ UNCHANGED vars
    <2>1. UNCHANGED <<lifecycleVars, propertyVars, scoreVars, pending, scoreRaced,
                      alert, job, alertRaced>>
          /\ client' \in BOOLEAN
        BY <1>3 DEF ImportClients, vars, workflowVars, TypeInv
    <2>2. LifecycleTypeOK' /\ ScoreTypeOK'
        BY <2>1 DEF TypeInv, LifecycleTypeOK, lifecycleVars, ScoreTypeOK, propertyVars, scoreVars
    <2>3. References' /\ RequestsResolve'
        BY <2>1 DEF TypeInv, References, Chosen, RequestsResolve, propertyVars, scoreVars
    <2>4. QED
        BY <2>1, <2>2, <2>3 DEF TypeInv
<1>4. CASE Scoring /\ UNCHANGED workflowVars
    BY <1>4, ScoringType
<1>5. CASE Reviewing
    BY <1>5, ReviewingType
<1>6. QED
    BY <1>1, <1>2, <1>3, <1>4, <1>5 DEF Next, Event, Service

\* The rows and requests keep their shape, whatever the observations, the parcels and
\* the requests are.
THEOREM TypeSafety == Spec => []TypeOK
<1> DEFINE Inv == TypeInv /\ events \in 0..MaxEvents
<1>1. Init => Inv
    BY TypeInitial, EventBoundAssumption DEF Init
<1>2. Inv /\ [Next]_vars => Inv'
    <2>1. SUFFICES ASSUME Inv, [Next]_vars PROVE events' \in 0..MaxEvents
        BY TypeStep
    <2>2. Counted(0) \/ Counted(1) \/ UNCHANGED events
        BY <2>1 DEF Next, vars
    <2>3. QED
        BY <2>1, <2>2, EventBoundAssumption DEF Counted
<1>3. Inv => TypeOK
    BY DEF TypeInv, TypeOK
<1>4. QED
    BY <1>1, <1>2, <1>3, PTL DEF Spec

----------------------------------------------------------------------------
(* The incident *)

\* A transition that is under way is one an operator may make of the state that was read.
TransitionsAllowed ==
    \A s \in Session : pending[s] # None /\ pending[s].op = "transition" =>
        pending[s].to \in ALLOWED_TRANSITIONS[pending[s].row.state]

\* Nothing else in the program writes the incident.
LEMMA IncidentSteps ==
    ASSUME [Next]_vars
    PROVE  \/ \E s \in Session : CommitRecompute(s) \/ CommitTransition(s) \/ CommitAbsorption(s)
           \/ UNCHANGED lifecycleVars
BY DEF Next, Event, Service, vars, ImportClients, PropertyChange, PropertyImported,
       PropertyRolledBack, Review, DecideMatch, RecordOverride, Matching, CreateMatch,
       Scoring, DeactivateNonFire, Refresh, BeginScore, CommitScore, BeginRollback,
       CommitRollback, RefuseScoring, Reviewing, BeginGenerate, CommitGenerate,
       RefuseGenerate, BeginChange, CommitChange, BeginDispatch, CommitDispatch, unrelated,
       EvidenceChange, EvidenceCommit, BeginRecompute, BeginTransition, BeginAbsorption

\* A step leaves the requests alone, or one session asks or has been answered.
LEMMA PendingSteps ==
    ASSUME [Next]_vars
    PROVE  \/ pending' = pending
           \/ \E s \in Session : pending' = [pending EXCEPT ![s] = None]
           \/ \E s \in Session, state \in Disposition : BeginTransition(s, state)
           \/ \E s \in Session, action \in Action : BeginChange(s, action)
           \/ \E s \in Session : \E r :
                /\ pending' = [pending EXCEPT ![s] = r]
                /\ r.op \in {"recompute", "absorb", "score", "rollback", "generate", "dispatch"}
<1> DEFINE Asked == \E s \in Session : \E r :
                /\ pending' = [pending EXCEPT ![s] = r]
                /\ r.op \in {"recompute", "absorb", "score", "rollback", "generate", "dispatch"}
           Answered == \E s \in Session : pending' = [pending EXCEPT ![s] = None]
<1>1. ASSUME NEW s \in Session, NEW r, pending' = [pending EXCEPT ![s] = r],
             r.op \in {"recompute", "absorb", "score", "rollback", "generate", "dispatch"}
      PROVE  Asked
    BY <1>1
<1> HIDE DEF Asked
<1>2. CASE EvidenceChange
    <2>1. ASSUME NEW s \in Session, NEW e, BeginRecompute(s, e)
          PROVE  Asked
        BY <1>1, <2>1 DEF BeginRecompute, Asks
    <2>2. ASSUME NEW s \in Session, BeginAbsorption(s)
          PROVE  Asked
        BY <1>1, <2>2 DEF BeginAbsorption, Asks
    <2>3. QED
        BY <1>2, <2>1, <2>2 DEF EvidenceChange, Asked
<1>3. CASE EvidenceCommit
    BY <1>3 DEF EvidenceCommit, CommitRecompute, CommitTransition, CommitAbsorption, Answers
<1>4. CASE Scoring
    <2>1. ASSUME NEW s \in Session, BeginScore(s)
          PROVE  Asked
        BY <1>1, <2>1 DEF BeginScore
    <2>2. ASSUME NEW s \in Session, BeginRollback(s)
          PROVE  Asked
        BY <1>1, <2>2 DEF BeginRollback
    <2>3. ASSUME NEW s \in Session, CommitScore(s) \/ CommitRollback(s) \/ RefuseScoring(s)
          PROVE  Answered
        BY <2>3 DEF CommitScore, CommitRollback, RefuseScoring
    <2>4. CASE DeactivateNonFire \/ Refresh
        BY <2>4 DEF DeactivateNonFire, Refresh
    <2>5. QED
        BY <1>4, <2>1, <2>2, <2>3, <2>4 DEF Scoring, Asked
<1>5. CASE Reviewing
    <2>1. ASSUME NEW s \in Session, BeginGenerate(s)
          PROVE  Asked
        BY <1>1, <2>1 DEF BeginGenerate, Asks
    <2>2. ASSUME NEW s \in Session, BeginDispatch(s)
          PROVE  Asked
        BY <1>1, <2>2 DEF BeginDispatch, Asks
    <2>3. ASSUME NEW s \in Session,
                 CommitGenerate(s) \/ RefuseGenerate(s) \/ CommitChange(s) \/ CommitDispatch(s)
          PROVE  Answered
        BY <2>3 DEF CommitGenerate, RefuseGenerate, CommitChange, CommitDispatch, Answers
    <2>4. QED
        BY <1>5, <2>1, <2>2, <2>3 DEF Reviewing, Asked
<1>6. CASE (PropertyChange \/ Review \/ Matching) \/ ImportClients \/ UNCHANGED vars
    BY <1>6 DEF vars, ImportClients, PropertyChange, PropertyImported, PropertyRolledBack,
                Review, DecideMatch, RecordOverride, Matching, CreateMatch
<1>7. QED
    BY <1>2, <1>3, <1>4, <1>5, <1>6 DEF Next, Event, Service

LEMMA TransitionsAllowedStep ==
    ASSUME TypeInv, TransitionsAllowed, [Next]_vars
    PROVE  TransitionsAllowed'
<1>1. ASSUME NEW s \in Session, NEW r, pending' = [pending EXCEPT ![s] = r],
             r # None /\ r.op = "transition" => r.to \in ALLOWED_TRANSITIONS[r.row.state]
      PROVE  TransitionsAllowed'
    <2>1. ASSUME NEW t \in Session, pending'[t] # None, pending'[t].op = "transition"
          PROVE  pending'[t].to \in ALLOWED_TRANSITIONS[pending'[t].row.state]
        <3>1. pending'[t] = IF t = s THEN r ELSE pending[t]
            BY <1>1 DEF TypeInv
        <3>2. CASE t = s
            BY <1>1, <2>1, <3>1, <3>2
        <3>3. CASE t # s
            BY <2>1, <3>1, <3>3 DEF TransitionsAllowed
        <3>4. QED
            BY <3>2, <3>3
    <2>2. QED
        BY <2>1 DEF TransitionsAllowed
<1>2. ASSUME NEW s \in Session, NEW state \in Disposition, BeginTransition(s, state)
      PROVE  TransitionsAllowed'
    <2> DEFINE r == [op |-> "transition", row |-> incident, to |-> state]
    <2>1. /\ pending' = [pending EXCEPT ![s] = r]
          /\ r.to \in ALLOWED_TRANSITIONS[r.row.state]
        BY <1>2 DEF BeginTransition, Asks
    <2> HIDE DEF r
    <2>2. QED
        BY <1>1, <2>1
<1>3. ASSUME NEW s \in Session, NEW action \in Action, BeginChange(s, action)
      PROVE  TransitionsAllowed'
    <2>1. PICK to \in ChangesTo(action) :
            pending' = [pending EXCEPT ![s] =
                [op |-> "change", to |-> to, alert |-> alert, job |-> job]]
        BY <1>3 DEF BeginChange, Asks
    <2> DEFINE r == [op |-> "change", to |-> to, alert |-> alert, job |-> job]
    <2>2. r.op # "transition" /\ pending' = [pending EXCEPT ![s] = r]
        BY <2>1
    <2> HIDE DEF r
    <2>3. QED
        BY <1>1, <2>2
<1>4. CASE pending' = pending
    BY <1>4 DEF TransitionsAllowed
<1>5. ASSUME NEW s \in Session, pending' = [pending EXCEPT ![s] = None]
      PROVE  TransitionsAllowed'
    BY <1>1, <1>5
<1>6. ASSUME NEW s \in Session, NEW r, pending' = [pending EXCEPT ![s] = r],
             r.op \in {"recompute", "absorb", "score", "rollback", "generate", "dispatch"}
      PROVE  TransitionsAllowed'
    BY <1>1, <1>6
<1>7. QED
    BY <1>2, <1>3, <1>4, <1>5, <1>6, PendingSteps

\* Whatever overlaps, a request that has read a disposition changes it only as an operator
\* may, by absorbing the incident, or on contradicting observations, and then not a
\* suppression; what brings an incident back otherwise began before it was settled.
THEOREM SettledIncidentsStay == Spec => DispositionHolds
<1> DEFINE Inv == TypeInv /\ TransitionsAllowed
           Excused(s) ==
            LET request == pending[s]
            IN  /\ request # None /\ pending'[s] = None
                /\ request.op \in {"recompute", "transition", "absorb"}
                /\ \/ request.row.state # incident.state
                   \/ /\ request.op = "transition"
                      /\ incident'.state \in ALLOWED_TRANSITIONS[incident.state]
                   \/ request.op = "absorb" /\ incident'.state = "Closed"
                   \/ /\ request.op = "recompute" /\ incident.state # "Suppressed"
                      /\ Conflicting(request.to) \/ Conflicting(evidence')
           Holds == incident.state \in TERMINAL_STATES /\ incident'.state # incident.state =>
                \E s \in Session : Excused(s)
<1>1. Init => Inv
    <2>1. Init => TransitionsAllowed
        BY DEF Init, ScoreInit, TransitionsAllowed
    <2>2. QED
        BY <2>1, TypeInitial
<1>2. Inv /\ [Next]_vars => Inv'
    BY TypeStep, TransitionsAllowedStep
<1>3. Inv /\ [Next]_vars => [Holds]_vars
    <2> SUFFICES ASSUME Inv, Next, incident.state \in TERMINAL_STATES,
                        incident'.state # incident.state
                 PROVE  \E s \in Session : Excused(s)
        BY DEF vars
    <2>0. /\ pending \in [Session -> Request \cup {None}] /\ LifecycleTypeOK
          /\ incident \in Incident
        BY DEF TypeInv, LifecycleTypeOK
    <2>1. ASSUME NEW s \in Session, CommitRecompute(s), pending[s].row.state = incident.state
          PROVE  Excused(s)
        <3> DEFINE request == pending[s]
        <3>1. /\ request # None /\ request.op = "recompute" /\ pending'[s] = None
              /\ request.row \in Incident
            BY <2>0, <2>1 DEF CommitRecompute, Answers, Request, LifecycleRequest
        <3>2. PICK e \in {request.to, evidence'} :
                incident' = Written(request.row, Recomputed(request.row, e))
            BY <2>1 DEF CommitRecompute
        <3> DEFINE new == Recomputed(request.row, e)
        <3>3. new \in Incident
            BY <3>1, RecomputedType
        <3> HIDE DEF new
        <3>4. incident'.state = Column(request.row.state, new.state, incident.state)
            BY <2>0, <3>1, <3>2, <3>3, WrittenType DEF new
        <3>5. new.state # incident.state
            BY <2>1, <3>4 DEF Column
        <3>6. e # Nothing /\ new.state = StateFor(incident.state, e)
            BY <2>1, <3>1, <3>5 DEF new, Recomputed, Incident
        <3>7. Contradictory(e) /\ incident.state # "Suppressed"
            BY <3>5, <3>6 DEF StateFor
        <3>8. Conflicting(e)
            BY <3>6, <3>7 DEF Conflicting
        <3>9. QED
            BY <3>1, <3>2, <3>7, <3>8
    <2>2. ASSUME NEW s \in Session, CommitTransition(s), pending[s].row.state = incident.state
          PROVE  Excused(s)
        <3> DEFINE request == pending[s]
                   new == [request.row EXCEPT !.state = request.to]
        <3>1. /\ request # None /\ request.op = "transition" /\ pending'[s] = None
              /\ request.row \in Incident /\ request.to \in VALID_STATES
            BY <2>0, <2>2 DEF CommitTransition, Answers, Request, LifecycleRequest
        <3>2. new \in Incident /\ new.state = request.to
            BY <3>1 DEF Incident
        <3>3. incident' = Written(request.row, new)
            BY <2>2 DEF CommitTransition
        <3> HIDE DEF new
        <3>4. incident'.state = Column(request.row.state, new.state, incident.state)
            BY <2>0, <3>1, <3>2, <3>3, WrittenType
        <3>5. incident'.state = request.to
            BY <3>2, <3>4 DEF Column
        <3>6. request.to \in ALLOWED_TRANSITIONS[incident.state]
            BY <2>2, <3>1 DEF TransitionsAllowed
        <3>7. QED
            BY <3>1, <3>5, <3>6
    <2>3. ASSUME NEW s \in Session, CommitAbsorption(s), pending[s].row.state = incident.state
          PROVE  Excused(s)
        <3> DEFINE request == pending[s]
                   new == [request.row EXCEPT !.is_active = FALSE, !.state = "Closed"]
        <3>1. /\ request # None /\ request.op = "absorb" /\ pending'[s] = None
              /\ request.row \in Incident
            BY <2>0, <2>3 DEF CommitAbsorption, Answers, Request, LifecycleRequest
        <3>2. new \in Incident /\ new.state = "Closed"
            BY <3>1 DEF Incident, VALID_STATES
        <3>3. incident' = Written(request.row, new)
            BY <2>3 DEF CommitAbsorption
        <3> HIDE DEF new
        <3>4. incident'.state = Column(request.row.state, new.state, incident.state)
            BY <2>0, <3>1, <3>2, <3>3, WrittenType
        <3>5. QED
            BY <3>1, <3>2, <3>4 DEF Column
    <2>4. ASSUME NEW s \in Session, pending[s].row.state # incident.state,
                 CommitRecompute(s) \/ CommitTransition(s) \/ CommitAbsorption(s)
          PROVE  Excused(s)
        BY <2>0, <2>4 DEF CommitRecompute, CommitTransition, CommitAbsorption, Answers
    <2>5. ~UNCHANGED lifecycleVars
        BY DEF lifecycleVars
    <2> HIDE DEF Excused
    <2>6. QED
        BY <2>1, <2>2, <2>3, <2>4, <2>5, IncidentSteps
<1>4. QED
    BY <1>1, <1>2, <1>3, PTL DEF Spec, DispositionHolds

----------------------------------------------------------------------------
(* The alert and its notice *)

\* What a change request has read of the alert it changes.
ChangesRead ==
    \A s \in Session : pending[s] # None /\ pending[s].op = "change" =>
        /\ pending[s].alert.status \notin {"none", "ended"}
        /\ pending[s].to = "open" => pending[s].alert.status = "suppressed"
        /\ pending[s].to = "handled" => pending[s].alert.status \in ActiveStatus

LEMMA ChangesReadStep ==
    ASSUME TypeInv, ChangesRead, [Next]_vars
    PROVE  ChangesRead'
<1>1. ASSUME NEW s \in Session, NEW r,
             pending' = [pending EXCEPT ![s] = r], r # None => r.op # "change"
      PROVE  ChangesRead'
    <2>1. ASSUME NEW t \in Session, pending'[t] # None, pending'[t].op = "change"
          PROVE  pending'[t] = pending[t]
        BY <1>1, <2>1 DEF TypeInv
    <2>2. QED
        BY <2>1 DEF ChangesRead
<1>2. ASSUME NEW s \in Session, NEW action \in Action, BeginChange(s, action)
      PROVE  ChangesRead'
    <2>1. PICK to \in ChangesTo(action) :
            pending' = [pending EXCEPT ![s] =
                [op |-> "change", to |-> to, alert |-> alert, job |-> job]]
        BY <1>2 DEF BeginChange, Asks
    <2>2. /\ alert.status \notin {"none", "ended"}
          /\ to = "open" => alert.status = "suppressed"
          /\ to = "handled" => alert.status \in ActiveStatus
        BY DEF ChangesTo, TypeInv, Alert, AlertStatus, ActiveStatus, TERMINAL_ALERT_STATES
    <2>3. ASSUME NEW t \in Session, t # s PROVE pending'[t] = pending[t]
        BY <2>1, <2>3 DEF TypeInv
    <2>4. pending'[s] = [op |-> "change", to |-> to, alert |-> alert, job |-> job]
        BY <2>1 DEF TypeInv
    <2>5. QED
        BY <2>2, <2>3, <2>4 DEF ChangesRead
<1>3. CASE pending' = pending
    BY <1>3 DEF ChangesRead
<1>4. ASSUME NEW s \in Session, pending' = [pending EXCEPT ![s] = None]
      PROVE  ChangesRead'
    BY <1>1, <1>4
<1>5. ASSUME NEW s \in Session, NEW r, pending' = [pending EXCEPT ![s] = r],
             r.op \in {"recompute", "absorb", "score", "rollback", "generate", "dispatch"}
      PROVE  ChangesRead'
    BY <1>1, <1>5
<1>6. ASSUME NEW s \in Session, NEW state \in Disposition, BeginTransition(s, state)
      PROVE  ChangesRead'
    BY <1>1, <1>6 DEF BeginTransition, Asks
<1>7. QED
    BY <1>2, <1>3, <1>4, <1>5, <1>6, PendingSteps

\* Nothing but the three alert requests writes the alert, its job and the history of races.
LEMMA AlertSteps ==
    ASSUME [Next]_vars
    PROVE  \/ UNCHANGED <<alert, job, alertRaced>>
           \/ \E s \in Session : CommitGenerate(s) \/ CommitChange(s) \/ CommitDispatch(s)
BY DEF Next, Event, Service, vars, EvidenceChange, EvidenceCommit, ImportClients, workflowVars,
       Reviewing,
       BeginGenerate, RefuseGenerate, BeginChange, BeginDispatch

\* A resolved or revoked alert is changed only by a request that read it before it was.
THEOREM EndedAlertsStayEnded == Spec => EndedAlertsStay
<1> DEFINE Inv == TypeInv /\ ChangesRead
<1>1. Init => Inv
    BY TypeInitial DEF Init, ScoreInit, ChangesRead
<1>2. Inv /\ [Next]_vars => Inv'
    BY TypeStep, ChangesReadStep
<1>3. Inv /\ [Next]_vars => [alert.status = "ended" /\ ~alertRaced' => alert' = alert]_vars
    <2> SUFFICES ASSUME Inv, Next, alert.status = "ended", ~alertRaced'
                 PROVE  alert' = alert
        OBVIOUS
    <2>1. ASSUME NEW s \in Session, CommitGenerate(s)
          PROVE  alert' = alert
        <3>1. pending[s].alert = alert
            BY <2>1 DEF CommitGenerate
        <3>2. CASE CreateAlert(pending[s]) \/ SuppressAlert(pending[s]) \/ RefreshAlert(pending[s])
            BY <3>1, <3>2 DEF CreateAlert, SuppressAlert, RefreshAlert, ActiveStatus
        <3>3. CASE LeaveAlert(pending[s])
            BY <3>3 DEF LeaveAlert
        <3>4. QED
            BY <2>1, <3>2, <3>3 DEF CommitGenerate
    <2>2. ASSUME NEW s \in Session, CommitChange(s)
          PROVE  FALSE
        BY <2>2 DEF CommitChange, Answers, ChangesRead
    <2>3. ASSUME NEW s \in Session, CommitDispatch(s)
          PROVE  alert' = alert
        BY <2>3 DEF CommitDispatch
    <2>4. QED
        BY <2>1, <2>2, <2>3, AlertSteps
<1>4. QED
    BY <1>1, <1>2, <1>3, PTL DEF Spec, EndedAlertsStay

\* Until requests overlap, an alert has its notice.
Noticed ==
    ~alertRaced =>
        /\ alert.status # "none" => job # "none"
        /\ alert.status \in ActiveStatus => job \in {"pending", "delivered"}

LEMMA NoticedStep ==
    ASSUME TypeInv, ChangesRead, Noticed, [Next]_vars
    PROVE  Noticed'
<1>0. alert \in Alert /\ job \in JobStatus
    BY DEF TypeInv
<1>1. ASSUME NEW s \in Session, CommitGenerate(s), ~alertRaced'
      PROVE  Noticed'
    <2>1. pending[s].alert = alert /\ ~alertRaced
        BY <1>1 DEF CommitGenerate
    <2>2. CASE CreateAlert(pending[s])
        BY <2>2 DEF CreateAlert, Noticed
    <2>3. CASE SuppressAlert(pending[s])
        BY <1>0, <2>1, <2>3 DEF SuppressAlert, Noticed, Alert, ActiveStatus
    <2>4. CASE RefreshAlert(pending[s])
        BY <1>0, <2>1, <2>4 DEF RefreshAlert, Noticed, Alert
    <2>5. CASE LeaveAlert(pending[s])
        BY <2>1, <2>5 DEF LeaveAlert, Noticed
    <2>6. QED
        BY <1>1, <2>2, <2>3, <2>4, <2>5 DEF CommitGenerate
<1>2. ASSUME NEW s \in Session, CommitChange(s), ~alertRaced'
      PROVE  Noticed'
    <2>1. /\ pending[s].alert = alert /\ pending[s].job = job /\ ~alertRaced
          /\ pending[s] # None /\ pending[s].op = "change"
        BY <1>2 DEF CommitChange, Answers
    <2>2. /\ alert.status # "none"
          /\ pending[s].to = "open" => alert.status = "suppressed"
          /\ pending[s].to = "handled" => alert.status \in ActiveStatus
        BY <2>1 DEF ChangesRead
    <2>3. alert'.status = pending[s].to
        BY <1>0, <1>2, <2>1 DEF CommitChange, Alert
    <2>4. job' = IF pending[s].to = "open" /\ job = "suppressed" THEN "pending" ELSE job
        BY <1>2, <2>1 DEF CommitChange
    <2>5. job # "none" /\ (alert.status \in ActiveStatus => job \in {"pending", "delivered"})
        BY <2>1, <2>2 DEF Noticed
    <2>6. QED
        BY <1>0, <2>2, <2>3, <2>4, <2>5 DEF Noticed, ActiveStatus, JobStatus
<1>3. ASSUME NEW s \in Session, CommitDispatch(s), ~alertRaced'
      PROVE  Noticed'
    BY <1>3 DEF CommitDispatch, Noticed, ActiveStatus, TERMINAL_ALERT_STATES
<1>4. CASE UNCHANGED <<alert, job, alertRaced>>
    BY <1>4 DEF Noticed
<1>5. CASE alertRaced'
    BY <1>5 DEF Noticed
<1>6. QED
    BY <1>1, <1>2, <1>3, <1>4, <1>5, AlertSteps

\* However generations, changes and dispatches follow each other, an alert to handle
\* has its notice.
THEOREM AlertsHaveNotices == Spec => []NoticeFollowsAlert
<1> DEFINE Inv == TypeInv /\ ChangesRead /\ Noticed
<1>1. Init => Inv
    BY TypeInitial DEF Init, ScoreInit, ChangesRead, Noticed, ActiveStatus
<1>2. Inv /\ [Next]_vars => Inv'
    BY TypeStep, ChangesReadStep, NoticedStep
<1>3. Inv => NoticeFollowsAlert
    BY DEF Noticed, NoticeFollowsAlert
<1>4. QED
    BY <1>1, <1>2, <1>3, PTL DEF Spec

----------------------------------------------------------------------------
(* The score runs *)

\* Until a scoring or a rollback commits on a current run that has changed, the runs that
\* are not rolled back are a chain that ends in the current one, if there is one.
Chain ==
    ~scoreRaced =>
        /\ current # 0 => ~RolledBack(current)
        /\ \A i, j \in 1..Len(scores) : scores[j].prev = i /\ RolledBack(i) => RolledBack(j)
        /\ \A j \in 1..Len(scores) : current # 0 /\ scores[j].prev = current => RolledBack(j)
        /\ \A i, j \in 1..Len(scores) :
            scores[i].prev # 0 /\ scores[i].prev = scores[j].prev
                /\ ~RolledBack(i) /\ ~RolledBack(j) => i = j

LEMMA ChainExtended ==
    ASSUME TypeInv, Chain, ~scoreRaced, NEW row,
           row.prev = current, row.status # "rolled_back",
           Len(scores') = Len(scores) + 1,
           \A i \in 1..Len(scores) : scores'[i] = scores[i],
           scores'[Len(scores) + 1] = row,
           current' = Len(scores) + 1
    PROVE  Chain'
<1> DEFINE n == Len(scores)
<1>1. n \in Nat /\ current \in 0..n
    BY LenProperties DEF TypeInv, ScoreTypeOK
<1>2. \A j \in 1..n : scores[j].prev \in 0..(j - 1)
    BY DEF TypeInv, References, Chosen
<1>3. /\ current # 0 => scores[current].status # "rolled_back"
      /\ \A i, j \in 1..n : scores[j].prev = i /\ scores[i].status = "rolled_back" =>
            scores[j].status = "rolled_back"
      /\ \A j \in 1..n : current # 0 /\ scores[j].prev = current => scores[j].status = "rolled_back"
      /\ \A i, j \in 1..n : scores[i].prev # 0 /\ scores[i].prev = scores[j].prev
            /\ scores[i].status # "rolled_back" /\ scores[j].status # "rolled_back" => i = j
    BY DEF Chain, RolledBack
<1>4. Len(scores') = n + 1 /\ (\A i \in 1..n : scores'[i] = scores[i]) /\ scores'[n + 1] = row
      /\ current' = n + 1
    OBVIOUS
<1> HIDE DEF n
<1>5. current' # 0 => scores'[current'].status # "rolled_back"
    BY <1>4
<1>6. ASSUME NEW i \in 1..(n + 1), NEW j \in 1..(n + 1),
             scores'[j].prev = i, scores'[i].status = "rolled_back"
      PROVE  scores'[j].status = "rolled_back"
    <2>1. i # n + 1
        BY <1>4, <1>6
    <2>2. i \in 1..n /\ scores[i].status = "rolled_back"
        BY <1>1, <1>4, <1>6, <2>1
    <2>3. CASE j = n + 1
        <3>1. current = i
            BY <1>4, <1>6, <2>3
        <3>2. QED
            BY <1>1, <1>3, <2>2, <3>1
    <2>4. CASE j # n + 1
        BY <1>1, <1>3, <1>4, <1>6, <2>2, <2>4
    <2>5. QED
        BY <2>3, <2>4
<1>7. ASSUME NEW j \in 1..(n + 1), scores'[j].prev = n + 1
      PROVE  FALSE
    <2>1. CASE j = n + 1
        BY <1>1, <1>4, <1>7, <2>1
    <2>2. CASE j # n + 1
        <3>1. j \in 1..n /\ scores[j].prev = n + 1
            BY <1>1, <1>4, <1>7, <2>2
        <3>2. scores[j].prev \in 0..(j - 1)
            BY <1>2, <3>1
        <3>3. QED
            BY <1>1, <3>1, <3>2
    <2>3. QED
        BY <2>1, <2>2
<1>8. ASSUME NEW i \in 1..(n + 1), NEW j \in 1..(n + 1),
             scores'[i].prev # 0, scores'[i].prev = scores'[j].prev,
             scores'[i].status # "rolled_back", scores'[j].status # "rolled_back"
      PROVE  i = j
    <2>1. CASE i = n + 1 /\ j # n + 1
        <3>1. j \in 1..n /\ scores[j].prev = current /\ current # 0
              /\ scores[j].status # "rolled_back"
            BY <1>1, <1>4, <1>8, <2>1
        <3>2. QED
            BY <1>3, <3>1
    <2>2. CASE j = n + 1 /\ i # n + 1
        <3>1. i \in 1..n /\ scores[i].prev = current /\ current # 0
              /\ scores[i].status # "rolled_back"
            BY <1>1, <1>4, <1>8, <2>2
        <3>2. QED
            BY <1>3, <3>1
    <2>3. CASE i # n + 1 /\ j # n + 1
        <3>1. i \in 1..n /\ j \in 1..n
            BY <1>1, <2>3
        <3>2. scores'[i] = scores[i] /\ scores'[j] = scores[j]
            BY <1>4, <3>1
        <3>3. QED
            BY <1>3, <1>8, <3>1, <3>2
    <2>4. QED
        BY <2>1, <2>2, <2>3
<1>9. QED
    BY <1>4, <1>5, <1>6, <1>7, <1>8 DEF Chain, RolledBack

LEMMA ChainShortened ==
    ASSUME TypeInv, Chain, ~scoreRaced, current # 0, NEW row,
           row.status = "rolled_back", row.prev = scores[current].prev,
           Len(scores') = Len(scores),
           \A i \in 1..Len(scores) : scores'[i] = IF i = current THEN row ELSE scores[i],
           current' = scores[current].prev
    PROVE  Chain'
<1> DEFINE n == Len(scores)
           prev == scores[current].prev
<1>1. n \in Nat /\ current \in 1..n
    BY LenProperties DEF TypeInv, ScoreTypeOK
<1>2. \A j \in 1..n : scores[j].prev \in 0..(j - 1)
    BY DEF TypeInv, References, Chosen
<1>3. /\ current # 0 => scores[current].status # "rolled_back"
      /\ \A i, j \in 1..n : scores[j].prev = i /\ scores[i].status = "rolled_back" =>
            scores[j].status = "rolled_back"
      /\ \A j \in 1..n : current # 0 /\ scores[j].prev = current => scores[j].status = "rolled_back"
      /\ \A i, j \in 1..n : scores[i].prev # 0 /\ scores[i].prev = scores[j].prev
            /\ scores[i].status # "rolled_back" /\ scores[j].status # "rolled_back" => i = j
    BY DEF Chain, RolledBack
<1>4. /\ Len(scores') = n /\ current' = prev
      /\ \A i \in 1..n : scores'[i].prev = scores[i].prev
      /\ \A i \in 1..n : scores'[i].status = "rolled_back" <=>
            i = current \/ scores[i].status = "rolled_back"
    OBVIOUS
<1>5. prev \in 0..(current - 1)
    BY <1>1, <1>2
<1>6. scores[current].prev = prev
    OBVIOUS
<1> HIDE DEF n, prev
<1>7. current' # 0 => scores'[current'].status # "rolled_back"
    <2>1. SUFFICES ASSUME prev # 0 PROVE scores'[prev].status # "rolled_back"
        BY <1>4
    <2>2. prev \in 1..n /\ prev # current
        BY <1>1, <1>5, <2>1
    <2>3. QED
        BY <1>1, <1>3, <1>4, <1>6, <2>2
<1>8. \A i, j \in 1..n : scores'[j].prev = i /\ scores'[i].status = "rolled_back" =>
        scores'[j].status = "rolled_back"
    BY <1>1, <1>3, <1>4
<1>9. \A j \in 1..n : prev # 0 /\ scores'[j].prev = prev => scores'[j].status = "rolled_back"
    BY <1>1, <1>3, <1>4, <1>6
<1>10. \A i, j \in 1..n : scores'[i].prev # 0 /\ scores'[i].prev = scores'[j].prev
            /\ scores'[i].status # "rolled_back" /\ scores'[j].status # "rolled_back" => i = j
    BY <1>1, <1>3, <1>4
<1>11. QED
    BY <1>4, <1>7, <1>8, <1>9, <1>10 DEF Chain, RolledBack

\* What a scoring step does to the runs: it adds one, rolls one back, or withdraws the
\* current one.
LEMMA ScoreSteps ==
    ASSUME [Next]_vars
    PROVE  \/ Refresh
           \/ \E s \in Session : CommitScore(s) \/ CommitRollback(s)
           \/ UNCHANGED <<scores, scoreRaced>> /\ current' \in {current, 0}
BY DEF Next, Event, Service, vars, scoreVars, unrelated, ImportClients, EvidenceChange,
       EvidenceCommit,
       PropertyChange, PropertyImported, PropertyRolledBack, Review, DecideMatch,
       RecordOverride, Matching, CreateMatch, Scoring, DeactivateNonFire, BeginScore,
       BeginRollback, RefuseScoring, Reviewing, BeginGenerate, CommitGenerate,
       RefuseGenerate, BeginChange, CommitChange, BeginDispatch, CommitDispatch

\* A row that is added rests on the newest of the match runs that are there afterwards.
LEMMA AddedRow ==
    ASSUME TypeInv, NEW prev \in 0..Len(scores), TypeInv',
           scores' = Append(scores, ScoreRow(prev, matches')), evidence' = evidence,
           Len(matches') >= Len(matches), \A m \in 1..Len(matches) : matches'[m] = matches[m]
    PROVE  /\ Len(scores') = Len(scores) + 1
           /\ \A i \in 1..Len(scores) : scores'[i] = scores[i]
           /\ scores'[Len(scores) + 1].prev = prev
           /\ scores'[Len(scores) + 1].match = Len(matches')
           /\ scores'[Len(scores) + 1].evidence = evidence
           /\ scores'[Len(scores) + 1].status # "rolled_back"
           /\ scores'[Len(scores) + 1].alert_eligibility =>
                Gated(scores'[Len(scores) + 1], matches')
<1>1. prev \in 0..MaxScores
    BY LenProperties, ScoreBoundAssumption DEF TypeInv, ScoreTypeOK
<1>2. matches' \in Seq(Match) /\ Len(matches') <= MaxMatches
    BY DEF TypeInv, ScoreTypeOK
<1> DEFINE row == ScoreRow(prev, matches')
<1>3. /\ row \in Score /\ row.prev = prev /\ row.match = Len(matches')
      /\ row.evidence = evidence /\ row.status # "rolled_back"
      /\ row.alert_eligibility => Gated(row, matches')
    <2> HIDE DEF Gated
    <2>1. QED
        BY <1>1, <1>2, ScoreRowType
<1>4. scores' = Append(scores, row)
    OBVIOUS
<1> HIDE DEF row
<1>5. /\ Len(scores') = Len(scores) + 1
      /\ \A i \in 1..Len(scores) : scores'[i] = scores[i]
      /\ scores'[Len(scores) + 1] = row
    BY <1>3, <1>4, AppendProperties DEF TypeInv, ScoreTypeOK
<1>6. QED
    BY <1>3, <1>5

LEMMA RolledBackRow ==
    ASSUME TypeInv, NEW s \in Session, CommitRollback(s)
    PROVE  /\ pending[s].read \in 1..Len(scores)
           /\ Len(scores') = Len(scores)
           /\ \A j \in 1..Len(scores) : scores'[j] =
                IF j = pending[s].read
                THEN [scores[pending[s].read] EXCEPT !.status = "rolled_back"]
                ELSE scores[j]
<1> DEFINE i == pending[s].read
           row == [scores[i] EXCEPT !.status = "rolled_back"]
<1>1. /\ i \in 1..Len(scores) /\ scores \in Seq(Score)
      /\ scores' = [scores EXCEPT ![i] = row]
    BY LenProperties DEF CommitRollback, TypeInv, ScoreTypeOK, RequestsResolve
<1>2. row \in Score
    <2>1. scores[i] \in Score
        BY <1>1, ElementOfSeq
    <2>2. QED
        BY <2>1 DEF Score
<1> HIDE DEF row, i
<1>3. QED
    BY <1>1, <1>2, ExceptSeq DEF row, i

\* A refresh leaves the match runs there were.
LEMMA RefreshKeeps ==
    ASSUME TypeInv, Refresh
    PROVE  Len(matches') >= Len(matches) /\ \A m \in 1..Len(matches) : matches'[m] = matches[m]
<1>1. matches' = RefreshedMatches /\ Len(RefreshedMatches) <= MaxMatches
    BY DEF Refresh
<1>2. Len(matches) \in Nat
    BY LenProperties DEF TypeInv, ScoreTypeOK
<1>3. CASE live = 0
    BY <1>1, <1>2, <1>3 DEF RefreshedMatches
<1>4. CASE live # 0
    <2>1. RefreshedMatches = Matched(FALSE) /\ Len(Matched(FALSE)) <= MaxMatches
        BY <1>1, <1>4 DEF RefreshedMatches
    <2> DEFINE runs == Matched(FALSE)
    <2>2. /\ Len(runs) \in {Len(matches), Len(matches) + 1}
          /\ \A m \in 1..Len(matches) : runs[m] = matches[m]
        BY <1>4, <2>1, MatchedType
    <2>3. matches' = runs
        BY <1>1, <2>1
    <2> HIDE DEF runs
    <2>4. QED
        BY <1>2, <2>2, <2>3
<1>5. QED
    BY <1>3, <1>4

LEMMA ChainStep ==
    ASSUME TypeInv, Chain, [Next]_vars
    PROVE  Chain'
<1>0. TypeInv' /\ current \in 0..Len(scores)
    BY TypeStep DEF TypeInv, ScoreTypeOK
<1>1. CASE scoreRaced'
    BY <1>1 DEF Chain
<1>2. CASE Refresh /\ ~scoreRaced'
    <2>1. /\ ~scoreRaced /\ evidence' = evidence /\ current' = Len(scores) + 1
          /\ scores' = Append(scores, ScoreRow(current, matches'))
        BY <1>2 DEF Refresh, lifecycleVars
    <2>2. Len(matches') >= Len(matches) /\ \A m \in 1..Len(matches) : matches'[m] = matches[m]
        BY <1>2, RefreshKeeps
    <2> HIDE DEF ScoreRow, Gated
    <2>3. QED
        BY <1>0, <2>1, <2>2, AddedRow, ChainExtended
<1>3. ASSUME NEW s \in Session, CommitScore(s), ~scoreRaced'
      PROVE  Chain'
    <2>1. /\ ~scoreRaced /\ evidence' = evidence /\ current' = Len(scores) + 1
          /\ scores' = Append(scores, ScoreRow(current, matches'))
          /\ matches' = matches
        BY <1>3 DEF CommitScore, lifecycleVars, propertyVars
    <2>2. Len(matches) \in Nat
        BY LenProperties DEF TypeInv, ScoreTypeOK
    <2> HIDE DEF ScoreRow, Gated
    <2>3. QED
        BY <1>0, <2>1, <2>2, AddedRow, ChainExtended
<1>4. ASSUME NEW s \in Session, CommitRollback(s), ~scoreRaced'
      PROVE  Chain'
    <2>1. /\ ~scoreRaced /\ pending[s].read = current
          /\ current' = scores[current].prev
        BY <1>4 DEF CommitRollback
    <2>2. /\ current \in 1..Len(scores) /\ Len(scores') = Len(scores)
          /\ \A j \in 1..Len(scores) : scores'[j] =
                IF j = current THEN [scores[current] EXCEPT !.status = "rolled_back"]
                ELSE scores[j]
        BY <1>4, <2>1, RolledBackRow
    <2>3. scores[current] \in Score
        BY <2>2, ElementOfSeq DEF TypeInv, ScoreTypeOK
    <2> DEFINE row == [scores[current] EXCEPT !.status = "rolled_back"]
    <2>4. row.status = "rolled_back" /\ row.prev = scores[current].prev
        BY <2>3 DEF Score
    <2>5. \A j \in 1..Len(scores) : scores'[j] = IF j = current THEN row ELSE scores[j]
        BY <2>2
    <2>6. current # 0
        BY <1>0, <2>2, LenProperties DEF TypeInv, ScoreTypeOK
    <2> HIDE DEF row
    <2>7. QED
        BY <2>1, <2>2, <2>4, <2>5, <2>6, ChainShortened
<1>5. CASE UNCHANGED <<scores, scoreRaced>> /\ current' \in {current, 0}
    BY <1>5 DEF Chain, RolledBack
<1>6. QED
    BY <1>1, <1>2, <1>3, <1>4, <1>5, ScoreSteps

\* Whatever the order of scorings, refreshes, withdrawals and rollbacks, a run that was
\* rolled back is not current and carries no run that stands.
THEOREM RollbacksHold == Spec => []RolledBackStaysOut
<1> DEFINE Inv == TypeInv /\ Chain
<1>1. Init => Inv
    <2>1. Init => Chain
        BY DEF Init, ScoreInit, Chain
    <2>2. QED
        BY <2>1, TypeInitial
<1>2. Inv /\ [Next]_vars => Inv'
    BY TypeStep, ChainStep
<1>3. Inv => RolledBackStaysOut
    BY DEF Chain, RolledBackStaysOut, RolledBack, TypeInv, ScoreTypeOK
<1>4. QED
    BY <1>1, <1>2, <1>3, PTL DEF Spec

\* Every refresh leaves the incident complete, or the newest match was made on an import
\* that is no longer live.
THEOREM RefreshesSettle == Spec => RefreshSettles
<1> DEFINE Settles ==
        Refresh => \/ Complete'
                   \/ matches' # <<>> /\ live' # 0 /\ matches'[Len(matches')].import # live'
<1>1. Init => TypeInv
    BY TypeInitial
<1>2. TypeInv /\ [Next]_vars => TypeInv'
    BY TypeStep
<1>3. TypeInv /\ [Next]_vars => [Settles]_vars
    <2> SUFFICES ASSUME TypeInv, TypeInv', Refresh
                 PROVE  \/ Complete'
                        \/ matches' # <<>> /\ live' # 0 /\ matches'[Len(matches')].import # live'
        BY TypeStep
    <2>1. /\ evidence' = evidence /\ live' = live /\ current' = Len(scores) + 1
          /\ scores' = Append(scores, ScoreRow(current, matches'))
          /\ matches' = RefreshedMatches /\ Len(RefreshedMatches) <= MaxMatches
        BY DEF Refresh, lifecycleVars
    <2>2. /\ scores'[current'].match = Len(matches') /\ scores'[current'].evidence = evidence
          /\ current' # 0
        <3>1. current \in 0..Len(scores) /\ Len(scores) \in Nat
            BY LenProperties DEF TypeInv, ScoreTypeOK
        <3> HIDE DEF ScoreRow, Gated
        <3>2. QED
            BY <2>1, <3>1, RefreshKeeps, AddedRow
    <2>3. CASE live = 0
        BY <2>1, <2>2, <2>3 DEF Complete
    <2>4. CASE live # 0
        <3>1. matches' # <<>> /\ Len(matches') # 0
            <4>1. matches \in Seq(Match) /\ matches' \in Seq(Match)
                BY DEF TypeInv, ScoreTypeOK
            <4>2. CASE Reusable # {} /\ matches' = matches
                BY <4>1, <4>2, LenProperties DEF Reusable
            <4>3. CASE matches' = Append(matches, MatchRun)
                <5>1. MatchRun \in Match
                    BY <2>4, MatchRunType
                <5> HIDE DEF MatchRun
                <5>2. Len(matches') = Len(matches) + 1 /\ Len(matches) \in Nat
                    BY <4>1, <4>3, <5>1, AppendProperties, LenProperties
                <5>3. QED
                    BY <4>1, <5>2
            <4>4. QED
                BY <2>1, <2>4, <4>2, <4>3 DEF RefreshedMatches, Matched
        <3>2. CASE matches'[Len(matches')].import = live'
            BY <2>1, <2>2, <3>1, <3>2 DEF Complete
        <3>3. CASE matches'[Len(matches')].import # live'
            BY <2>1, <2>4, <3>1, <3>3
        <3>4. QED
            BY <3>2, <3>3
    <2>5. QED
        BY <2>3, <2>4
<1>4. QED
    BY <1>1, <1>2, <1>3, PTL DEF Spec, RefreshSettles

----------------------------------------------------------------------------
(* What alerts rest on *)

\* A clear match is of a parcel at the incident's own address.
ClearIsExact(found) == found.status = "matched" => found.first.exact

\* A score that an alert may rest on.
Grounded(i, rows, runs) ==
    /\ i # 0
    /\ Gated(rows[i], runs)
    /\ runs[rows[i].match].found.status = "matched"

Grounds ==
    /\ \A i \in 1..Len(imports) : ClearIsExact(imports[i].finds)
    /\ \A m \in 1..Len(matches) : ClearIsExact(matches[m].found)
    /\ \A i \in 1..Len(scores) : scores[i].alert_eligibility => Gated(scores[i], matches)
    /\ \A s \in Session : pending[s] # None =>
        /\ pending[s].op = "generate" /\ pending[s].verdict = "eligible" =>
            Grounded(pending[s].score, scores, matches)
        /\ pending[s].op \in {"generate", "change"} /\ pending[s].alert.status # "none" =>
            alert.status # "none"
    /\ alert.status # "none" => Grounded(alert.score, scores, matches)

\* Rows of matches and scores keep what the gates look at.
Kept ==
    /\ Len(matches') >= Len(matches)
    /\ \A m \in 1..Len(matches) : matches'[m] = matches[m]
    /\ Len(scores') >= Len(scores)
    /\ \A i \in 1..Len(scores) :
        /\ scores'[i].match = scores[i].match
        /\ scores'[i].evidence = scores[i].evidence
        /\ scores'[i].alert_eligibility = scores[i].alert_eligibility
        /\ scores'[i].on = scores[i].on /\ scores'[i].confirmed = scores[i].confirmed

LEMMA MatchesKept ==
    ASSUME TypeInv, NEW force \in BOOLEAN, live # 0, matches' = Matched(force),
           Len(Matched(force)) <= MaxMatches,
           \A i \in 1..Len(imports) : ClearIsExact(imports[i].finds),
           \A m \in 1..Len(matches) : ClearIsExact(matches[m].found)
    PROVE  /\ Len(matches') >= Len(matches)
           /\ \A m \in 1..Len(matches) : matches'[m] = matches[m]
           /\ \A m \in 1..Len(matches') : ClearIsExact(matches'[m].found)
<1>1. /\ Len(matches) \in Nat /\ live \in 1..Len(imports)
    BY LenProperties DEF TypeInv, ScoreTypeOK
<1>2. /\ Len(matches') \in {Len(matches), Len(matches) + 1}
      /\ \A m \in 1..Len(matches) : matches'[m] = matches[m]
      /\ Len(matches') = Len(matches) + 1 => matches'[Len(matches) + 1] = MatchRun
    BY MatchedType
<1>3. MatchRun.found = imports[live].finds
    BY DEF MatchRun
<1>4. ClearIsExact(MatchRun.found)
    BY <1>1, <1>3
<1> HIDE DEF MatchRun, Matched
<1>5. ASSUME NEW m \in 1..Len(matches')
      PROVE  ClearIsExact(matches'[m].found)
    <2>1. CASE m \in 1..Len(matches)
        BY <1>2, <2>1
    <2>2. CASE m \notin 1..Len(matches)
        <3>1. m = Len(matches) + 1 /\ Len(matches') = Len(matches) + 1
            BY <1>1, <1>2, <2>2
        <3>2. matches'[m] = MatchRun
            BY <1>2, <3>1
        <3>3. QED
            BY <1>4, <3>2
    <2>3. QED
        BY <2>1, <2>2
<1>6. QED
    BY <1>1, <1>2, <1>5

LEMMA GroundedStays ==
    ASSUME TypeInv, Kept, NEW i \in 0..Len(scores), Grounded(i, scores, matches)
    PROVE  Grounded(i, scores', matches')
<1>1. i \in 1..Len(scores) /\ scores[i].match \in 1..Len(matches)
    <2>1. Len(scores) \in Nat /\ Len(matches) \in Nat /\ i # 0 /\ scores[i].match # 0
        BY LenProperties DEF TypeInv, ScoreTypeOK, Grounded, Gated
    <2>2. i \in 1..Len(scores)
        BY <2>1
    <2>3. scores[i].match \in 0..Len(matches)
        BY <2>2 DEF TypeInv, References, Chosen
    <2>4. QED
        BY <2>1, <2>2, <2>3
<1>2. /\ scores'[i].match = scores[i].match /\ scores'[i].evidence = scores[i].evidence
      /\ scores'[i].on = scores[i].on /\ scores'[i].confirmed = scores[i].confirmed
      /\ matches'[scores[i].match] = matches[scores[i].match]
    BY <1>1 DEF Kept
<1>3. QED
    BY <1>2 DEF Grounded, Gated

\* Steps that do not concern alerts only have to keep the rows and the gates.
LEMMA GroundsFrame ==
    ASSUME TypeInv, Grounds, Kept, alert' = alert,
           \/ pending' = pending
           \/ \E s \in Session, r \in Request \cup {None} :
                /\ pending' = [pending EXCEPT ![s] = r]
                /\ r # None => r.op \notin {"generate", "change"},
           \A i \in 1..Len(imports') : ClearIsExact(imports'[i].finds),
           \A m \in 1..Len(matches') : ClearIsExact(matches'[m].found),
           \A i \in 1..Len(scores') : scores'[i].alert_eligibility => Gated(scores'[i], matches')
    PROVE  Grounds'
<1>1. ASSUME NEW s \in Session, pending'[s] # None, pending'[s].op \in {"generate", "change"}
      PROVE  pending'[s] = pending[s]
    BY <1>1 DEF TypeInv
<1>2. ASSUME NEW s \in Session, pending'[s] # None,
             pending'[s].op = "generate", pending'[s].verdict = "eligible"
      PROVE  Grounded(pending'[s].score, scores', matches')
    <2>1. pending'[s] = pending[s]
        BY <1>1, <1>2
    <2>2. pending[s].score \in 0..Len(scores)
        BY <1>2, <2>1, LenProperties DEF TypeInv, RequestsResolve, ScoreTypeOK
    <2>3. Grounded(pending[s].score, scores, matches)
        BY <1>2, <2>1 DEF Grounds
    <2>4. QED
        BY <2>1, <2>2, <2>3, GroundedStays
<1>3. ASSUME alert'.status # "none"
      PROVE  Grounded(alert'.score, scores', matches')
    <2>1. alert.score \in 0..Len(scores) /\ alert' = alert
        BY DEF TypeInv, References, Chosen
    <2>2. Grounded(alert.score, scores, matches)
        BY <1>3, <2>1 DEF Grounds
    <2>3. QED
        BY <2>1, <2>2, GroundedStays
<1>4. ASSUME NEW s \in Session, pending'[s] # None,
             pending'[s].op \in {"generate", "change"}, pending'[s].alert.status # "none"
      PROVE  alert'.status # "none"
    BY <1>1, <1>4 DEF Grounds
<1>5. QED
    BY <1>2, <1>3, <1>4 DEF Grounds

LEMMA GroundsOnScoring ==
    ASSUME TypeInv, Grounds, Scoring, UNCHANGED workflowVars
    PROVE  Grounds'
<1>0. /\ TypeInv' /\ alert' = alert
      /\ Len(scores) \in Nat /\ Len(matches) \in Nat /\ current \in 0..Len(scores)
      /\ scores \in Seq(Score) /\ matches \in Seq(Match)
    BY ScoringType, LenProperties DEF TypeInv, ScoreTypeOK, workflowVars
\* The rows as they are.
<1>1. ASSUME UNCHANGED <<imports, matches, scores>>,
             \/ pending' = pending
             \/ \E s \in Session, r \in Request \cup {None} :
                  /\ pending' = [pending EXCEPT ![s] = r]
                  /\ r # None => r.op \notin {"generate", "change"}
      PROVE  Grounds'
    <2>1. Kept
        BY <1>0, <1>1 DEF Kept
    <2>2. /\ \A i \in 1..Len(imports') : ClearIsExact(imports'[i].finds)
          /\ \A m \in 1..Len(matches') : ClearIsExact(matches'[m].found)
          /\ \A i \in 1..Len(scores') : scores'[i].alert_eligibility => Gated(scores'[i], matches')
        BY <1>1 DEF Grounds
    <2>3. QED
        BY <1>0, <1>1, <2>1, <2>2, GroundsFrame
\* One row more, on matches that may have one row more.
<1>2. ASSUME NEW prev \in 0..Len(scores), evidence' = evidence, imports' = imports,
             scores' = Append(scores, ScoreRow(prev, matches')),
             Len(matches') >= Len(matches),
             \A m \in 1..Len(matches) : matches'[m] = matches[m],
             \A m \in 1..Len(matches') : ClearIsExact(matches'[m].found),
             \/ pending' = pending
             \/ \E s \in Session : pending' = [pending EXCEPT ![s] = None]
      PROVE  Grounds'
    <2>1. /\ Len(scores') = Len(scores) + 1
          /\ \A i \in 1..Len(scores) : scores'[i] = scores[i]
          /\ scores'[Len(scores) + 1].alert_eligibility =>
                Gated(scores'[Len(scores) + 1], matches')
        <3> HIDE DEF ScoreRow, Gated
        <3>1. QED
            BY <1>0, <1>2, AddedRow
    <2>2. Kept
        BY <1>0, <1>2, <2>1 DEF Kept
    <2>3. ASSUME NEW i \in 1..Len(scores'), scores'[i].alert_eligibility
          PROVE  Gated(scores'[i], matches')
        <3>1. CASE i \in 1..Len(scores)
            <4>1. scores'[i] = scores[i] /\ Gated(scores[i], matches)
                BY <2>1, <2>3, <3>1 DEF Grounds
            <4>2. scores[i].match \in 1..Len(matches)
                <5>1. scores[i].match \in 0..Len(matches) /\ scores[i].match # 0
                    BY <3>1, <4>1 DEF TypeInv, References, Chosen, Gated
                <5>2. QED
                    BY <1>0, <5>1
            <4>3. QED
                BY <1>2, <4>1, <4>2 DEF Gated
        <3>2. CASE i \notin 1..Len(scores)
            <4>1. i = Len(scores) + 1
                BY <1>0, <2>1, <3>2
            <4>2. QED
                BY <2>1, <2>3, <4>1
        <3>3. QED
            BY <3>1, <3>2
    <2>4. \A i \in 1..Len(imports') : ClearIsExact(imports'[i].finds)
        BY <1>2 DEF Grounds
    <2>5. QED
        BY <1>0, <1>2, <2>2, <2>3, <2>4, GroundsFrame
<1>3. CASE DeactivateNonFire
    BY <1>1, <1>3 DEF DeactivateNonFire, propertyVars
<1>4. CASE Refresh
    <2>1. /\ evidence' = evidence /\ imports' = imports /\ pending' = pending
          /\ scores' = Append(scores, ScoreRow(current, matches'))
          /\ matches' = RefreshedMatches /\ Len(RefreshedMatches) <= MaxMatches
        BY <1>4 DEF Refresh, lifecycleVars
    <2>2. /\ Len(matches') >= Len(matches)
          /\ \A m \in 1..Len(matches) : matches'[m] = matches[m]
          /\ \A m \in 1..Len(matches') : ClearIsExact(matches'[m].found)
        <3>1. CASE live = 0
            BY <1>0, <2>1, <3>1 DEF RefreshedMatches, Grounds
        <3>2. CASE live # 0
            <4>1. matches' = Matched(FALSE) /\ Len(Matched(FALSE)) <= MaxMatches
                BY <2>1, <3>2 DEF RefreshedMatches
            <4> HIDE DEF Matched
            <4>2. QED
                BY <3>2, <4>1, MatchesKept DEF Grounds
        <3>3. QED
            BY <3>1, <3>2
    <2>3. QED
        BY <1>0, <1>2, <2>1, <2>2
<1>5. ASSUME NEW s \in Session, BeginScore(s) \/ BeginRollback(s)
      PROVE  Grounds'
    <2>1. PICK op \in {"score", "rollback"} :
            pending' = [pending EXCEPT ![s] = [op |-> op, read |-> current]]
        BY <1>5 DEF BeginScore, BeginRollback
    <2> DEFINE r == [op |-> op, read |-> current]
    <2>2. r \in Request
        <3>1. current \in 0..MaxScores
            BY <1>0, ScoreBoundAssumption DEF TypeInv, ScoreTypeOK
        <3>2. QED
            BY <3>1 DEF Request
    <2>3. r.op \notin {"generate", "change"} /\ pending' = [pending EXCEPT ![s] = r]
        BY <2>1
    <2>4. UNCHANGED <<imports, matches, scores>>
        BY <1>5 DEF BeginScore, BeginRollback, propertyVars, scoreVars
    <2> HIDE DEF r
    <2>5. QED
        BY <1>1, <2>2, <2>3, <2>4
<1>6. ASSUME NEW s \in Session, CommitScore(s)
      PROVE  Grounds'
    <2>1. /\ pending[s].read \in 0..Len(scores)
          /\ scores' = Append(scores, ScoreRow(pending[s].read, matches'))
          /\ evidence' = evidence /\ imports' = imports /\ matches' = matches
          /\ pending' = [pending EXCEPT ![s] = None]
        BY <1>6 DEF CommitScore, lifecycleVars, propertyVars, TypeInv, RequestsResolve
    <2>2. /\ \A m \in 1..Len(matches') : ClearIsExact(matches'[m].found)
          /\ \A m \in 1..Len(matches) : matches'[m] = matches[m]
        BY <2>1 DEF Grounds
    <2>3. Len(matches') >= Len(matches)
        BY <1>0, <2>1
    <2> DEFINE prev == pending[s].read
    <2>4. /\ prev \in 0..Len(scores) /\ scores' = Append(scores, ScoreRow(prev, matches'))
          /\ \E t \in Session : pending' = [pending EXCEPT ![t] = None]
        BY <2>1
    <2> HIDE DEF prev
    <2>5. QED
        BY <1>2, <2>1, <2>2, <2>3, <2>4
<1>7. ASSUME NEW s \in Session, CommitRollback(s)
      PROVE  Grounds'
    <2>1. /\ pending[s].read \in 1..Len(scores) /\ Len(scores') = Len(scores)
          /\ \A j \in 1..Len(scores) : scores'[j] =
                IF j = pending[s].read
                THEN [scores[pending[s].read] EXCEPT !.status = "rolled_back"]
                ELSE scores[j]
        BY <1>7, RolledBackRow
    <2>2. ASSUME NEW j \in 1..Len(scores)
          PROVE  /\ scores'[j].match = scores[j].match
                 /\ scores'[j].evidence = scores[j].evidence
                 /\ scores'[j].alert_eligibility = scores[j].alert_eligibility
                 /\ scores'[j].on = scores[j].on /\ scores'[j].confirmed = scores[j].confirmed
        <3>1. scores[j] \in Score
            BY <1>0, ElementOfSeq
        <3>2. QED
            BY <2>1, <3>1 DEF Score
    <2>3. /\ imports' = imports /\ matches' = matches
          /\ pending' = [pending EXCEPT ![s] = None]
        BY <1>7 DEF CommitRollback, propertyVars
    <2>4. Kept
        BY <1>0, <2>1, <2>2, <2>3 DEF Kept
    <2>5. \A i \in 1..Len(scores') : scores'[i].alert_eligibility => Gated(scores'[i], matches')
        BY <2>1, <2>2, <2>3 DEF Grounds, Gated
    <2>6. QED
        BY <1>0, <2>3, <2>4, <2>5, GroundsFrame DEF Grounds
<1>8. ASSUME NEW s \in Session, RefuseScoring(s)
      PROVE  Grounds'
    BY <1>1, <1>8 DEF RefuseScoring, propertyVars, scoreVars
<1>9. QED
    BY <1>3, <1>4, <1>5, <1>6, <1>7, <1>8 DEF Scoring

LEMMA GroundsOnReviewing ==
    ASSUME TypeInv, ChangesRead, Grounds, Reviewing
    PROVE  Grounds'
<1>0. /\ alert \in Alert /\ pending \in [Session -> Request \cup {None}]
      /\ Len(scores) \in Nat /\ current \in 0..Len(scores)
    BY LenProperties DEF TypeInv, ScoreTypeOK
<1>1. ASSUME UNCHANGED unrelated, NEW s \in Session, NEW r,
             pending' = [pending EXCEPT ![s] = r],
             r # None =>
                /\ r.op = "generate" /\ r.verdict = "eligible" => Grounded(r.score, scores, matches)
                /\ r.op \in {"generate", "change"} /\ r.alert.status # "none" =>
                        alert'.status # "none",
             alert.status # "none" => alert'.status # "none",
             alert'.status # "none" => Grounded(alert'.score, scores, matches)
      PROVE  Grounds'
    <2>1. imports' = imports /\ matches' = matches /\ scores' = scores
        BY <1>1 DEF unrelated, propertyVars, scoreVars
    <2>2. ASSUME NEW t \in Session, t # s PROVE pending'[t] = pending[t]
        BY <1>0, <1>1, <2>2
    <2>3. pending'[s] = r
        BY <1>0, <1>1
    <2>4. ASSUME NEW t \in Session, pending'[t] # None
          PROVE  /\ pending'[t].op = "generate" /\ pending'[t].verdict = "eligible" =>
                        Grounded(pending'[t].score, scores, matches)
                 /\ pending'[t].op \in {"generate", "change"} /\ pending'[t].alert.status # "none" =>
                        alert'.status # "none"
        <3>1. CASE t = s
            BY <1>1, <2>3, <2>4, <3>1
        <3>2. CASE t # s
            BY <1>1, <2>2, <2>4, <3>2 DEF Grounds
        <3>3. QED
            BY <3>1, <3>2
    <2>5. QED
        BY <1>1, <2>1, <2>4 DEF Grounds
<1>2. ASSUME NEW s \in Session, BeginGenerate(s)
      PROVE  Grounds'
    <2> DEFINE r == [op |-> "generate", score |-> current, alert |-> alert,
                     verdict |-> Verdict(current)]
    <2>1. /\ UNCHANGED unrelated /\ alert' = alert /\ current # 0
          /\ pending' = [pending EXCEPT ![s] = r]
        BY <1>2 DEF BeginGenerate, Asks
    <2>2. Verdict(current) = "eligible" => Grounded(current, scores, matches)
        <3>1. SUFFICES ASSUME Verdict(current) = "eligible"
                       PROVE  Grounded(current, scores, matches)
            OBVIOUS
        <3>2. scores[current].alert_eligibility /\ ResolvedProperty(current)
            BY <3>1 DEF Verdict, Suppressing
        <3>3. current \in 1..Len(scores)
            BY <1>0, <2>1
        <3>4. Gated(scores[current], matches)
            BY <3>2, <3>3 DEF Grounds
        <3>5. QED
            BY <2>1, <3>2, <3>4 DEF Grounded, ResolvedProperty
    <2>3. /\ r.op = "generate" /\ r.verdict = "eligible" => Grounded(r.score, scores, matches)
          /\ r.alert.status # "none" => alert'.status # "none"
        BY <2>1, <2>2
    <2>4. alert'.status # "none" => Grounded(alert'.score, scores, matches)
        BY <2>1 DEF Grounds
    <2> HIDE DEF r
    <2>5. QED
        BY <1>1, <2>1, <2>3, <2>4
<1>3. ASSUME NEW s \in Session, CommitGenerate(s)
      PROVE  Grounds'
    <2> DEFINE request == pending[s]
    <2>1. /\ request # None /\ request.op = "generate"
          /\ UNCHANGED unrelated /\ pending' = [pending EXCEPT ![s] = None]
        BY <1>3 DEF CommitGenerate, Answers
    <2>2. /\ request.verdict = "eligible" => Grounded(request.score, scores, matches)
          /\ request.alert.status # "none" => alert.status # "none"
          /\ alert.status # "none" => Grounded(alert.score, scores, matches)
        BY <2>1 DEF Grounds
    <2>3. /\ alert.status # "none" => alert'.status # "none"
          /\ alert'.status # "none" => Grounded(alert'.score, scores, matches)
        <3> HIDE DEF request
        <3>1. CASE CreateAlert(request)
            BY <2>2, <3>1 DEF CreateAlert
        <3>2. CASE SuppressAlert(request)
            BY <1>0, <2>2, <3>2 DEF SuppressAlert, Alert, ActiveStatus
        <3>3. CASE RefreshAlert(request)
            BY <1>0, <2>2, <3>3 DEF RefreshAlert, Alert, ActiveStatus
        <3>4. CASE LeaveAlert(request)
            BY <2>2, <3>4 DEF LeaveAlert
        <3>5. QED
            BY <1>3, <3>1, <3>2, <3>3, <3>4 DEF CommitGenerate, request
    <2>4. QED
        BY <1>1, <2>1, <2>3
<1>4. ASSUME NEW s \in Session, RefuseGenerate(s)
      PROVE  Grounds'
    BY <1>1, <1>4 DEF RefuseGenerate, Answers, Grounds
<1>5. ASSUME NEW s \in Session, NEW action \in Action, BeginChange(s, action)
      PROVE  Grounds'
    <2>1. PICK to \in ChangesTo(action) :
            pending' = [pending EXCEPT ![s] =
                [op |-> "change", to |-> to, alert |-> alert, job |-> job]]
        BY <1>5 DEF BeginChange, Asks
    <2> DEFINE r == [op |-> "change", to |-> to, alert |-> alert, job |-> job]
    <2>2. UNCHANGED unrelated /\ alert' = alert
        BY <1>5 DEF BeginChange
    <2>3. r.op = "change" /\ r.alert = alert /\ pending' = [pending EXCEPT ![s] = r]
        BY <2>1
    <2> HIDE DEF r
    <2>4. QED
        BY <1>1, <2>2, <2>3 DEF Grounds
<1>6. ASSUME NEW s \in Session, CommitChange(s)
      PROVE  Grounds'
    <2>1. /\ pending[s] # None /\ pending[s].op = "change"
          /\ UNCHANGED unrelated /\ pending' = [pending EXCEPT ![s] = None]
        BY <1>6 DEF CommitChange, Answers
    <2>2. alert.status # "none"
        BY <2>1 DEF ChangesRead, Grounds
    <2>3. pending[s].to # "none"
        BY <1>0, <2>1 DEF Request, LifecycleRequest, AlertStatus, ActiveStatus, TERMINAL_ALERT_STATES
    <2>4. alert'.status # "none" /\ alert'.score = alert.score
        BY <1>0, <1>6, <2>2, <2>3 DEF CommitChange, Alert
    <2>5. QED
        BY <1>1, <2>1, <2>2, <2>4 DEF Grounds
<1>7. ASSUME NEW s \in Session, BeginDispatch(s)
      PROVE  Grounds'
    BY <1>1, <1>7 DEF BeginDispatch, Asks, Grounds
<1>8. ASSUME NEW s \in Session, CommitDispatch(s)
      PROVE  Grounds'
    BY <1>1, <1>8 DEF CommitDispatch, Answers, Grounds
<1>9. QED
    BY <1>2, <1>3, <1>4, <1>5, <1>6, <1>7, <1>8 DEF Reviewing

LEMMA GroundsOnLifecycle ==
    ASSUME TypeInv, Grounds, EvidenceChange \/ EvidenceCommit
    PROVE  Grounds'
<1>1. UNCHANGED <<propertyVars, scoreVars, scoreRaced, workflowVars>>
    BY DEF EvidenceChange, EvidenceCommit
<1>2. /\ Kept /\ alert' = alert
      /\ \A i \in 1..Len(imports') : ClearIsExact(imports'[i].finds)
      /\ \A m \in 1..Len(matches') : ClearIsExact(matches'[m].found)
      /\ \A i \in 1..Len(scores') : scores'[i].alert_eligibility => Gated(scores'[i], matches')
    <2>1. UNCHANGED <<imports, matches, scores, alert>>
        BY <1>1 DEF propertyVars, scoreVars, workflowVars
    <2>2. Len(matches) \in Nat /\ Len(scores) \in Nat
        BY LenProperties DEF TypeInv, ScoreTypeOK
    <2>3. QED
        BY <2>1, <2>2 DEF Kept, Grounds
<1>3. ASSUME NEW s \in Session, NEW r \in LifecycleRequest \cup {None},
             pending' = [pending EXCEPT ![s] = r]
      PROVE  Grounds'
    <2>1. r \in Request \cup {None} /\ (r # None => r.op \notin {"generate", "change"})
        BY DEF Request, LifecycleRequest
    <2>2. QED
        BY <1>2, <1>3, <2>1, GroundsFrame
<1>4. PICK s \in Session : \E r \in LifecycleRequest \cup {None} : pending' = [pending EXCEPT ![s] = r]
    BY LifecycleAsks
<1>5. QED
    BY <1>3, <1>4

LEMMA GroundsStep ==
    ASSUME TypeInv, ChangesRead, Grounds, [Next]_vars
    PROVE  Grounds'
<1>0. /\ Len(scores) \in Nat /\ Len(matches) \in Nat /\ Len(imports) \in Nat
      /\ imports \in Seq(Import) /\ live \in 0..Len(imports)
    BY LenProperties DEF TypeInv, ScoreTypeOK
\* Whatever happens outside leaves the requests, the alert and the scores alone.
<1>1. ASSUME UNCHANGED <<pending, alert, scores>>,
             Len(matches') >= Len(matches),
             \A m \in 1..Len(matches) : matches'[m] = matches[m],
             \A m \in 1..Len(matches') : ClearIsExact(matches'[m].found),
             \A i \in 1..Len(imports') : ClearIsExact(imports'[i].finds)
      PROVE  Grounds'
    <2>1. Kept
        BY <1>0, <1>1 DEF Kept
    <2>2. ASSUME NEW i \in 1..Len(scores), scores[i].alert_eligibility
          PROVE  Gated(scores[i], matches')
        <3>1. Gated(scores[i], matches) /\ scores[i].match \in 0..Len(matches)
            BY <2>2 DEF Grounds, TypeInv, References, Chosen
        <3>2. scores[i].match \in 1..Len(matches)
            BY <1>0, <3>1 DEF Gated
        <3>3. QED
            BY <1>1, <3>1, <3>2 DEF Gated
    <2>3. QED
        BY <1>1, <2>1, <2>2, GroundsFrame
<1>2. ASSUME UNCHANGED <<pending, alert, scores, matches, imports>>
      PROVE  Grounds'
    BY <1>0, <1>1, <1>2 DEF Grounds
<1>3. CASE ImportClients \/ UNCHANGED vars
    BY <1>2, <1>3 DEF ImportClients, vars, workflowVars, propertyVars, scoreVars
<1>4. CASE (PropertyRolledBack \/ Review) /\ UNCHANGED workflowVars
    BY <1>2, <1>4
    DEF PropertyRolledBack, Review, DecideMatch, RecordOverride, workflowVars, propertyVars,
        scoreVars
<1>5. ASSUME NEW pool \in Pools, PropertyImported(pool), UNCHANGED workflowVars
      PROVE  Grounds'
    <2>1. FoundFor[pool] \in Found /\ ClearIsExact(FoundFor[pool])
        BY FoundInIsFound, MatchedIsExact, PoolAssumption DEF FoundFor, ClearIsExact
    <2> DEFINE row == [prev |-> live, finds |-> FoundFor[pool]]
    <2>2. row \in Import /\ row.finds = FoundFor[pool]
        <3>1. live \in 0..MaxImports
            BY <1>0, ScoreBoundAssumption DEF TypeInv, ScoreTypeOK
        <3>2. QED
            BY <2>1, <3>1 DEF Import
    <2>3. imports' = Append(imports, row)
        BY <1>5 DEF PropertyImported
    <2> HIDE DEF row
    <2>4. /\ Len(imports') = Len(imports) + 1
          /\ \A i \in 1..Len(imports) : imports'[i] = imports[i]
          /\ imports'[Len(imports) + 1] = row
        BY <1>0, <2>2, <2>3, AppendProperties
    <2>5. ASSUME NEW i \in 1..Len(imports')
          PROVE  ClearIsExact(imports'[i].finds)
        <3>1. CASE i \in 1..Len(imports)
            BY <2>4, <3>1 DEF Grounds
        <3>2. CASE i \notin 1..Len(imports)
            <4>1. i = Len(imports) + 1
                BY <1>0, <2>4, <3>2
            <4>2. QED
                BY <2>1, <2>2, <2>4, <4>1
        <3>3. QED
            BY <3>1, <3>2
    <2>6. UNCHANGED <<pending, alert, scores, matches>>
        BY <1>5 DEF PropertyImported, workflowVars, scoreVars
    <2>7. QED
        BY <1>0, <1>1, <2>5, <2>6 DEF Grounds
<1>6. ASSUME NEW force \in BOOLEAN, CreateMatch(force), UNCHANGED workflowVars
      PROVE  Grounds'
    <2>1. /\ live # 0 /\ matches' = Matched(force) /\ Len(Matched(force)) <= MaxMatches
          /\ UNCHANGED <<pending, alert, scores, imports>>
        BY <1>6 DEF CreateMatch, workflowVars, scoreVars
    <2> HIDE DEF Matched
    <2>2. /\ Len(matches') >= Len(matches)
          /\ \A m \in 1..Len(matches) : matches'[m] = matches[m]
          /\ \A m \in 1..Len(matches') : ClearIsExact(matches'[m].found)
        BY <2>1, MatchesKept DEF Grounds
    <2>3. QED
        BY <1>1, <2>1, <2>2 DEF Grounds
<1>7. CASE Scoring /\ UNCHANGED workflowVars
    BY <1>7, GroundsOnScoring
<1>8. CASE Reviewing
    BY <1>8, GroundsOnReviewing
<1>9. CASE EvidenceChange \/ EvidenceCommit
    BY <1>9, GroundsOnLifecycle
<1>10. QED
    BY <1>3, <1>4, <1>5, <1>6, <1>7, <1>8, <1>9
    DEF Next, Event, Service, PropertyChange, Matching

\* No interleaving of observations, imports, decisions, scorings and alert requests makes
\* an alert rest on a score that has not passed every gate, or, but for a candidate that a
\* reviewer confirmed, on a near miss of the address.
THEOREM GatesHold == Spec => []AlertsRestOnGates
<1> DEFINE Inv == TypeInv /\ ChangesRead /\ Grounds
<1>1. Init => Inv
    <2>1. Init => ChangesRead
        BY DEF Init, ScoreInit, ChangesRead
    <2>2. Init => Grounds
        <3>1. SUFFICES ASSUME Init PROVE Grounds
            OBVIOUS
        <3>2. /\ imports = <<>> /\ matches = <<>> /\ scores = <<>>
              /\ pending = [s \in Session |-> None] /\ alert.status = "none"
            BY <3>1 DEF Init, ScoreInit
        <3>3. QED
            BY <3>2 DEF Grounds
    <2>3. QED
        BY <2>1, <2>2, TypeInitial
<1>2. Inv /\ [Next]_vars => Inv'
    BY TypeStep, ChangesReadStep, GroundsStep
<1>3. Inv => AlertsRestOnGates
    <2>1. SUFFICES ASSUME Inv, alert.status # "none" PROVE AlertsRestOnGates
        BY DEF AlertsRestOnGates
    <2> DEFINE score == scores[alert.score]
    <2>2. /\ alert.score # 0 /\ Gated(score, matches)
          /\ matches[score.match].found.status = "matched"
        BY <2>1 DEF Grounds, Grounded
    <2>3. score.match \in 1..Len(matches)
        <3>1. alert.score \in 1..Len(scores) /\ Len(matches) \in Nat
            BY <2>1, <2>2, LenProperties DEF TypeInv, References, Chosen, ScoreTypeOK
        <3>2. score.match \in 0..Len(matches) /\ score.match # 0
            BY <2>1, <2>2, <3>1 DEF TypeInv, References, Chosen, Gated
        <3>3. QED
            BY <3>1, <3>2
    <2>4. ClearIsExact(matches[score.match].found)
        BY <2>1, <2>3 DEF Grounds
    <2>5. QED
        BY <2>1, <2>2, <2>4 DEF AlertsRestOnGates, Gated, ClearIsExact
<1>4. QED
    BY <1>1, <1>2, <1>3, PTL DEF Spec
=============================================================================
