--------------------------- MODULE OutcomeManifests ---------------------------
(***************************************************************************)
(* From reviewers' outcome labels to a training dataset: what an analytics *)
(* report freezes in its manifest (outcomes/service.py) and the rows, the  *)
(* split and the leakage check made from it (learning/service.py).         *)
(*                                                                         *)
(* A history is what is on record of some incidents: the score runs by     *)
(* their as_of, the labels, each bound to a score run, and the retrievals  *)
(* and property imports they rest on.  Times are ordinals; equal times     *)
(* happen, because SQLite's created_at is in seconds.                      *)
(* Only review_relevance labels are here, the default training target.     *)
(***************************************************************************)
EXTENDS Integers, FiniteSetsExt

CONSTANTS
    Incident,       \* incident ids, ordered
    MaxTime,        \* bound: instants
    History         \* what may be on record

Time == 1..MaxTime
Label == [incident : Incident, of : Time, at : Time,
          value : {"relevant", "not_relevant", "uncertain"}]
Score == [incident : Incident, at : Time]

\* A retrieval linked to an incident, or an import it was matched with: from at until
\* the link ended (an import is never ended).
\* attested: from the approved provider, on a manual attestation.
NotEnded == MaxTime + 1
Source == [incident : Incident, at : Time, ended : Time \cup {NotEnded}, attested : BOOLEAN,
           mode : {"manual_snapshot", "live_poll", "synthetic_fixture"}]

ASSUME IncidentAssumption == Incident \subseteq Nat /\ MaxTime \in Nat
ASSUME HistoryAssumption ==
    /\ History \subseteq [scores : SUBSET Score, labels : SUBSET Label, sources : SUBSET Source]
    /\ \A record \in History : IsFiniteSet(record.labels)

----------------------------------------------------------------------------
(* The manifest of a report at a boundary *)

ScoresUntil(history, as_of) == {score \in history.scores : score.at <= as_of}

\* Fault: every score run of the incident.
AllScores(history, as_of) == ScoresUntil(history, as_of)

\* Of each incident only its latest score run.
ReportedScores(history, as_of) ==
    {score \in ScoresUntil(history, as_of) :
        \A other \in ScoresUntil(history, as_of) :
            other.incident = score.incident => other.at <= score.at}

ReportedLabels(history, as_of) == {label \in history.labels : label.at <= as_of}

Attributed(source, as_of) == source.at <= as_of /\ source.ended > as_of

\* What the incidents of the report are attributed at the boundary: what a score rested
\* on is not among it when the link has ended since.
ReportedSources(history, as_of) ==
    LET incidents == {score.incident : score \in ReportedScores(history, as_of)}
                        \cup {label.incident : label \in ReportedLabels(history, as_of)}
    IN  {source \in history.sources : source.incident \in incidents /\ Attributed(source, as_of)}

Manifest(history, as_of) ==
    [as_of |-> as_of,
     scores |-> ReportedScores(history, as_of), labels |-> ReportedLabels(history, as_of),
     sources |-> ReportedSources(history, as_of)]

\* Real evidence: nothing polled or synthetic among the sources, and all of it attested.
RealSource(source) == source.mode = "manual_snapshot" /\ source.attested
RealSources(sources) == sources # {} /\ \A source \in sources : RealSource(source)

----------------------------------------------------------------------------
(* The dataset *)

Row == [incident : Incident, prediction_at : Time, label_at : Time, target : BOOLEAN]

\* A label of a score run that is not in the manifest gives no row.
Rows(manifest) ==
    {[incident |-> label.incident, prediction_at |-> label.of, label_at |-> label.at,
      target |-> label.value = "relevant"] :
        label \in {l \in manifest.labels :
            /\ l.value # "uncertain"
            /\ [incident |-> l.incident, at |-> l.of] \in manifest.scores}}

Groups(rows) == {row.incident : row \in rows}
PredictedAt(rows, i) == Max({row.prediction_at : row \in {r \in rows : r.incident = i}})

\* The groups before a group in the order of their latest prediction, then of their ids.
Before(rows, i) ==
    {j \in Groups(rows) :
        \/ PredictedAt(rows, j) < PredictedAt(rows, i)
        \/ PredictedAt(rows, j) = PredictedAt(rows, i) /\ j < i}

TrainEnd(n) == Max({1, (6 * n) \div 10})
ValidationEnd(n) == Min({Max({TrainEnd(n) + 1, (8 * n) \div 10}), n - 1})

SplitOf(rows, i) ==
    LET n == Cardinality(Groups(rows))
        index == Cardinality(Before(rows, i))
    IN  CASE n < 3 \/ index < TrainEnd(n) -> "train"
          [] n >= 3 /\ index >= TrainEnd(n) /\ index < ValidationEnd(n) -> "validation"
          [] OTHER -> "test"

Trains(rows) == {row \in rows : SplitOf(rows, row.incident) = "train"}

SplitPassed(rows) ==
    /\ Cardinality(Groups(rows)) >= 3
    /\ \A i, j \in Groups(rows) :
        SplitOf(rows, i) = "train" /\ SplitOf(rows, j) # "train"
            => PredictedAt(rows, i) < PredictedAt(rows, j)

\* Features are dated no later than the score they belong to, and a group is in one
\* split: what can leak is a label that is not later than its prediction.
LeakagePassed(rows) == \A row \in rows : row.label_at > row.prediction_at

Sound(rows) == rows # {} /\ SplitPassed(rows) /\ LeakagePassed(rows)

DatasetStatus(rows, real, mechanics_only) ==
    IF Sound(rows) /\ real THEN "ready"
    ELSE IF Sound(rows) /\ mechanics_only THEN "mechanics_ready"
    ELSE "blocked"

\* Both classes are needed, among the rows and among those trained on.
TwoClasses(rows) == {row.target : row \in rows} = BOOLEAN
Fits(rows) == TwoClasses(rows) /\ TwoClasses(Trains(rows))
=============================================================================
