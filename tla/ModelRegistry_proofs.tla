------------------------- MODULE ModelRegistry_proofs -------------------------
(***************************************************************************)
(* Proofs about ModelRegistry, for any history, number of reports, releases*)
(* and requests.                                                           *)
(***************************************************************************)
EXTENDS ModelRegistry, SequenceTheorems, FiniteSetTheorems, WellFoundedInduction, TLAPS

Recorded == [scores : SUBSET Score, labels : SUBSET Label, sources : SUBSET Source]
Frozen ==
    [as_of : Time, scores : SUBSET Score, labels : SUBSET Label, sources : SUBSET Source]
ManifestRow == [frozen : Frozen, real_world_approved : BOOLEAN]

\* TypeOK, with the rows of manifests, and rows that name rows that are there.
TypeInv ==
    /\ TypeOK
    /\ manifests \in Seq(ManifestRow)
    /\ \A m \in 1..MaxManifests : datasets[m] # None => m \in 1..Len(manifests)
    /\ \A r \in 1..Len(releases) : releases[r].predecessor \in 0..Len(releases)
    /\ \A s \in Session : pending[s] # None =>
        /\ pending[s].id \in 1..Len(releases)
        /\ pending[s].op = "promote" => pending[s].champion \in 0..Len(releases)
        /\ pending[s].op = "rollback" => pending[s].predecessor \in 0..Len(releases)

----------------------------------------------------------------------------
(* Types *)

LEMMA ManifestType ==
    ASSUME NEW h \in Recorded, NEW as_of \in Time
    PROVE  Manifest(h, as_of) \in Frozen
BY DEF Manifest, Recorded, Frozen, ReportedScores, ScoresUntil, ReportedLabels, ReportedSources

LEMMA RowsType ==
    ASSUME NEW frozen \in Frozen
    PROVE  Rows(frozen) \in SUBSET Row
<1>1. ASSUME NEW l \in frozen.labels
      PROVE  [incident |-> l.incident, prediction_at |-> l.of, label_at |-> l.at,
              target |-> l.value = "relevant"] \in Row
    <2>1. l \in Label
        BY DEF Frozen
    <2>2. (l.value = "relevant") \in BOOLEAN
        OBVIOUS
    <2>3. l.incident \in Incident /\ l.of \in Time /\ l.at \in Time
        BY <2>1 DEF Label
    <2> DEFINE target == l.value = "relevant"
    <2> HIDE DEF target
    <2>4. target \in BOOLEAN
        BY <2>2 DEF target
    <2>5. [incident |-> l.incident, prediction_at |-> l.of, label_at |-> l.at,
           target |-> target] \in Row
        BY <2>3, <2>4 DEF Row
    <2>6. QED
        BY <2>5 DEF target
<1>2. QED
    BY <1>1 DEF Rows

LEMMA DatasetStatusType ==
    ASSUME NEW rows, NEW real \in BOOLEAN, NEW mechanics_only \in BOOLEAN
    PROVE  /\ DatasetStatus(rows, real, mechanics_only) \in {"ready", "mechanics_ready", "blocked"}
           /\ real => DatasetStatus(rows, real, mechanics_only) \in {"ready", "blocked"}
BY DEF DatasetStatus

LEMMA ChampionType ==
    /\ Champion \in 0..Len(releases)
    /\ Champion = 0 <=> Champions = {}
    /\ Champions # {} => Champion \in Champions
<1>1. CASE Champions = {}
    BY <1>1, LenProperties DEF Champion
<1>2. CASE Champions # {}
    BY <1>2 DEF Champion, Champions
<1>3. QED
    BY <1>1, <1>2

LEMMA TypeInitial == Init => TypeInv
<1> SUFFICES ASSUME Init PROVE TypeInv
    OBVIOUS
<1>1. /\ history \in Recorded /\ manifests = <<>> /\ releases = <<>>
      /\ datasets = [m \in 1..MaxManifests |-> None]
      /\ controls = [k \in Key |-> None] /\ pending = [s \in Session |-> None] /\ raced = FALSE
    BY HistoryAssumption DEF Init, Recorded
<1>2. /\ manifests \in Seq(ManifestRow) /\ releases \in Seq(Release)
      /\ Len(manifests) = 0 /\ Len(releases) = 0
    BY <1>1
<1>3. Len(manifests) <= MaxManifests /\ Len(releases) <= MaxReleases
    BY <1>2, RegistryBoundAssumption
<1>4. TypeOK
    BY <1>1, <1>2, <1>3 DEF TypeOK, Recorded
<1>5. QED
    BY <1>1, <1>2, <1>4 DEF TypeInv

\* A request that begins, is answered or refused, while releases keep their number.
LEMMA AskedType ==
    ASSUME TypeInv, NEW s \in Session, NEW r \in Request \cup {None},
           pending' = [pending EXCEPT ![s] = r],
           Len(releases') = Len(releases),
           r # None =>
                /\ r.id \in 1..Len(releases)
                /\ r.op = "promote" => r.champion \in 0..Len(releases)
                /\ r.op = "rollback" => r.predecessor \in 0..Len(releases)
    PROVE  /\ pending' \in [Session -> Request \cup {None}]
           /\ \A t \in Session : pending'[t] # None =>
                /\ pending'[t].id \in 1..Len(releases')
                /\ pending'[t].op = "promote" => pending'[t].champion \in 0..Len(releases')
                /\ pending'[t].op = "rollback" => pending'[t].predecessor \in 0..Len(releases')
<1>1. pending \in [Session -> Request \cup {None}]
    BY DEF TypeInv, TypeOK
<1>2. ASSUME NEW t \in Session, pending'[t] # None
      PROVE  /\ pending'[t].id \in 1..Len(releases')
             /\ pending'[t].op = "promote" => pending'[t].champion \in 0..Len(releases')
             /\ pending'[t].op = "rollback" => pending'[t].predecessor \in 0..Len(releases')
    <2>1. CASE t = s
        BY <1>1, <1>2, <2>1
    <2>2. CASE t # s
        <3>1. pending'[t] = pending[t]
            BY <1>1, <2>2
        <3>2. QED
            BY <1>2, <3>1 DEF TypeInv
    <2>3. QED
        BY <2>1, <2>2
<1>3. QED
    BY <1>1, <1>2

\* Control actions change releases in place.
LEMMA ControlType ==
    ASSUME TypeInv, NEW s \in Session, UNCHANGED outcomes,
           pending[s] # None, pending' = [pending EXCEPT ![s] = None],
           pending[s].op \in {"promote", "rollback"}, Records(pending[s]),
           releases' \in [1..Len(releases) -> Release],
           \A r \in 1..Len(releases) : releases'[r].predecessor \in 0..Len(releases),
           raced' \in BOOLEAN
    PROVE  TypeInv'
<1>1. Len(releases) \in Nat /\ releases' \in Seq(Release) /\ Len(releases') = Len(releases)
    <2>1. Len(releases) \in Nat
        BY LenProperties DEF TypeInv, TypeOK
    <2>2. releases' \in Seq(Release)
        BY <2>1
    <2>3. QED
        BY <2>1, <2>2, LenProperties
<1>2. pending[s].key \in Key /\ pending[s].id \in 1..MaxReleases
    BY DEF TypeInv, TypeOK, Request
<1>3. controls' \in [Key -> [action : {"promote", "rollback"}, id : 1..MaxReleases] \cup {None}]
    <2>1. [action |-> pending[s].op, id |-> pending[s].id]
            \in [action : {"promote", "rollback"}, id : 1..MaxReleases]
        BY <1>2
    <2>2. QED
        BY <1>2, <2>1 DEF Records, TypeInv, TypeOK
<1>4. /\ pending' \in [Session -> Request \cup {None}]
      /\ \A t \in Session : pending'[t] # None =>
            /\ pending'[t].id \in 1..Len(releases')
            /\ pending'[t].op = "promote" => pending'[t].champion \in 0..Len(releases')
            /\ pending'[t].op = "rollback" => pending'[t].predecessor \in 0..Len(releases')
    BY <1>1, AskedType
<1>5. TypeOK'
    BY <1>1, <1>3, <1>4 DEF TypeInv, TypeOK, outcomes
<1>6. QED
    BY <1>1, <1>4, <1>5 DEF TypeInv, outcomes

LEMMA TypeStep ==
    ASSUME TypeInv, [Next]_vars
    PROVE  TypeInv'
<1>0. /\ history \in Recorded
      /\ manifests \in Seq(ManifestRow) /\ Len(manifests) \in Nat
      /\ Len(manifests) <= MaxManifests
      /\ releases \in Seq(Release) /\ Len(releases) \in Nat /\ Len(releases) <= MaxReleases
      /\ datasets \in [1..MaxManifests -> Dataset \cup {None}]
      /\ pending \in [Session -> Request \cup {None}]
      /\ MaxManifests \in Nat /\ MaxReleases \in Nat /\ raced \in BOOLEAN
    BY LenProperties, RegistryBoundAssumption DEF TypeInv, TypeOK, Recorded
<1>1. ASSUME NEW as_of \in Time, GenerateReport(as_of)
      PROVE  TypeInv'
    <2> DEFINE row == [frozen |-> Manifest(history, as_of), real_world_approved |-> FALSE]
    <2>1. row \in ManifestRow
        BY <1>0, ManifestType DEF ManifestRow
    <2>2. manifests' = Append(manifests, row) /\ Len(manifests) < MaxManifests
          /\ UNCHANGED <<history, datasets, releases, controls, pending, raced>>
        BY <1>1 DEF GenerateReport
    <2> HIDE DEF row
    <2>3. manifests' \in Seq(ManifestRow) /\ Len(manifests') = Len(manifests) + 1
        BY <1>0, <2>1, <2>2, AppendProperties
    <2>4. TypeOK'
        BY <1>0, <2>2, <2>3 DEF TypeInv, TypeOK
    <2>5. \A m \in 1..MaxManifests : datasets'[m] # None => m \in 1..Len(manifests')
        BY <1>0, <2>2, <2>3 DEF TypeInv
    <2>6. QED
        BY <2>2, <2>3, <2>4, <2>5 DEF TypeInv
<1>2. ASSUME NEW m \in 1..Len(manifests), ApproveManifest(m)
      PROVE  TypeInv'
    <2> DEFINE row == [manifests[m] EXCEPT !.real_world_approved = TRUE]
    <2>1. manifests[m] \in ManifestRow
        BY <1>0, ElementOfSeq
    <2>2. row \in ManifestRow
        BY <2>1 DEF ManifestRow
    <2>3. manifests' = [manifests EXCEPT ![m] = row]
          /\ UNCHANGED <<history, datasets, releases, controls, pending, raced>>
        BY <1>2 DEF ApproveManifest
    <2> HIDE DEF row
    <2>4. manifests' \in Seq(ManifestRow) /\ Len(manifests') = Len(manifests)
        BY <1>0, <2>2, <2>3, ExceptSeq
    <2>5. TypeOK'
        BY <2>3, <2>4 DEF TypeInv, TypeOK
    <2>6. QED
        BY <2>3, <2>4, <2>5 DEF TypeInv
<1>3. ASSUME NEW m \in 1..Len(manifests), NEW mechanics_only \in BOOLEAN,
             CreateDataset(m, mechanics_only)
      PROVE  TypeInv'
    <2> DEFINE rows == Rows(manifests[m].frozen)
               real == /\ manifests[m].real_world_approved
                       /\ RealSources(manifests[m].frozen.sources)
               row == [rows |-> rows, real_data_eligible |-> real,
                       status |-> DatasetStatus(rows, real, mechanics_only)]
    <2>1. manifests[m] \in ManifestRow
        BY <1>0, ElementOfSeq
    <2>2. rows \in SUBSET Row
        BY <2>1, RowsType DEF ManifestRow
    <2>3. real \in BOOLEAN
        BY <2>1 DEF ManifestRow, RealSources
    <2>4. datasets' = [datasets EXCEPT ![m] = row]
          /\ UNCHANGED <<history, manifests, releases, controls, pending, raced>>
        BY <1>3 DEF CreateDataset
    <2> HIDE DEF rows, real
    <2>5. row \in Dataset
        BY <2>2, <2>3, DatasetStatusType DEF Dataset
    <2> HIDE DEF row
    <2>6. m \in 1..MaxManifests
        BY <1>0
    <2>7. datasets' \in [1..MaxManifests -> Dataset \cup {None}]
        BY <1>0, <2>4, <2>5
    <2>8. TypeOK'
        BY <2>4, <2>7 DEF TypeInv, TypeOK
    <2>9. \A n \in 1..MaxManifests : datasets'[n] # None => n \in 1..Len(manifests')
        BY <1>0, <2>4 DEF TypeInv
    <2>10. QED
        BY <2>4, <2>8, <2>9 DEF TypeInv
<1>4. ASSUME NEW m \in 1..Len(manifests), NEW mechanics_only \in BOOLEAN, NEW algorithm,
             TrainModel(m, algorithm, mechanics_only)
      PROVE  TypeInv'
    <2> DEFINE row == [dataset |-> m, predecessor |-> 0, reviewed |-> FALSE,
                       status |-> TrainedStatus(datasets[m], algorithm, mechanics_only)]
    <2>1. row \in Release
        BY <1>0 DEF Release, TrainedStatus
    <2>2. releases' = Append(releases, row) /\ Len(releases) < MaxReleases /\ row.predecessor = 0
          /\ UNCHANGED <<outcomes, controls, pending, raced>>
        BY <1>4 DEF TrainModel
    <2> HIDE DEF row
    <2>3. /\ releases' \in Seq(Release) /\ Len(releases') = Len(releases) + 1
          /\ \A r \in 1..Len(releases) : releases'[r] = releases[r]
          /\ releases'[Len(releases) + 1] = row
        BY <1>0, <2>1, <2>2, AppendProperties
    <2>4. TypeOK'
        BY <1>0, <2>2, <2>3 DEF TypeInv, TypeOK, outcomes
    <2>5. ASSUME NEW r \in 1..Len(releases')
          PROVE  releases'[r].predecessor \in 0..Len(releases')
        <3>1. CASE r \in 1..Len(releases)
            <4>1. releases'[r].predecessor \in 0..Len(releases)
                BY <2>3, <3>1 DEF TypeInv
            <4>2. QED
                BY <1>0, <2>3, <4>1
        <3>2. CASE r \notin 1..Len(releases)
            <4>1. r = Len(releases) + 1
                BY <1>0, <2>3, <3>2
            <4>2. QED
                BY <1>0, <2>2, <2>3, <4>1
        <3>3. QED
            BY <3>1, <3>2
    <2>6. ASSUME NEW s \in Session, pending'[s] # None
          PROVE  /\ pending'[s].id \in 1..Len(releases')
                 /\ pending'[s].op = "promote" => pending'[s].champion \in 0..Len(releases')
        <3>1. /\ pending'[s].id \in 1..Len(releases)
              /\ pending'[s].op = "promote" => pending'[s].champion \in 0..Len(releases)
            BY <2>2, <2>6 DEF TypeInv
        <3>2. QED
            BY <1>0, <2>3, <3>1
    <2>7. QED
        BY <2>2, <2>3, <2>4, <2>5, <2>6 DEF TypeInv, outcomes
<1>5. ASSUME NEW r \in 1..Len(releases), ReviewGates(r)
      PROVE  TypeInv'
    <2> DEFINE row == [releases[r] EXCEPT !.reviewed = TRUE]
    <2>1. releases[r] \in Release
        BY <1>0, ElementOfSeq
    <2>2. row \in Release /\ row.predecessor = releases[r].predecessor
        BY <2>1 DEF Release
    <2>3. releases' = [releases EXCEPT ![r] = row]
          /\ UNCHANGED <<outcomes, controls, pending, raced>>
        BY <1>5 DEF ReviewGates
    <2> HIDE DEF row
    <2>4. /\ releases' \in Seq(Release) /\ Len(releases') = Len(releases)
          /\ \A p \in 1..Len(releases) : releases'[p] = IF p = r THEN row ELSE releases[p]
        BY <1>0, <2>2, <2>3, ExceptSeq
    <2>5. TypeOK'
        BY <1>0, <2>3, <2>4 DEF TypeInv, TypeOK, outcomes
    <2>6. QED
        BY <2>2, <2>3, <2>4, <2>5 DEF TypeInv, outcomes
\* Only a request changes.
<1>6. ASSUME UNCHANGED <<outcomes, releases, controls, raced>>,
             NEW s \in Session, NEW q \in Request \cup {None},
             pending' = [pending EXCEPT ![s] = q],
             q # None =>
                /\ q.id \in 1..Len(releases)
                /\ q.op = "promote" => q.champion \in 0..Len(releases)
                /\ q.op = "rollback" => q.predecessor \in 0..Len(releases)
      PROVE  TypeInv'
    <2>1. /\ pending' \in [Session -> Request \cup {None}]
          /\ \A t \in Session : pending'[t] # None =>
                /\ pending'[t].id \in 1..Len(releases')
                /\ pending'[t].op = "promote" => pending'[t].champion \in 0..Len(releases')
                /\ pending'[t].op = "rollback" => pending'[t].predecessor \in 0..Len(releases')
        BY <1>6, AskedType
    <2>2. QED
        BY <1>6, <2>1 DEF TypeInv, TypeOK, outcomes
<1>7. ASSUME NEW s \in Session, NEW k \in Key, NEW r \in 1..Len(releases),
             BeginPromote(s, k, r) \/ BeginRollback(s, k, r)
      PROVE  TypeInv'
    <2>1. Champion \in 0..Len(releases) /\ Champion \in 0..MaxReleases /\ r \in 1..MaxReleases
        BY <1>0, ChampionType
    <2>2. /\ [op |-> "promote", key |-> k, id |-> r, champion |-> Champion] \in Request
          /\ [op |-> "rollback", key |-> k, id |-> r,
              predecessor |-> releases[r].predecessor] \in Request
          /\ releases[r].predecessor \in 0..Len(releases)
        BY <1>0, <2>1, ElementOfSeq DEF Request, Release, TypeInv
    <2>3. CASE BeginPromote(s, k, r)
        BY <1>6, <2>1, <2>2, <2>3 DEF BeginPromote
    <2>4. CASE BeginRollback(s, k, r)
        BY <1>6, <2>2, <2>4 DEF BeginRollback
    <2>5. QED
        BY <1>7, <2>3, <2>4
<1>8. ASSUME NEW s \in Session, CommitPromote(s)
      PROVE  TypeInv'
    <2> DEFINE id == pending[s].id
               champion == pending[s].champion
    <2>1. /\ champion \in 0..Len(releases)
          /\ \A r \in 1..Len(releases) :
                releases[r] \in Release /\ releases[r].predecessor \in 0..Len(releases)
        BY <1>0, <1>8, ElementOfSeq DEF CommitPromote, TypeInv
    <2>2. releases' = [r \in 1..Len(releases) |->
            IF r = id
            THEN [releases[r] EXCEPT !.status = "champion",
                    !.predecessor = IF champion # 0 THEN champion ELSE @]
            ELSE IF r = champion THEN [releases[r] EXCEPT !.status = "retired"]
            ELSE releases[r]]
        BY <1>8 DEF CommitPromote
    <2> HIDE DEF id, champion
    <2>3. champion \in 0..MaxReleases
        BY <1>0, <2>1
    <2>4. ASSUME NEW r \in 1..Len(releases)
          PROVE  releases'[r] \in Release /\ releases'[r].predecessor \in 0..Len(releases)
        <3>1. releases[r] \in Release /\ releases[r].predecessor \in 0..Len(releases)
            BY <2>1
        <3>2. CASE r = id
            BY <2>1, <2>2, <2>3, <3>1, <3>2 DEF Release
        <3>3. CASE r # id
            BY <2>2, <3>1, <3>3 DEF Release
        <3>4. QED
            BY <3>2, <3>3
    <2>5. releases' \in [1..Len(releases) -> Release]
        BY <2>2, <2>4
    <2>6. QED
        BY <1>0, <1>8, <2>4, <2>5, ControlType DEF CommitPromote
<1>9. ASSUME NEW s \in Session, CommitRollback(s)
      PROVE  TypeInv'
    <2> DEFINE id == pending[s].id
               predecessor == pending[s].predecessor
    <2>1. \A r \in 1..Len(releases) :
            releases[r] \in Release /\ releases[r].predecessor \in 0..Len(releases)
        BY <1>0, ElementOfSeq DEF TypeInv
    <2>2. releases' = [r \in 1..Len(releases) |->
            IF r = id THEN [releases[r] EXCEPT !.status = "rolled_back"]
            ELSE IF r = predecessor THEN [releases[r] EXCEPT !.status = "champion"]
            ELSE releases[r]]
        BY <1>9 DEF CommitRollback
    <2> HIDE DEF id, predecessor
    <2>3. ASSUME NEW r \in 1..Len(releases)
          PROVE  releases'[r] \in Release /\ releases'[r].predecessor \in 0..Len(releases)
        <3>1. releases[r] \in Release /\ releases[r].predecessor \in 0..Len(releases)
            BY <2>1
        <3>2. QED
            BY <2>2, <3>1 DEF Release
    <2>4. releases' \in [1..Len(releases) -> Release]
        BY <2>2, <2>3
    <2>5. QED
        BY <1>0, <1>9, <2>3, <2>4, ControlType DEF CommitRollback
<1>10. ASSUME NEW s \in Session, Refuse(s)
      PROVE  TypeInv'
    BY <1>6, <1>10 DEF Refuse
<1>11. CASE UNCHANGED vars
    BY <1>11 DEF TypeInv, TypeOK, vars, outcomes
<1>12. QED
    BY <1>1, <1>2, <1>3, <1>4, <1>5, <1>7, <1>8, <1>9, <1>10, <1>11 DEF Next

\* Manifests, datasets, releases and requests keep their shape, and name rows that are
\* there.
THEOREM TypeSafety == Spec => []TypeOK
<1>1. TypeInv => TypeOK
    BY DEF TypeInv
<1>2. QED
    BY <1>1, TypeInitial, TypeStep, PTL DEF Spec

----------------------------------------------------------------------------
(* What serves *)

Served == {"champion", "retired", "rolled_back"}

\* A dataset that was ready on approved, real evidence.
Real(m, data, rows) ==
    /\ data[m] # None
    /\ data[m].status = "ready"
    /\ RealSources(rows[m].frozen.sources)

\* What a request names serves, served or may.
Grounded(rows, request) ==
    /\ request.op = "promote" =>
        /\ rows[request.id].status \in Served \cup {"challenger"}
        /\ rows[request.id].reviewed
        /\ request.champion # 0 => rows[request.champion].status \in Served
    /\ request.op = "rollback" =>
        /\ rows[request.id].status \in Served
        /\ request.predecessor # 0 => rows[request.predecessor].status \in Served

\* Eligible datasets are real, releases that served or may serve were trained on them, and
\* what requests and predecessors name has served or may.
Backed ==
    /\ \A m \in 1..MaxManifests :
        datasets[m] # None /\ datasets[m].real_data_eligible /\ datasets[m].status # "blocked"
            => Real(m, datasets, manifests)
    /\ \A r \in 1..Len(releases) :
        /\ releases[r].status \in Served \cup {"challenger"} => Real(releases[r].dataset, datasets, manifests)
        /\ releases[r].status \in Served => releases[r].reviewed
        /\ releases[r].predecessor # 0 => releases[releases[r].predecessor].status \in Served
    /\ \A s \in Session : pending[s] # None => Grounded(releases, pending[s])

\* What was frozen stays so, and a dataset with it.
LEMMA RealStays ==
    ASSUME TypeInv, [Next]_vars, NEW m \in 1..MaxManifests, Real(m, datasets, manifests)
    PROVE  Real(m, datasets', manifests')
<1>0. /\ manifests \in Seq(ManifestRow) /\ m \in 1..Len(manifests)
      /\ datasets \in [1..MaxManifests -> Dataset \cup {None}]
    BY DEF TypeInv, TypeOK, Real
<1>1. CASE \E as_of \in Time : GenerateReport(as_of)
    <2>1. PICK as_of \in Time : GenerateReport(as_of)
        BY <1>1
    <2> DEFINE row == [frozen |-> Manifest(history, as_of), real_world_approved |-> FALSE]
    <2>2. row \in ManifestRow
        BY ManifestType DEF ManifestRow, TypeInv, TypeOK, Recorded
    <2>3. manifests' = Append(manifests, row) /\ datasets' = datasets
        BY <2>1 DEF GenerateReport
    <2> HIDE DEF row
    <2>4. manifests'[m] = manifests[m]
        BY <1>0, <2>2, <2>3, AppendProperties
    <2>5. QED
        BY <2>3, <2>4 DEF Real
<1>2. CASE \E n \in 1..Len(manifests) : ApproveManifest(n)
    <2>1. PICK n \in 1..Len(manifests) : ApproveManifest(n)
        BY <1>2
    <2>2. manifests[n] \in ManifestRow
        BY <1>0, ElementOfSeq
    <2>3. manifests'[m].frozen = manifests[m].frozen /\ datasets' = datasets
        BY <1>0, <2>1, <2>2 DEF ApproveManifest, ManifestRow
    <2>4. QED
        BY <2>3 DEF Real
<1>3. CASE \E n \in 1..Len(manifests), mechanics_only \in BOOLEAN : CreateDataset(n, mechanics_only)
    BY <1>0, <1>3 DEF CreateDataset, Real
<1>4. CASE UNCHANGED <<manifests, datasets>>
    BY <1>4 DEF Real
<1>5. QED
    BY <1>1, <1>2, <1>3, <1>4
    DEF Next, vars, outcomes, TrainModel, ReviewGates, BeginPromote, BeginRollback,
        CommitPromote, CommitRollback, Refuse

\* Requests that do nothing, or only begin.
LEMMA BackedFrame ==
    ASSUME TypeInv, Backed, [Next]_vars,
           \A m \in 1..MaxManifests :
                \/ datasets'[m] \in {None, datasets[m]}
                \/ Real(m, datasets', manifests')
                \/ ~datasets'[m].real_data_eligible
                \/ datasets'[m].status = "blocked",
           Len(releases') = Len(releases),
           \A r \in 1..Len(releases) :
                /\ releases'[r].dataset = releases[r].dataset
                /\ releases[r].status \in Served => releases'[r].status \in Served
                /\ releases[r].status = "challenger" =>
                        releases'[r].status \in Served \cup {"challenger"}
                /\ releases'[r].status \in Served \cup {"challenger"} =>
                        releases[r].status \in Served \cup {"challenger"}
                /\ releases[r].reviewed => releases'[r].reviewed
                /\ releases'[r].status \in Served =>
                        releases[r].status \in Served \/ releases[r].reviewed
                /\ releases'[r].predecessor # 0 =>
                        releases[releases'[r].predecessor].status \in Served,
           \A s \in Session : pending'[s] # None =>
                pending'[s] = pending[s] \/ Grounded(releases, pending'[s])
    PROVE  Backed'
<1>0. /\ TypeInv' /\ releases \in Seq(Release)
    BY TypeStep DEF TypeInv, TypeOK
<1>1. ASSUME NEW m \in 1..MaxManifests, datasets'[m] # None, datasets'[m].real_data_eligible,
             datasets'[m].status # "blocked"
      PROVE  Real(m, datasets', manifests')
    BY <1>1, RealStays DEF Backed
<1>2. ASSUME NEW r \in 1..Len(releases)
      PROVE  /\ releases'[r].status \in Served \cup {"challenger"} =>
                    Real(releases'[r].dataset, datasets', manifests')
             /\ releases'[r].status \in Served => releases'[r].reviewed
             /\ releases'[r].predecessor # 0 =>
                    releases'[releases'[r].predecessor].status \in Served
    <2>1. releases[r].dataset \in 1..MaxManifests
        <3>1. releases[r] \in Release
            BY <1>0, ElementOfSeq
        <3>2. QED
            BY <3>1 DEF Release
    <2>2. releases'[r].status \in Served => releases'[r].reviewed
        BY DEF Backed
    <2>3. releases'[r].predecessor \in 0..Len(releases)
        BY <1>0 DEF TypeInv
    <2>4. releases'[r].predecessor # 0 => releases'[releases'[r].predecessor].status \in Served
        BY <2>3
    <2>5. ASSUME releases'[r].status \in Served \cup {"challenger"}
          PROVE  Real(releases'[r].dataset, datasets', manifests')
        <3>1. Real(releases[r].dataset, datasets, manifests)
            BY <2>5 DEF Backed
        <3>2. QED
            BY <2>1, <3>1, RealStays
    <2>6. QED
        BY <2>2, <2>4, <2>5
<1>3. ASSUME NEW s \in Session, pending'[s] # None
      PROVE  Grounded(releases', pending'[s])
    <2>1. /\ pending'[s].id \in 1..Len(releases)
          /\ pending'[s].op = "promote" => pending'[s].champion \in 0..Len(releases)
          /\ pending'[s].op = "rollback" => pending'[s].predecessor \in 0..Len(releases)
        BY <1>0, <1>3 DEF TypeInv
    <2>2. Grounded(releases, pending'[s])
        BY <1>3 DEF Backed
    <2>3. QED
        BY <2>1, <2>2 DEF Grounded
<1>4. QED
    BY <1>1, <1>2, <1>3 DEF Backed

LEMMA BackedStep ==
    ASSUME TypeInv, Backed, [Next]_vars
    PROVE  Backed'
<1>0. /\ TypeInv' /\ releases \in Seq(Release) /\ Len(releases) \in Nat
      /\ pending \in [Session -> Request \cup {None}]
      /\ datasets \in [1..MaxManifests -> Dataset \cup {None}]
      /\ manifests \in Seq(ManifestRow) /\ Len(manifests) \in Nat
      /\ Len(manifests) <= MaxManifests /\ MaxManifests \in Nat /\ MaxReleases \in Nat
      /\ \A r \in 1..Len(releases) : releases[r] \in Release
    BY TypeStep, LenProperties, ElementOfSeq, RegistryBoundAssumption DEF TypeInv, TypeOK
\* Releases are as they were.
<1>1. ASSUME releases' = releases, datasets' = datasets,
             \A s \in Session : pending'[s] # None =>
                pending'[s] = pending[s] \/ Grounded(releases, pending'[s])
      PROVE  Backed'
    <2>1. \A r \in 1..Len(releases) : releases'[r].predecessor # 0 =>
                releases[releases'[r].predecessor].status \in Served
        BY <1>1 DEF Backed
    <2>2. QED
        BY <1>1, <2>1, BackedFrame
<1>2. CASE \E as_of \in Time : GenerateReport(as_of)
    BY <1>1, <1>2 DEF GenerateReport
<1>3. ASSUME NEW m \in 1..Len(manifests), ApproveManifest(m)
      PROVE  Backed'
    BY <1>1, <1>3 DEF ApproveManifest
<1>4. ASSUME NEW m \in 1..Len(manifests), NEW mechanics_only \in BOOLEAN,
             CreateDataset(m, mechanics_only)
      PROVE  Backed'
    <2> DEFINE rows == Rows(manifests[m].frozen)
               real == /\ manifests[m].real_world_approved
                       /\ RealSources(manifests[m].frozen.sources)
               status == DatasetStatus(rows, real, mechanics_only)
    <2>1. /\ datasets' = [datasets EXCEPT ![m] =
                [rows |-> rows, real_data_eligible |-> real, status |-> status]]
          /\ UNCHANGED <<manifests, releases, pending>>
        BY <1>4 DEF CreateDataset
    <2> HIDE DEF rows, real, status
    <2>2. manifests[m] \in ManifestRow /\ m \in 1..MaxManifests
        BY <1>0, ElementOfSeq
    <2>3. real \in BOOLEAN
        BY <2>2 DEF ManifestRow, RealSources, real
    <2>4. real => status \in {"ready", "blocked"}
        BY <2>3, DatasetStatusType DEF status
    <2>5. real => RealSources(manifests[m].frozen.sources)
        BY DEF real
    <2>6. datasets'[m] = [rows |-> rows, real_data_eligible |-> real, status |-> status]
        BY <1>0, <2>1, <2>2
    <2>7. ASSUME datasets'[m] # None
          PROVE  \/ Real(m, datasets', manifests')
                 \/ ~datasets'[m].real_data_eligible \/ datasets'[m].status = "blocked"
        BY <2>1, <2>4, <2>5, <2>6, <2>7 DEF Real
    <2>8. \A n \in 1..MaxManifests : n # m => datasets'[n] = datasets[n]
        BY <1>0, <2>1
    <2>9. \A r \in 1..Len(releases) : releases'[r].predecessor # 0 =>
                releases[releases'[r].predecessor].status \in Served
        BY <2>1 DEF Backed
    <2>10. QED
        BY <2>1, <2>7, <2>8, <2>9, BackedFrame
<1>5. ASSUME NEW r \in 1..Len(releases), ReviewGates(r)
      PROVE  Backed'
    <2>1. /\ releases' = [releases EXCEPT ![r].reviewed = TRUE]
          /\ datasets' = datasets /\ pending' = pending
        BY <1>5 DEF ReviewGates, outcomes
    <2>2. ASSUME NEW p \in 1..Len(releases)
          PROVE  /\ releases'[p].status = releases[p].status
                 /\ releases'[p].dataset = releases[p].dataset
                 /\ releases'[p].predecessor = releases[p].predecessor
                 /\ releases[p].reviewed => releases'[p].reviewed
        <3> DEFINE row == [releases[r] EXCEPT !.reviewed = TRUE]
        <3>1. row \in Release
            BY <1>0 DEF Release
        <3>2. /\ row.status = releases[r].status /\ row.dataset = releases[r].dataset
              /\ row.predecessor = releases[r].predecessor /\ row.reviewed
            BY <1>0 DEF Release
        <3>3. releases' = [releases EXCEPT ![r] = row]
            BY <2>1
        <3> HIDE DEF row
        <3>4. releases'[p] = IF p = r THEN row ELSE releases[p]
            BY <1>0, <3>1, <3>3, ExceptSeq
        <3>5. QED
            BY <3>2, <3>4
    <2>3. Len(releases') = Len(releases)
        <3>1. CASE releases = <<>>
            BY <1>0, <2>1, <3>1
        <3>2. QED
            BY <1>0, <2>1
    <2>4. QED
        BY <2>1, <2>2, <2>3, BackedFrame DEF Backed
<1>6. ASSUME NEW m \in 1..Len(manifests), NEW mechanics_only \in BOOLEAN, NEW algorithm,
             TrainModel(m, algorithm, mechanics_only)
      PROVE  Backed'
    <2> DEFINE row == [dataset |-> m, predecessor |-> 0, reviewed |-> FALSE,
                       status |-> TrainedStatus(datasets[m], algorithm, mechanics_only)]
    <2>1. /\ releases' = Append(releases, row) /\ UNCHANGED <<outcomes, pending>>
          /\ datasets[m] # None /\ datasets[m].status # "blocked"
        BY <1>6 DEF TrainModel
    <2>2. m \in 1..MaxManifests
        BY <1>0
    <2>3. row \in Release
        BY <1>0, <2>2 DEF Release, TrainedStatus
    <2>4. /\ row.dataset = m /\ row.predecessor = 0
          /\ row.status \in {"blocked", "inactive", "challenger"}
          /\ row.status = "challenger" => datasets[m].real_data_eligible
        BY <1>0, <2>1, <2>2 DEF TrainedStatus, Dataset
    <2> HIDE DEF row
    <2>5. /\ Len(releases') = Len(releases) + 1
          /\ \A r \in 1..Len(releases) : releases'[r] = releases[r]
          /\ releases'[Len(releases) + 1] = row
        BY <1>0, <2>1, <2>3, AppendProperties
    <2>6. datasets' = datasets /\ manifests' = manifests /\ pending' = pending
        BY <2>1 DEF outcomes
    <2>7. row.status = "challenger" => Real(m, datasets, manifests)
        BY <2>1, <2>2, <2>4 DEF Backed
    <2>8. ASSUME NEW r \in 1..Len(releases')
          PROVE  /\ releases'[r].status \in Served \cup {"challenger"} =>
                        Real(releases'[r].dataset, datasets, manifests)
                 /\ releases'[r].status \in Served => releases'[r].reviewed
                 /\ releases'[r].predecessor # 0 =>
                        releases'[releases'[r].predecessor].status \in Served
        <3>1. CASE r \in 1..Len(releases)
            <4>1. releases'[r] = releases[r] /\ releases[r].predecessor \in 0..Len(releases)
                BY <2>5, <3>1 DEF TypeInv
            <4>2. releases[r].predecessor # 0 =>
                    releases'[releases[r].predecessor] = releases[releases[r].predecessor]
                BY <1>0, <2>5, <4>1
            <4>3. QED
                BY <3>1, <4>1, <4>2 DEF Backed
        <3>2. CASE r \notin 1..Len(releases)
            <4>1. r = Len(releases) + 1
                BY <1>0, <2>5, <3>2
            <4>2. QED
                BY <2>4, <2>5, <2>7, <4>1 DEF Served
        <3>3. QED
            BY <3>1, <3>2
    <2>9. ASSUME NEW s \in Session, pending'[s] # None
          PROVE  Grounded(releases', pending'[s])
        <3>1. /\ pending[s].id \in 1..Len(releases)
              /\ pending[s].op = "promote" => pending[s].champion \in 0..Len(releases)
              /\ pending[s].op = "rollback" => pending[s].predecessor \in 0..Len(releases)
            BY <2>6, <2>9 DEF TypeInv
        <3>2. /\ releases'[pending[s].id] = releases[pending[s].id]
              /\ pending[s].op = "promote" /\ pending[s].champion # 0 =>
                    releases'[pending[s].champion] = releases[pending[s].champion]
              /\ pending[s].op = "rollback" /\ pending[s].predecessor # 0 =>
                    releases'[pending[s].predecessor] = releases[pending[s].predecessor]
            BY <1>0, <2>5, <3>1
        <3>3. Grounded(releases, pending[s])
            BY <2>6, <2>9 DEF Backed
        <3>4. QED
            BY <2>6, <3>2, <3>3 DEF Grounded
    <2>10. QED
        BY <2>6, <2>8, <2>9 DEF Backed
<1>7. ASSUME NEW s \in Session, NEW k \in Key, NEW r \in 1..Len(releases),
             BeginPromote(s, k, r) \/ BeginRollback(s, k, r)
      PROVE  Backed'
    <2>1. Champion # 0 => releases[Champion].status \in Served
        BY ChampionType DEF Champions, Served
    <2>2. CASE BeginPromote(s, k, r)
        <3>1. releases' = releases /\ datasets' = datasets
            BY <2>2 DEF BeginPromote, outcomes
        <3>2. pending' = [pending EXCEPT ![s] =
                [op |-> "promote", key |-> k, id |-> r, champion |-> Champion]]
            BY <2>2 DEF BeginPromote
        <3>3. releases[r].status = "challenger" /\ releases[r].reviewed
            BY <2>2 DEF BeginPromote, Promotable, GatesPass
        <3> HIDE DEF Champion
        <3>4. Grounded(releases, [op |-> "promote", key |-> k, id |-> r, champion |-> Champion])
            BY <2>1, <3>3 DEF Grounded
        <3>5. QED
            BY <1>0, <1>1, <3>1, <3>2, <3>4
    <2>3. CASE BeginRollback(s, k, r)
        <3>1. /\ releases' = releases /\ datasets' = datasets
              /\ pending' = [pending EXCEPT ![s] = [op |-> "rollback", key |-> k, id |-> r,
                                predecessor |-> releases[r].predecessor]]
              /\ releases[r].status \in Served
            BY <2>3 DEF BeginRollback, outcomes, Served
        <3>2. Grounded(releases, [op |-> "rollback", key |-> k, id |-> r,
                                  predecessor |-> releases[r].predecessor])
            BY <3>1 DEF Grounded, Backed
        <3>3. QED
            BY <1>0, <1>1, <3>1, <3>2
    <2>4. QED
        BY <1>7, <2>2, <2>3
<1>8. ASSUME NEW s \in Session, CommitPromote(s)
      PROVE  Backed'
    <2> DEFINE id == pending[s].id
               champion == pending[s].champion
    <2>1. /\ releases' = [r \in 1..Len(releases) |->
            IF r = id
            THEN [releases[r] EXCEPT !.status = "champion",
                    !.predecessor = IF champion # 0 THEN champion ELSE @]
            ELSE IF r = champion THEN [releases[r] EXCEPT !.status = "retired"]
            ELSE releases[r]]
          /\ pending' = [pending EXCEPT ![s] = None] /\ datasets' = datasets
        BY <1>8 DEF CommitPromote, outcomes
    <2>2. /\ releases[id].status \in Served \cup {"challenger"} /\ releases[id].reviewed
          /\ champion # 0 => releases[champion].status \in Served
        BY <1>8 DEF CommitPromote, Backed, Grounded
    <2> HIDE DEF id, champion
    <2>3. ASSUME NEW r \in 1..Len(releases)
          PROVE  /\ releases'[r].dataset = releases[r].dataset
                 /\ releases[r].status \in Served => releases'[r].status \in Served
                 /\ releases[r].status = "challenger" =>
                        releases'[r].status \in Served \cup {"challenger"}
                 /\ releases'[r].status \in Served \cup {"challenger"} =>
                        releases[r].status \in Served \cup {"challenger"}
                 /\ releases[r].reviewed => releases'[r].reviewed
                 /\ releases'[r].status \in Served =>
                        releases[r].status \in Served \/ releases[r].reviewed
                 /\ releases'[r].predecessor # 0 =>
                        releases[releases'[r].predecessor].status \in Served
        <3>1. releases[r] \in Release
              /\ (releases[r].predecessor # 0 =>
                        releases[releases[r].predecessor].status \in Served)
            BY <1>0 DEF Backed
        <3>2. CASE r = id
            BY <2>1, <2>2, <3>1, <3>2 DEF Release, Served
        <3>3. CASE r # id /\ r = champion
            <4>1. r # 0
                OBVIOUS
            <4>2. QED
                BY <2>1, <2>2, <3>1, <3>3, <4>1 DEF Release, Served
        <3>4. CASE r # id /\ r # champion
            BY <2>1, <3>1, <3>4
        <3>5. QED
            BY <3>2, <3>3, <3>4
    <2>4. Len(releases') = Len(releases)
        <3>1. DOMAIN releases' = 1..Len(releases)
            BY <2>1
        <3>2. releases' \in Seq(Release)
            BY <1>0 DEF TypeInv, TypeOK
        <3>3. QED
            BY <1>0, <3>1, <3>2, LenProperties
    <2>5. \A t \in Session : pending'[t] # None => pending'[t] = pending[t]
        BY <1>0, <2>1
    <2>6. QED
        BY <2>1, <2>3, <2>4, <2>5, BackedFrame
<1>9. ASSUME NEW s \in Session, CommitRollback(s)
      PROVE  Backed'
    <2> DEFINE id == pending[s].id
               predecessor == pending[s].predecessor
    <2>1. /\ releases' = [r \in 1..Len(releases) |->
            IF r = id THEN [releases[r] EXCEPT !.status = "rolled_back"]
            ELSE IF r = predecessor THEN [releases[r] EXCEPT !.status = "champion"]
            ELSE releases[r]]
          /\ pending' = [pending EXCEPT ![s] = None] /\ datasets' = datasets
        BY <1>9 DEF CommitRollback, outcomes
    <2>2. /\ releases[id].status \in Served
          /\ predecessor # 0 => releases[predecessor].status \in Served
        BY <1>9 DEF CommitRollback, Backed, Grounded, TypeInv
    <2> HIDE DEF id, predecessor
    <2>3. ASSUME NEW r \in 1..Len(releases)
          PROVE  /\ releases'[r].dataset = releases[r].dataset
                 /\ releases'[r].predecessor = releases[r].predecessor
                 /\ releases'[r].reviewed = releases[r].reviewed
                 /\ \/ releases'[r].status = releases[r].status
                    \/ releases[r].status \in Served /\ releases'[r].status \in Served
        <3>1. releases[r] \in Release
            BY <1>0
        <3>2. CASE r = id
            BY <2>1, <2>2, <3>1, <3>2 DEF Release, Served
        <3>3. CASE r # id /\ r = predecessor
            <4>1. r # 0
                OBVIOUS
            <4>2. QED
                BY <2>1, <2>2, <3>1, <3>3, <4>1 DEF Release, Served
        <3>4. CASE r # id /\ r # predecessor
            BY <2>1, <3>1, <3>4
        <3>5. QED
            BY <3>2, <3>3, <3>4
    <2>4. Len(releases') = Len(releases)
        <3>1. DOMAIN releases' = 1..Len(releases)
            BY <2>1
        <3>2. releases' \in Seq(Release)
            BY <1>0 DEF TypeInv, TypeOK
        <3>3. QED
            BY <1>0, <3>1, <3>2, LenProperties
    <2>5. \A t \in Session : pending'[t] # None => pending'[t] = pending[t]
        BY <1>0, <2>1
    <2>6. \A r \in 1..Len(releases) : releases[r].predecessor # 0 =>
                releases[releases[r].predecessor].status \in Served
        BY DEF Backed
    <2>7. QED
        BY <2>1, <2>3, <2>4, <2>5, <2>6, BackedFrame
<1>10. ASSUME NEW s \in Session, Refuse(s)
      PROVE  Backed'
    <2>1. /\ releases' = releases /\ datasets' = datasets
          /\ pending' = [pending EXCEPT ![s] = None]
        BY <1>10 DEF Refuse, outcomes
    <2>2. QED
        BY <1>0, <1>1, <2>1
<1>11. CASE UNCHANGED vars
    BY <1>1, <1>11 DEF vars, outcomes
<1>12. QED
    BY <1>2, <1>3, <1>4, <1>5, <1>6, <1>7, <1>8, <1>9, <1>10, <1>11 DEF Next

----------------------------------------------------------------------------
(* Retired champions *)

Serving == {"champion", "retired"}

\* While no control action rested on releases that had changed: one champion, retired
\* predecessors, and one successor that serves or served for each retired champion.
Kept ==
    ~raced =>
        /\ \A r, q \in 1..Len(releases) :
            releases[r].status = "champion" /\ releases[q].status = "champion" => r = q
        /\ \A r \in 1..Len(releases) : releases[r].predecessor # 0 =>
            /\ releases[r].status \in Served
            /\ releases[r].status \in Serving =>
                releases[releases[r].predecessor].status = "retired"
        /\ \A r \in 1..Len(releases) : releases[r].status = "retired" =>
            \E q \in 1..Len(releases) :
                releases[q].status \in Serving /\ releases[q].predecessor = r
        /\ \A r, q \in 1..Len(releases) :
            /\ releases[r].status \in Serving /\ releases[q].status \in Serving
            /\ releases[r].predecessor = releases[q].predecessor /\ releases[r].predecessor # 0
            => r = q

\* What leaves statuses and predecessors alone, or adds a release that does not serve.
LEMMA KeptFrame ==
    ASSUME TypeInv, Kept, TypeInv', raced' = raced,
           1..Len(releases) \subseteq 1..Len(releases'),
           \A r \in 1..Len(releases) :
                /\ releases'[r].status = releases[r].status
                /\ releases'[r].predecessor = releases[r].predecessor,
           \A r \in 1..Len(releases') : r \notin 1..Len(releases) =>
                releases'[r].predecessor = 0 /\ releases'[r].status \notin Serving
    PROVE  Kept'
<1> SUFFICES ASSUME ~raced PROVE Kept'
    BY DEF Kept
<1>1. \A r, q \in 1..Len(releases') :
        releases'[r].status = "champion" /\ releases'[q].status = "champion" => r = q
    BY DEF Kept, Serving
<1>2. ASSUME NEW r \in 1..Len(releases'), releases'[r].predecessor # 0
      PROVE  /\ releases'[r].status \in Served
             /\ releases'[r].status \in Serving =>
                    releases'[releases'[r].predecessor].status = "retired"
    <2>1. r \in 1..Len(releases) /\ releases'[r].predecessor = releases[r].predecessor
        BY <1>2
    <2>2. releases[r].predecessor \in 1..Len(releases)
        BY <1>2, <2>1, LenProperties DEF TypeInv, TypeOK
    <2>3. QED
        BY <1>2, <2>1, <2>2 DEF Kept
<1>3. ASSUME NEW r \in 1..Len(releases'), releases'[r].status = "retired"
      PROVE  \E q \in 1..Len(releases') :
                releases'[q].status \in Serving /\ releases'[q].predecessor = r
    <2>1. r \in 1..Len(releases) /\ releases[r].status = "retired"
        BY <1>3 DEF Serving
    <2>2. PICK q \in 1..Len(releases) :
                releases[q].status \in Serving /\ releases[q].predecessor = r
        BY <2>1 DEF Kept
    <2>3. QED
        BY <2>2
<1>4. ASSUME NEW r \in 1..Len(releases'), NEW q \in 1..Len(releases'),
             releases'[r].status \in Serving, releases'[q].status \in Serving,
             releases'[r].predecessor = releases'[q].predecessor, releases'[r].predecessor # 0
      PROVE  r = q
    <2>1. r \in 1..Len(releases) /\ q \in 1..Len(releases)
        BY <1>4
    <2>2. QED
        BY <1>4, <2>1 DEF Kept
<1>5. QED
    BY <1>1, <1>2, <1>3, <1>4 DEF Kept

\* A promotion of a challenger over the champion there is.
LEMMA KeptPromote ==
    ASSUME TypeInv, Kept, TypeInv', ~raced, ~raced', NEW s \in Session, CommitPromote(s)
    PROVE  Kept'
<1> DEFINE id == pending[s].id
           champion == pending[s].champion
<1>1. /\ releases' = [r \in 1..Len(releases) |->
            IF r = id
            THEN [releases[r] EXCEPT !.status = "champion",
                    !.predecessor = IF champion # 0 THEN champion ELSE @]
            ELSE IF r = champion THEN [releases[r] EXCEPT !.status = "retired"]
            ELSE releases[r]]
      /\ champion = Champion /\ releases[id].status = "challenger"
    BY DEF CommitPromote, Promotable
<1>2. /\ id \in 1..Len(releases) /\ champion \in 0..Len(releases)
      /\ Len(releases) \in Nat
      /\ \A r \in 1..Len(releases) : releases[r] \in Release
    BY LenProperties, ElementOfSeq DEF CommitPromote, TypeInv, TypeOK
<1>3. \A r \in 1..Len(releases) : releases[r].status = "champion" <=> champion # 0 /\ r = champion
    BY <1>1, ChampionType DEF Champions, Kept
<1>4. releases[id].predecessor = 0
    BY <1>1, <1>2 DEF Kept, Served
<1>4a. /\ releases[id].status = "challenger"
      /\ releases' \in Seq(Release) /\ DOMAIN releases' = 1..Len(releases)
    BY <1>1 DEF TypeInv, TypeOK
<1> HIDE DEF id, champion
<1>5. Len(releases') = Len(releases)
    BY <1>2, <1>4a, LenProperties
<1>6. ASSUME NEW r \in 1..Len(releases)
      PROVE  /\ r = id => /\ releases'[r].status = "champion"
                          /\ releases'[r].predecessor = champion
             /\ r # id => /\ releases'[r].predecessor = releases[r].predecessor
                          /\ r = champion => releases'[r].status = "retired"
                          /\ r # champion => releases'[r].status = releases[r].status
    <2>1. CASE r = id
        BY <1>1, <1>2, <1>4, <2>1 DEF Release
    <2>2. CASE r # id /\ r = champion
        BY <1>1, <1>2, <2>2 DEF Release
    <2>3. CASE r # id /\ r # champion
        BY <1>1, <2>3
    <2>4. QED
        BY <2>1, <2>2, <2>3
<1>7. id # champion
    BY <1>2, <1>3, <1>4a
\* Nobody that serves named the champion, and nobody at all the challenger.
<1>8. ASSUME NEW r \in 1..Len(releases), releases[r].predecessor # 0,
             releases[r].status \in Serving
      PROVE  releases[r].predecessor # champion /\ releases[r].predecessor # id
    <2>1. releases[releases[r].predecessor].status = "retired"
        BY <1>8 DEF Kept
    <2>2. QED
        BY <1>2, <1>3, <1>8, <1>4a, <2>1
<1>9. \A r, q \in 1..Len(releases') :
        releases'[r].status = "champion" /\ releases'[q].status = "champion" => r = q
    BY <1>3, <1>5, <1>6
<1>10. ASSUME NEW r \in 1..Len(releases'), releases'[r].predecessor # 0
       PROVE  /\ releases'[r].status \in Served
              /\ releases'[r].status \in Serving =>
                    releases'[releases'[r].predecessor].status = "retired"
    <2>1. CASE r = id
        <3>1. releases'[r].predecessor = champion /\ champion \in 1..Len(releases)
            BY <1>2, <1>5, <1>6, <1>10, <2>1
        <3>2. QED
            BY <1>5, <1>6, <1>7, <2>1, <3>1 DEF Served
    <2>2. CASE r # id
        <3>1. releases[r].predecessor # 0 /\ releases'[r].predecessor = releases[r].predecessor
            BY <1>5, <1>6, <1>10, <2>2
        <3>2. releases[r].status \in Served
            BY <1>5, <3>1 DEF Kept
        <3>3. releases'[r].status \in Served
            BY <1>5, <1>6, <2>2, <3>2 DEF Served
        <3>4. ASSUME releases'[r].status \in Serving
              PROVE  releases'[releases[r].predecessor].status = "retired"
            <4>1. releases[r].status \in Serving
                BY <1>3, <1>5, <1>6, <2>2, <3>4 DEF Serving
            <4>2. /\ releases[releases[r].predecessor].status = "retired"
                  /\ releases[r].predecessor # champion /\ releases[r].predecessor # id
                BY <1>5, <1>8, <3>1, <4>1 DEF Kept
            <4>3. releases[r].predecessor \in 1..Len(releases)
                BY <1>2, <1>5, <3>1 DEF TypeInv
            <4>4. QED
                BY <1>6, <4>2, <4>3
        <3>5. QED
            BY <3>1, <3>3, <3>4
    <2>3. QED
        BY <2>1, <2>2
<1>11. ASSUME NEW r \in 1..Len(releases'), releases'[r].status = "retired"
       PROVE  \E q \in 1..Len(releases') :
                releases'[q].status \in Serving /\ releases'[q].predecessor = r
    <2>1. r # id
        BY <1>5, <1>6, <1>11
    <2>2. CASE r = champion
        <3>1. releases'[id].predecessor = r /\ releases'[id].status \in Serving
            BY <1>2, <1>6, <2>2 DEF Serving
        <3>2. QED
            BY <1>2, <1>5, <3>1
    <2>3. CASE r # champion
        <3>1. releases[r].status = "retired"
            BY <1>5, <1>6, <1>11, <2>1, <2>3
        <3>2. PICK q \in 1..Len(releases) :
                releases[q].status \in Serving /\ releases[q].predecessor = r
            BY <1>5, <3>1 DEF Kept
        <3>3. q # id
            BY <1>1, <3>2 DEF Serving
        <3>4. releases'[q].status \in Serving /\ releases'[q].predecessor = r
            BY <1>6, <3>2, <3>3 DEF Serving
        <3>5. QED
            BY <1>5, <3>4
    <2>4. QED
        BY <2>2, <2>3
<1>12. ASSUME NEW r \in 1..Len(releases'), NEW q \in 1..Len(releases'),
              releases'[r].status \in Serving, releases'[q].status \in Serving,
              releases'[r].predecessor = releases'[q].predecessor, releases'[r].predecessor # 0
       PROVE  r = q
    <2>1. ASSUME NEW p \in 1..Len(releases), p # id, releases'[p].status \in Serving,
                 releases'[p].predecessor # 0
          PROVE  /\ releases[p].status \in Serving
                 /\ releases'[p].predecessor = releases[p].predecessor
                 /\ releases[p].predecessor # champion
        <3>1. releases[p].status \in Serving
            BY <1>3, <1>6, <2>1 DEF Serving
        <3>2. QED
            BY <1>6, <1>8, <2>1, <3>1
    <2>2. CASE r = id \/ q = id
        BY <1>5, <1>6, <1>12, <2>1, <2>2
    <2>3. CASE r # id /\ q # id
        <3>1. /\ releases[r].status \in Serving /\ releases[q].status \in Serving
              /\ releases[r].predecessor = releases[q].predecessor /\ releases[r].predecessor # 0
            BY <1>5, <1>12, <2>1, <2>3
        <3>2. QED
            BY <1>5, <3>1 DEF Kept
    <2>4. QED
        BY <2>2, <2>3
<1>13. QED
    BY <1>9, <1>10, <1>11, <1>12 DEF Kept

\* A rollback of the champion.
LEMMA KeptRollback ==
    ASSUME TypeInv, Kept, TypeInv', ~raced, ~raced', NEW s \in Session, CommitRollback(s)
    PROVE  Kept'
<1> DEFINE id == pending[s].id
           back == releases[id].predecessor
<1>1. /\ releases' = [r \in 1..Len(releases) |->
            IF r = id THEN [releases[r] EXCEPT !.status = "rolled_back"]
            ELSE IF r = back THEN [releases[r] EXCEPT !.status = "champion"]
            ELSE releases[r]]
      /\ releases[id].status = "champion"
    BY DEF CommitRollback
<1>2. /\ id \in 1..Len(releases) /\ back \in 0..Len(releases)
      /\ Len(releases) \in Nat
      /\ \A r \in 1..Len(releases) : releases[r] \in Release
    BY LenProperties, ElementOfSeq DEF CommitRollback, TypeInv, TypeOK
<1>3. back # 0 => releases[back].status = "retired"
    BY <1>1, <1>2 DEF Kept, Serving
<1>4. \A r \in 1..Len(releases) : releases[r].status = "champion" => r = id
    BY <1>1, <1>2 DEF Kept
<1>5. releases[id].predecessor = back
    OBVIOUS
<1> HIDE DEF id, back
<1>6. Len(releases') = Len(releases)
    BY <1>1, <1>2, LenProperties DEF TypeInv, TypeOK
<1>7. ASSUME NEW r \in 1..Len(releases)
      PROVE  /\ releases'[r].predecessor = releases[r].predecessor
             /\ r = id => releases'[r].status = "rolled_back"
             /\ r # id /\ r = back => releases'[r].status = "champion"
             /\ r # id /\ r # back => releases'[r].status = releases[r].status
    <2>1. CASE r = id
        BY <1>1, <1>2, <2>1 DEF Release
    <2>2. CASE r # id /\ r = back
        BY <1>1, <1>2, <2>2 DEF Release
    <2>3. CASE r # id /\ r # back
        BY <1>1, <2>3
    <2>4. QED
        BY <2>1, <2>2, <2>3
<1>8. id # back
    BY <1>1, <1>2, <1>3
\* Only the champion that goes named the release that comes back.
<1>9. ASSUME NEW r \in 1..Len(releases), releases'[r].status \in Serving
      PROVE  /\ r # id /\ releases[r].status \in Serving
             /\ releases[r].predecessor # 0 => releases[r].predecessor # back
    <2>1. r # id
        BY <1>7, <1>9 DEF Serving
    <2>2. releases[r].status \in Serving
        BY <1>2, <1>3, <1>7, <1>9, <2>1 DEF Serving
    <2>3. releases[r].predecessor # 0 => releases[r].predecessor # back
        BY <1>1, <1>2, <1>5, <2>1, <2>2 DEF Kept, Serving
    <2>4. QED
        BY <2>1, <2>2, <2>3
<1>10. \A r, q \in 1..Len(releases') :
        releases'[r].status = "champion" /\ releases'[q].status = "champion" => r = q
    BY <1>4, <1>6, <1>7
<1>11. ASSUME NEW r \in 1..Len(releases'), releases'[r].predecessor # 0
       PROVE  /\ releases'[r].status \in Served
              /\ releases'[r].status \in Serving =>
                    releases'[releases'[r].predecessor].status = "retired"
    <2>1. releases[r].predecessor # 0 /\ releases'[r].predecessor = releases[r].predecessor
        BY <1>6, <1>7, <1>11
    <2>2. releases[r].status \in Served
        BY <1>6, <2>1 DEF Kept
    <2>3. releases'[r].status \in Served
        BY <1>6, <1>7, <2>2 DEF Served
    <2>4. ASSUME releases'[r].status \in Serving
          PROVE  releases'[releases[r].predecessor].status = "retired"
        <3>1. /\ releases[r].status \in Serving
              /\ releases[r].predecessor # back
            BY <1>6, <1>9, <2>1, <2>4
        <3>2. releases[releases[r].predecessor].status = "retired"
            BY <1>6, <2>1, <3>1 DEF Kept
        <3>3. releases[r].predecessor \in 1..Len(releases) /\ releases[r].predecessor # id
            BY <1>1, <1>2, <1>6, <2>1, <3>2 DEF TypeInv
        <3>4. QED
            BY <1>7, <3>1, <3>2, <3>3
    <2>5. QED
        BY <2>1, <2>3, <2>4
<1>12. ASSUME NEW r \in 1..Len(releases'), releases'[r].status = "retired"
       PROVE  \E q \in 1..Len(releases') :
                releases'[q].status \in Serving /\ releases'[q].predecessor = r
    <2>1. r # back /\ releases[r].status = "retired"
        BY <1>6, <1>7, <1>8, <1>12
    <2>2. PICK q \in 1..Len(releases) :
            releases[q].status \in Serving /\ releases[q].predecessor = r
        BY <1>6, <2>1 DEF Kept
    <2>3. q # id
        BY <1>5, <2>1, <2>2
    <2>4. releases'[q].status \in Serving /\ releases'[q].predecessor = r
        BY <1>7, <2>2, <2>3 DEF Serving
    <2>5. QED
        BY <1>6, <2>4
<1>13. ASSUME NEW r \in 1..Len(releases'), NEW q \in 1..Len(releases'),
              releases'[r].status \in Serving, releases'[q].status \in Serving,
              releases'[r].predecessor = releases'[q].predecessor, releases'[r].predecessor # 0
       PROVE  r = q
    <2>1. /\ releases[r].status \in Serving /\ releases[q].status \in Serving
          /\ releases[r].predecessor = releases[q].predecessor /\ releases[r].predecessor # 0
        BY <1>6, <1>7, <1>9, <1>13
    <2>2. QED
        BY <1>6, <2>1 DEF Kept
<1>14. QED
    BY <1>10, <1>11, <1>12, <1>13 DEF Kept

LEMMA KeptStep ==
    ASSUME TypeInv, Kept, [Next]_vars
    PROVE  Kept'
<1>0. /\ TypeInv' /\ releases \in Seq(Release) /\ Len(releases) \in Nat
      /\ datasets \in [1..MaxManifests -> Dataset \cup {None}]
      /\ Len(manifests) \in Nat /\ Len(manifests) <= MaxManifests
      /\ MaxManifests \in Nat /\ MaxReleases \in Nat
    BY TypeStep, LenProperties, RegistryBoundAssumption DEF TypeInv, TypeOK
<1>1. CASE UNCHANGED <<releases, raced>>
    <2>1. \A r \in 1..Len(releases) :
            /\ releases'[r].status = releases[r].status
            /\ releases'[r].predecessor = releases[r].predecessor
        BY <1>1
    <2>2. QED
        BY <1>0, <1>1, <2>1, KeptFrame
<1>2. ASSUME NEW r \in 1..Len(releases), ReviewGates(r)
      PROVE  Kept'
    <2> DEFINE row == [releases[r] EXCEPT !.reviewed = TRUE]
    <2>1. releases[r] \in Release
        BY <1>0, ElementOfSeq
    <2>2. /\ row \in Release /\ row.status = releases[r].status
          /\ row.predecessor = releases[r].predecessor
        BY <2>1 DEF Release
    <2>3. releases' = [releases EXCEPT ![r] = row] /\ raced' = raced
        BY <1>2 DEF ReviewGates
    <2> HIDE DEF row
    <2>4. /\ Len(releases') = Len(releases)
          /\ \A p \in 1..Len(releases) : releases'[p] = IF p = r THEN row ELSE releases[p]
        BY <1>0, <2>2, <2>3, ExceptSeq
    <2>5. QED
        BY <1>0, <2>2, <2>3, <2>4, KeptFrame
<1>3. ASSUME NEW m \in 1..Len(manifests), NEW mechanics_only \in BOOLEAN, NEW algorithm,
             TrainModel(m, algorithm, mechanics_only)
      PROVE  Kept'
    <2> DEFINE row == [dataset |-> m, predecessor |-> 0, reviewed |-> FALSE,
                       status |-> TrainedStatus(datasets[m], algorithm, mechanics_only)]
    <2>1. row \in Release /\ row.predecessor = 0 /\ row.status \notin Serving
        BY <1>0 DEF Release, TrainedStatus, Serving
    <2>2. releases' = Append(releases, row) /\ raced' = raced
        BY <1>3 DEF TrainModel
    <2> HIDE DEF row
    <2>3. /\ Len(releases') = Len(releases) + 1
          /\ \A r \in 1..Len(releases) : releases'[r] = releases[r]
          /\ releases'[Len(releases) + 1] = row
        BY <1>0, <2>1, <2>2, AppendProperties
    <2>4. /\ 1..Len(releases) \subseteq 1..Len(releases')
          /\ \A r \in 1..Len(releases') : r \notin 1..Len(releases) => releases'[r] = row
        BY <1>0, <2>3
    <2>5. QED
        BY <1>0, <2>1, <2>2, <2>3, <2>4, KeptFrame
<1>4. ASSUME NEW s \in Session, CommitPromote(s) \/ CommitRollback(s)
      PROVE  Kept'
    <2>1. CASE raced'
        BY <2>1 DEF Kept
    <2>2. CASE ~raced'
        <3>1. ~raced
            BY <1>4, <2>2 DEF CommitPromote, CommitRollback
        <3>2. QED
            BY <1>0, <1>4, <2>2, <3>1, KeptPromote, KeptRollback
    <2>3. QED
        BY <2>1, <2>2
<1>5. QED
    BY <1>1, <1>2, <1>3, <1>4
    DEF Next, vars, outcomes, GenerateReport, ApproveManifest, CreateDataset, BeginPromote,
        BeginRollback, Refuse

\* As long as no promotion or rollback rested on releases that had changed under it, a
\* retired champion can be had back, and what a rollback restores was never rolled back.
THEOREM RetiredReturns == Spec => []RetiredCanReturn
<1> DEFINE Inv == TypeInv /\ Kept
<1>1. Init => Inv
    <2>1. ASSUME Init PROVE Kept
        <3>1. Len(releases) = 0
            BY <2>1 DEF Init
        <3>2. 1..Len(releases) = {}
            BY <3>1
        <3>3. QED
            BY <3>2 DEF Kept
    <2>2. QED
        BY <2>1, TypeInitial
<1>2. Inv /\ [Next]_vars => Inv'
    BY TypeStep, KeptStep
<1>3. Inv => RetiredCanReturn
    <2> SUFFICES ASSUME Inv, ~raced
                 PROVE  /\ \A r \in 1..Len(releases) : releases[r].status = "retired" =>
                            \E q \in 1..Len(releases) :
                                /\ {p \in 1..Len(releases) :
                                        /\ releases[p].predecessor = r
                                        /\ releases[p].status # "rolled_back"} = {q}
                                /\ releases[q].status \in Serving
                        /\ \A r \in Champions : releases[r].predecessor # 0 =>
                            releases[releases[r].predecessor].status = "retired"
        BY DEF RetiredCanReturn, Serving
    <2>1. ASSUME NEW r \in 1..Len(releases), releases[r].status = "retired"
          PROVE  \E q \in 1..Len(releases) :
                    /\ {p \in 1..Len(releases) :
                            /\ releases[p].predecessor = r
                            /\ releases[p].status # "rolled_back"} = {q}
                    /\ releases[q].status \in Serving
        <3>1. PICK q \in 1..Len(releases) :
                releases[q].status \in Serving /\ releases[q].predecessor = r
            BY <2>1 DEF Kept
        <3>2. r # 0
            OBVIOUS
        <3>3. ASSUME NEW p \in 1..Len(releases), releases[p].predecessor = r,
                     releases[p].status # "rolled_back"
              PROVE  p = q
            <4>1. releases[p].status \in Serving
                BY <3>2, <3>3 DEF Kept, Served, Serving
            <4>2. QED
                BY <3>1, <3>2, <3>3, <4>1 DEF Kept
        <3>4. QED
            BY <3>1, <3>3 DEF Serving
    <2>2. ASSUME NEW r \in Champions, releases[r].predecessor # 0
          PROVE  releases[releases[r].predecessor].status = "retired"
        BY <2>2 DEF Champions, Kept, Serving
    <2>3. QED
        BY <2>1, <2>2
<1>4. QED
    BY <1>1, <1>2, <1>3, PTL DEF Spec

----------------------------------------------------------------------------
(* What is held out *)

\* A set of numbers that is not empty has a least one.
LEMMA LeastExists ==
    ASSUME NEW S \in SUBSET Nat, S # {}
    PROVE  \E x \in S : \A y \in S : x <= y
<1>1. PICK x \in S : \A y \in S : ~ (<<y, x>> \in OpToRel(<, Nat))
    BY NatLessThanWellFounded, WFMin
<1>2. \A y \in S : ~ (y < x)
    BY <1>1 DEF OpToRel
<1>3. QED
    BY <1>2

\* The greater and the smaller of two numbers.
LEMMA ExtremesOfPair ==
    ASSUME NEW a \in Int, NEW b \in Int
    PROVE  /\ Max({a, b}) = IF a >= b THEN a ELSE b
           /\ Min({a, b}) = IF a <= b THEN a ELSE b
<1>1. Max({a, b}) = IF a >= b THEN a ELSE b
    <2>1. \E x \in {a, b} : \A y \in {a, b} : x >= y
        OBVIOUS
    <2>2. Max({a, b}) \in {a, b} /\ \A y \in {a, b} : Max({a, b}) >= y
        BY <2>1 DEF Max
    <2>3. QED
        BY <2>2
<1>2. Min({a, b}) = IF a <= b THEN a ELSE b
    <2>1. \E x \in {a, b} : \A y \in {a, b} : x <= y
        OBVIOUS
    <2>2. Min({a, b}) \in {a, b} /\ \A y \in {a, b} : Min({a, b}) <= y
        BY <2>1 DEF Min
    <2>3. QED
        BY <2>2
<1>3. QED
    BY <1>1, <1>2

\* Of three incidents or more, at least one is trained on and at least one is held out.
LEMMA TrainEndBounds ==
    ASSUME NEW n \in Nat, n >= 3
    PROVE  TrainEnd(n) \in 1..(n - 1)
<1>1. (6 * n) \div 10 \in Nat /\ (6 * n) \div 10 < n
    OBVIOUS
<1>2. QED
    BY <1>1, ExtremesOfPair DEF TrainEnd

\* Which split a group is in is decided by how many come before it.
LEMMA SplitIsTrain ==
    ASSUME NEW rows, NEW i, Cardinality(Groups(rows)) \in Nat, Cardinality(Groups(rows)) >= 3,
           Cardinality(Before(rows, i)) \in Nat
    PROVE  SplitOf(rows, i) = "train" <=>
                Cardinality(Before(rows, i)) < TrainEnd(Cardinality(Groups(rows)))
<1> DEFINE n == Cardinality(Groups(rows))
           index == Cardinality(Before(rows, i))
           first == n < 3 \/ index < TrainEnd(n)
           second == n >= 3 /\ index >= TrainEnd(n) /\ index < ValidationEnd(n)
<1>1. SplitOf(rows, i) = CASE first -> "train" [] second -> "validation" [] OTHER -> "test"
    BY DEF SplitOf
<1>2. TrainEnd(n) \in Int
    BY TrainEndBounds
<1>3. (first <=> index < TrainEnd(n)) /\ (second => ~first)
    BY <1>2
<1> HIDE DEF first, second
<1>4. SplitOf(rows, i) = "train" <=> first
    BY <1>1, <1>3
<1>5. QED
    BY <1>3, <1>4

\* Rows as a manifest gives them: finitely many incidents, and one prediction of each,
\* because only its latest score is in the report.
OnePrediction(rows) == \A r, q \in rows : r.incident = q.incident => r.prediction_at = q.prediction_at

LEMMA ReportedOnce ==
    ASSUME NEW h \in Recorded, NEW as_of
    PROVE  OnePrediction(Rows(Manifest(h, as_of)))
<1> DEFINE F == Manifest(h, as_of)
<1>1. SUFFICES ASSUME NEW r \in Rows(F), NEW q \in Rows(F), r.incident = q.incident
               PROVE  r.prediction_at = q.prediction_at
    BY DEF OnePrediction
<1>2. F.scores = ReportedScores(h, as_of) /\ F.labels = ReportedLabels(h, as_of)
    BY DEF Manifest
<1> HIDE DEF F
<1>3. PICK l \in F.labels :
            /\ [incident |-> l.incident, at |-> l.of] \in F.scores
            /\ r.incident = l.incident /\ r.prediction_at = l.of
    BY DEF Rows
<1>4. PICK k \in F.labels :
            /\ [incident |-> k.incident, at |-> k.of] \in F.scores
            /\ q.incident = k.incident /\ q.prediction_at = k.of
    BY DEF Rows
<1>5. l \in Label /\ k \in Label
    BY <1>2 DEF ReportedLabels, Recorded
<1>6. l.of \in Nat /\ k.of \in Nat
    BY <1>5, IncidentAssumption DEF Label, Time
<1>7. PICK a, b \in F.scores : a = [incident |-> l.incident, at |-> l.of]
                                /\ b = [incident |-> k.incident, at |-> k.of]
    BY <1>3, <1>4
<1>8. a.incident = b.incident /\ a.at = l.of /\ b.at = k.of
    BY <1>1, <1>3, <1>4, <1>7
<1>9. a.at <= b.at /\ b.at <= a.at
    BY <1>2, <1>7, <1>8 DEF ReportedScores
<1>10. QED
    BY <1>3, <1>4, <1>6, <1>8, <1>9

\* The latest prediction of a group is the one of any of its rows.
LEMMA PredictedOnce ==
    ASSUME NEW rows \in SUBSET Row, OnePrediction(rows), NEW r \in rows
    PROVE  PredictedAt(rows, r.incident) = r.prediction_at /\ r.prediction_at \in Nat
<1>1. {q.prediction_at : q \in {p \in rows : p.incident = r.incident}} = {r.prediction_at}
    BY DEF OnePrediction
<1>2. r.prediction_at \in Nat
    BY IncidentAssumption DEF Row, Time
<1>3. \E x \in {r.prediction_at} : \A y \in {r.prediction_at} : x >= y
    BY <1>2
<1>4. Max({r.prediction_at}) = r.prediction_at
    BY <1>3 DEF Max
<1>5. QED
    BY <1>1, <1>2, <1>4 DEF PredictedAt

\* The labels on record are finitely many, and so are their incidents.
LEMMA GroupsFinite ==
    ASSUME NEW h \in History, NEW as_of
    PROVE  IsFiniteSet(Groups(Rows(Manifest(h, as_of))))
<1> DEFINE F == Manifest(h, as_of)
           L == {l \in F.labels :
                    /\ l.value # "uncertain"
                    /\ [incident |-> l.incident, at |-> l.of] \in F.scores}
           f == [l \in L |-> l.incident]
<1>1. F.labels \subseteq h.labels
    BY DEF Manifest, ReportedLabels
<1>2. IsFiniteSet(L)
    <2>1. IsFiniteSet(h.labels) /\ L \in SUBSET h.labels
        BY <1>1, HistoryAssumption
    <2> HIDE DEF L
    <2>2. QED
        BY <2>1, FS_Subset
<1> HIDE DEF F
<1>3. Groups(Rows(F)) = {l.incident : l \in L}
    <2> DEFINE RowOf(l) == [incident |-> l.incident, prediction_at |-> l.of,
                            label_at |-> l.at, target |-> l.value = "relevant"]
    <2>1. Rows(F) = {RowOf(l) : l \in L}
        BY DEF Rows
    <2>2. \A l : RowOf(l).incident = l.incident
        OBVIOUS
    <2> HIDE DEF RowOf, L
    <2>3. Groups(Rows(F)) = {row.incident : row \in {RowOf(l) : l \in L}}
        BY <2>1, Zenon DEF Groups
    <2>4. QED
        BY <2>2, <2>3
<1>4. f \in Surjection(L, Groups(Rows(F)))
    BY <1>3 DEF Surjection
<1> HIDE DEF L, f
<1>5. QED
    BY <1>2, <1>4, FS_Surjection DEF F

\* Groups stand in one order: by their prediction, then by their ids.
LEMMA OrderOfGroups ==
    ASSUME NEW rows \in SUBSET Row, OnePrediction(rows), NEW i \in Groups(rows)
    PROVE  /\ i \in Nat /\ PredictedAt(rows, i) \in Nat
           /\ i \notin Before(rows, i)
           /\ \A j \in Groups(rows) \ {i} :
                \/ i \in Before(rows, j) /\ Before(rows, i) \subseteq Before(rows, j)
                \/ j \in Before(rows, i) /\ Before(rows, j) \subseteq Before(rows, i)
<1>1. \A j \in Groups(rows) : j \in Nat /\ PredictedAt(rows, j) \in Nat
    <2>1. ASSUME NEW r \in rows PROVE r.incident \in Nat /\ PredictedAt(rows, r.incident) \in Nat
        BY PredictedOnce, IncidentAssumption DEF Row
    <2>2. QED
        BY <2>1 DEF Groups
<1>2. \A j, k \in Groups(rows) : j \in Before(rows, k) <=>
            \/ PredictedAt(rows, j) < PredictedAt(rows, k)
            \/ PredictedAt(rows, j) = PredictedAt(rows, k) /\ j < k
    BY DEF Before
<1>3. \A k : Before(rows, k) \subseteq Groups(rows)
    BY DEF Before
<1>4. i \notin Before(rows, i)
    BY <1>1, <1>2
<1>5. ASSUME NEW j \in Groups(rows), NEW k \in Groups(rows), j \in Before(rows, k)
      PROVE  Before(rows, j) \subseteq Before(rows, k)
    <2>1. ASSUME NEW x \in Before(rows, j) PROVE x \in Before(rows, k)
        <3>1. x \in Groups(rows)
            BY <1>3
        <3>2. QED
            BY <1>1, <1>2, <1>5, <2>1, <3>1
    <2>2. QED
        BY <2>1
<1>6. ASSUME NEW j \in Groups(rows) \ {i} PROVE i \in Before(rows, j) \/ j \in Before(rows, i)
    BY <1>1, <1>2
<1>7. QED
    BY <1>1, <1>4, <1>5, <1>6

\* The group that comes first is trained on.
LEMMA SomeTrained ==
    ASSUME NEW rows \in SUBSET Row, OnePrediction(rows), IsFiniteSet(Groups(rows)),
           Cardinality(Groups(rows)) >= 3
    PROVE  Trains(rows) # {}
<1>0. Cardinality(Groups(rows)) \in Nat /\ Groups(rows) # {}
    BY FS_CardinalityType, FS_EmptySet
<1>1. \A j \in Groups(rows) : j \in Nat /\ PredictedAt(rows, j) \in Nat
    BY OrderOfGroups
<1> DEFINE Ages == {PredictedAt(rows, j) : j \in Groups(rows)}
<1>2. PICK age \in Ages : \A other \in Ages : age <= other
    <2>1. Ages \in SUBSET Nat /\ Ages # {}
        BY <1>0, <1>1
    <2> HIDE DEF Ages
    <2>2. QED
        BY <2>1, LeastExists
<1> DEFINE Oldest == {j \in Groups(rows) : PredictedAt(rows, j) = age}
<1>3. PICK i \in Oldest : \A j \in Oldest : i <= j
    <2>1. Oldest \in SUBSET Nat /\ Oldest # {}
        BY <1>1, <1>2
    <2> HIDE DEF Oldest
    <2>2. QED
        BY <2>1, LeastExists
<1>4. \A j \in Groups(rows) : age <= PredictedAt(rows, j)
    BY <1>2
<1>5. Before(rows, i) = {}
    BY <1>1, <1>3, <1>4 DEF Before
<1>6. SplitOf(rows, i) = "train"
    BY <1>0, <1>5, SplitIsTrain, TrainEndBounds, FS_EmptySet
<1>7. PICK r \in rows : r.incident = i
    BY <1>3 DEF Groups
<1>8. QED
    BY <1>6, <1>7 DEF Trains

\* Not all groups come early enough to be trained on: no two of them have equally many
\* before them.
LEMMA SomeHeldOut ==
    ASSUME NEW rows \in SUBSET Row, OnePrediction(rows), IsFiniteSet(Groups(rows)),
           Cardinality(Groups(rows)) >= 3
    PROVE  Trains(rows) # rows
<1> DEFINE n == Cardinality(Groups(rows))
<1>0. n \in Nat /\ TrainEnd(n) \in 1..(n - 1)
    BY FS_CardinalityType, TrainEndBounds
<1>1. ASSUME NEW i \in Groups(rows)
      PROVE  IsFiniteSet(Before(rows, i)) /\ Cardinality(Before(rows, i)) \in Nat
    <2>1. Before(rows, i) \in SUBSET Groups(rows)
        BY DEF Before
    <2>2. QED
        BY <2>1, FS_Subset, FS_CardinalityType
<1>2. SUFFICES ASSUME Trains(rows) = rows PROVE FALSE
    OBVIOUS
<1>3. ASSUME NEW i \in Groups(rows) PROVE Cardinality(Before(rows, i)) \in 0..(TrainEnd(n) - 1)
    <2>1. PICK r \in rows : r.incident = i
        BY DEF Groups
    <2>2. SplitOf(rows, i) = "train"
        BY <1>2, <2>1 DEF Trains
    <2>3. QED
        BY <1>0, <1>1, <2>2, SplitIsTrain
<1> DEFINE T == 0..(TrainEnd(n) - 1)
           index == [i \in Groups(rows) |-> Cardinality(Before(rows, i))]
<1>4. index \in [Groups(rows) -> T]
    BY <1>3
<1>5. IsFiniteSet(T) /\ Cardinality(T) = TrainEnd(n) /\ Cardinality(T) < n
    <2>1. PICK e \in 1..(n - 1) : e = TrainEnd(n)
        BY <1>0
    <2>2. IsFiniteSet(0..(e - 1)) /\ Cardinality(0..(e - 1)) = e
        <3>1. e - 1 \in Int /\ ~(0 > e - 1) /\ (e - 1) - 0 + 1 = e
            BY <1>0
        <3>2. QED
            BY <3>1, FS_Interval
    <2>3. QED
        BY <1>0, <2>1, <2>2
<1>6. \E i, j \in Groups(rows) : i # j /\ index[i] = index[j]
    <2> HIDE DEF index, T
    <2>1. QED
        BY <1>4, <1>5, FS_PigeonHole
<1>7. PICK i \in Groups(rows), j \in Groups(rows) :
            i # j /\ Cardinality(Before(rows, i)) = Cardinality(Before(rows, j))
    BY <1>6
<1>8. ASSUME NEW a \in Groups(rows), NEW b \in Groups(rows), a \in Before(rows, b),
             Before(rows, a) \subseteq Before(rows, b), a \notin Before(rows, a),
             Cardinality(Before(rows, a)) = Cardinality(Before(rows, b))
      PROVE  FALSE
    <2>1. IsFiniteSet(Before(rows, b)) /\ Before(rows, a) \in SUBSET Before(rows, b)
        BY <1>1, <1>8
    <2>2. Before(rows, b) = Before(rows, a)
        BY <1>8, <2>1, FS_Subset
    <2>3. QED
        BY <1>8, <2>2
<1>9. QED
    BY <1>7, <1>8, OrderOfGroups

\* What the checks of a dataset say of its groups holds of its rows.
LEMMA SoundRowsLookBack ==
    ASSUME NEW rows \in SUBSET Row, OnePrediction(rows), IsFiniteSet(Groups(rows)), Sound(rows)
    PROVE  /\ Trains(rows) # {} /\ Trains(rows) # rows
           /\ \A row \in Trains(rows), other \in rows \ Trains(rows) :
                row.prediction_at < other.prediction_at /\ row.incident # other.incident
           /\ \A row \in rows : row.prediction_at < row.label_at
<1>1. /\ Cardinality(Groups(rows)) >= 3
      /\ \A i, j \in Groups(rows) : SplitOf(rows, i) = "train" /\ SplitOf(rows, j) # "train"
            => PredictedAt(rows, i) < PredictedAt(rows, j)
    BY DEF Sound, SplitPassed
<1>2. Trains(rows) # {} /\ Trains(rows) # rows
    BY <1>1, SomeTrained, SomeHeldOut
<1>3. ASSUME NEW row \in Trains(rows), NEW other \in rows \ Trains(rows)
      PROVE  row.prediction_at < other.prediction_at /\ row.incident # other.incident
    <2>1. row \in rows /\ SplitOf(rows, row.incident) = "train"
          /\ SplitOf(rows, other.incident) # "train"
        BY DEF Trains
    <2>2. row.incident \in Groups(rows) /\ other.incident \in Groups(rows)
        BY <2>1 DEF Groups
    <2>3. QED
        BY <1>1, <2>1, <2>2, PredictedOnce
<1>4. ASSUME NEW row \in rows PROVE row.prediction_at < row.label_at
    <2>1. row.label_at > row.prediction_at /\ row.label_at \in Nat /\ row.prediction_at \in Nat
        BY IncidentAssumption DEF Sound, LeakagePassed, Row, Time
    <2>2. QED
        BY <2>1
<1>5. QED
    BY <1>2, <1>3, <1>4

\* A dataset is made of what its manifest froze, a manifest of what was on record.
DatasetsMade ==
    /\ history \in History
    /\ \A m \in 1..Len(manifests) : \E as_of \in Time : manifests[m].frozen = Manifest(history, as_of)
    /\ \A m \in 1..MaxManifests : datasets[m] # None /\ datasets[m].status # "blocked" =>
        /\ datasets[m].rows = Rows(manifests[m].frozen)
        /\ Sound(datasets[m].rows)

\* No request changes what was on record, frozen or made of it.
LEMMA DatasetsMadeStep ==
    ASSUME TypeInv, DatasetsMade, [Next]_vars
    PROVE  DatasetsMade'
<1>0. /\ manifests \in Seq(ManifestRow) /\ Len(manifests) \in Nat
      /\ datasets \in [1..MaxManifests -> Dataset \cup {None}]
      /\ \A m \in 1..MaxManifests : datasets[m] # None => m \in 1..Len(manifests)
      /\ history' = history
    BY LenProperties
    DEF TypeInv, TypeOK, Next, vars, outcomes, GenerateReport, ApproveManifest, CreateDataset,
        TrainModel, ReviewGates, BeginPromote, BeginRollback, CommitPromote, CommitRollback, Refuse
<1>1. ASSUME NEW as_of \in Time, GenerateReport(as_of) PROVE DatasetsMade'
    <2> DEFINE row == [frozen |-> Manifest(history, as_of), real_world_approved |-> FALSE]
    <2>1. row \in ManifestRow
        BY ManifestType DEF ManifestRow, TypeInv, TypeOK, Recorded
    <2>2. manifests' = Append(manifests, row) /\ datasets' = datasets
          /\ row.frozen = Manifest(history, as_of)
        BY <1>1 DEF GenerateReport
    <2> HIDE DEF row
    <2>3. /\ Len(manifests') = Len(manifests) + 1 /\ manifests'[Len(manifests) + 1] = row
          /\ \A m \in 1..Len(manifests) : manifests'[m] = manifests[m]
        BY <1>0, <2>1, <2>2, AppendProperties
    <2>4. \A m \in 1..Len(manifests') : \E t \in Time : manifests'[m].frozen = Manifest(history, t)
        <3>1. \A m \in 1..Len(manifests') : m \in 1..Len(manifests) \/ m = Len(manifests) + 1
            BY <1>0, <2>3
        <3>2. QED
            BY <2>2, <2>3, <3>1 DEF DatasetsMade
    <2>5. QED
        BY <1>0, <2>2, <2>3, <2>4 DEF DatasetsMade
<1>2. ASSUME NEW n \in 1..Len(manifests), ApproveManifest(n) PROVE DatasetsMade'
    <2>1. manifests[n] \in ManifestRow
        BY <1>0, ElementOfSeq
    <2>2. /\ Len(manifests') = Len(manifests) /\ datasets' = datasets
          /\ \A m \in 1..Len(manifests) : manifests'[m].frozen = manifests[m].frozen
        BY <1>0, <1>2, <2>1 DEF ApproveManifest, ManifestRow
    <2>3. QED
        BY <1>0, <2>2 DEF DatasetsMade
<1>3. ASSUME NEW n \in 1..Len(manifests), NEW mechanics_only \in BOOLEAN,
             CreateDataset(n, mechanics_only)
      PROVE  DatasetsMade'
    <2> DEFINE rows == Rows(manifests[n].frozen)
               real == /\ manifests[n].real_world_approved
                       /\ RealSources(manifests[n].frozen.sources)
    <2>1. manifests' = manifests
          /\ datasets' = [datasets EXCEPT ![n] = [rows |-> rows, real_data_eligible |-> real,
                            status |-> DatasetStatus(rows, real, mechanics_only)]]
        BY <1>3 DEF CreateDataset
    <2> HIDE DEF rows, real
    <2>2. DatasetStatus(rows, real, mechanics_only) # "blocked" => Sound(rows)
        BY DEF DatasetStatus
    <2>3. ASSUME NEW m \in 1..MaxManifests, datasets'[m] # None, datasets'[m].status # "blocked"
          PROVE  datasets'[m].rows = Rows(manifests[m].frozen) /\ Sound(datasets'[m].rows)
        <3>1. CASE m = n
            <4>1. datasets'[m].rows = rows
                  /\ datasets'[m].status = DatasetStatus(rows, real, mechanics_only)
                BY <1>0, <2>1, <3>1
            <4>2. QED
                BY <2>2, <2>3, <3>1, <4>1 DEF rows
        <3>2. CASE m # n
            BY <1>0, <2>1, <2>3, <3>2 DEF DatasetsMade
        <3>3. QED
            BY <3>1, <3>2
    <2>4. QED
        BY <1>0, <2>1, <2>3 DEF DatasetsMade
<1>4. CASE UNCHANGED <<manifests, datasets>>
    BY <1>0, <1>4 DEF DatasetsMade
<1>5. QED
    BY <1>1, <1>2, <1>3, <1>4
    DEF Next, vars, outcomes, TrainModel, ReviewGates, BeginPromote, BeginRollback,
        CommitPromote, CommitRollback, Refuse

\* What an incident with a row is attributed at the boundary was frozen.
LEMMA TrainedIsReported ==
    ASSUME NEW h, NEW as_of, NEW row \in Rows(Manifest(h, as_of)), NEW source \in h.sources,
           source.incident = row.incident, Attributed(source, as_of)
    PROVE  source \in ReportedSources(h, as_of)
<1>1. PICK label \in ReportedLabels(h, as_of) : row.incident = label.incident
    <2> DEFINE F == Manifest(h, as_of)
    <2>1. F.labels = ReportedLabels(h, as_of)
        BY DEF Manifest
    <2> HIDE DEF F
    <2>2. row \in Rows(F)
        BY DEF F
    <2>3. PICK l \in F.labels :
                /\ [incident |-> l.incident, at |-> l.of] \in F.scores
                /\ row.incident = l.incident /\ row.prediction_at = l.of
        BY <2>2 DEF Rows
    <2>4. QED
        BY <2>1, <2>3
<1>2. QED
    BY <1>1 DEF ReportedSources

\* However promotions, rollbacks and retries overlap, a release serves only once its gates
\* were passed, and only when everything that was attributed at the boundary to an incident
\* it was trained on was an attested manual snapshot.
THEOREM RealReleasesServe == Spec => []OnlyRealServes
<1> DEFINE Inv == TypeInv /\ Backed /\ DatasetsMade
<1>1. Init => Inv
    <2>1. ASSUME Init PROVE Backed
        <3>1. /\ releases = <<>> /\ datasets = [m \in 1..MaxManifests |-> None]
              /\ pending = [s \in Session |-> None]
            BY <2>1 DEF Init
        <3>2. Len(releases) = 0
            BY <3>1
        <3>3. /\ 1..Len(releases) = {}
              /\ \A m \in 1..MaxManifests : datasets[m] = None
              /\ \A s \in Session : pending[s] = None
            BY <3>1, <3>2
        <3>4. QED
            BY <3>3 DEF Backed
    <2>2. Init => DatasetsMade
        BY DEF Init, DatasetsMade
    <2>3. QED
        BY <2>1, <2>2, TypeInitial
<1>2. Inv /\ [Next]_vars => Inv'
    BY TypeStep, BackedStep, DatasetsMadeStep
<1>3. Inv => OnlyRealServes
    <2> SUFFICES ASSUME Inv, NEW r \in 1..Len(releases)
                 PROVE  LET release == releases[r]
                            dataset == datasets[release.dataset]
                            boundary == manifests[release.dataset].frozen.as_of
                        IN  /\ release.status \in {"challenger", "champion", "retired", "rolled_back"} =>
                                /\ dataset # None /\ dataset.status = "ready"
                                /\ \A row \in dataset.rows, source \in history.sources :
                                    source.incident = row.incident /\ Attributed(source, boundary)
                                        => RealSource(source)
                            /\ release.status \in {"champion", "retired", "rolled_back"}
                                => release.reviewed
        BY DEF OnlyRealServes
    <2> DEFINE m == releases[r].dataset
    <2>1. m \in 1..MaxManifests
        <3>1. releases[r] \in Release
            BY ElementOfSeq DEF TypeInv, TypeOK
        <3>2. QED
            BY <3>1 DEF Release
    <2>2. releases[r].status \in Served \cup {"challenger"} => Real(m, datasets, manifests)
        BY DEF Backed
    <2>3. releases[r].status \in Served => releases[r].reviewed
        BY DEF Backed
    <2> HIDE DEF m
    <2>4. ASSUME Real(m, datasets, manifests)
          PROVE  /\ datasets[m] # None /\ datasets[m].status = "ready"
                 /\ \A row \in datasets[m].rows, source \in history.sources :
                        /\ source.incident = row.incident
                        /\ Attributed(source, manifests[m].frozen.as_of)
                        => RealSource(source)
        <3>1. m \in 1..Len(manifests) /\ datasets[m].rows = Rows(manifests[m].frozen)
            BY <2>1, <2>4 DEF Real, TypeInv, DatasetsMade
        <3>2. PICK as_of \in Time : manifests[m].frozen = Manifest(history, as_of)
            BY <3>1 DEF DatasetsMade
        <3>3. RealSources(ReportedSources(history, as_of)) /\ manifests[m].frozen.as_of = as_of
            BY <2>4, <3>2 DEF Real, Manifest
        <3>4. QED
            BY <2>4, <3>1, <3>2, <3>3, TrainedIsReported DEF Real, RealSources
    <2>5. QED
        BY <2>2, <2>3, <2>4 DEF Served, m
<1>4. QED
    BY <1>1, <1>2, <1>3, PTL DEF Spec

\* A dataset that may be trained on does not look ahead, whatever is on record: both
\* sides have rows, every prediction trained on is earlier than every one held out, no
\* incident is on both sides and every label came after its prediction.
THEOREM DatasetsLookBack == Spec => []HeldOutIsLater
<1>1. Init => TypeInv /\ DatasetsMade
    BY TypeInitial DEF Init, DatasetsMade
<1>2. TypeInv /\ DatasetsMade /\ [Next]_vars => TypeInv' /\ DatasetsMade'
    BY TypeStep, DatasetsMadeStep
<1>3. TypeInv /\ DatasetsMade => HeldOutIsLater
    <2> SUFFICES ASSUME TypeInv, DatasetsMade, NEW m \in 1..Len(manifests),
                        datasets[m] # None, datasets[m].status # "blocked"
                 PROVE  LET rows == datasets[m].rows
                        IN  /\ Trains(rows) # {} /\ Trains(rows) # rows
                            /\ \A row \in Trains(rows), other \in rows \ Trains(rows) :
                                /\ row.prediction_at < other.prediction_at
                                /\ row.incident # other.incident
                            /\ \A row \in rows : row.prediction_at < row.label_at
        BY DEF HeldOutIsLater
    <2>1. m \in 1..MaxManifests
        BY LenProperties, RegistryBoundAssumption DEF TypeInv, TypeOK
    <2>2. PICK as_of \in Time : manifests[m].frozen = Manifest(history, as_of)
        BY DEF DatasetsMade
    <2>3. datasets[m].rows = Rows(Manifest(history, as_of)) /\ Sound(datasets[m].rows)
        BY <2>1, <2>2 DEF DatasetsMade
    <2>4. history \in History /\ history \in Recorded
        BY HistoryAssumption DEF DatasetsMade, Recorded
    <2> DEFINE rows == Rows(Manifest(history, as_of))
    <2>5. rows \in SUBSET Row /\ OnePrediction(rows) /\ IsFiniteSet(Groups(rows)) /\ Sound(rows)
        BY <2>3, <2>4, ManifestType, RowsType, ReportedOnce, GroupsFinite
    <2> HIDE DEF rows
    <2>6. QED
        BY <2>3, <2>5, SoundRowsLookBack DEF rows
<1>4. QED
    BY <1>1, <1>2, <1>3, PTL DEF Spec
=============================================================================
