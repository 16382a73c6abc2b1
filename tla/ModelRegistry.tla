---------------------------- MODULE ModelRegistry ----------------------------
(***************************************************************************)
(* Manifests, training datasets and the registry of model releases         *)
(* (learning/service.py): training, and the promotion and rollback of the  *)
(* champion by administrators.                                             *)
(*                                                                         *)
(* The code itself never marks a manifest as approved real evidence and    *)
(* never passes the review gates of a release; both are written by people  *)
(* outside it, here as external actions.                                   *)
(*                                                                         *)
(* Promotion and rollback read with FOR UPDATE, which SQLite ignores: a    *)
(* request is two steps, and the unique index on the champion is all that  *)
(* it meets.  A request whose idempotency key is taken changes nothing.    *)
(***************************************************************************)
EXTENDS OutcomeManifests, Sequences

CONSTANTS
    Key,            \* idempotency keys of control actions
    Session,        \* control requests that may overlap
    None,           \* nothing there
    MaxManifests,   \* bound: evaluation manifests
    MaxReleases     \* bound: model releases

ASSUME RegistryBoundAssumption == MaxManifests \in Nat /\ MaxReleases \in Nat

VARIABLES
    history,        \* the scores and labels on record
    manifests,      \* evaluation_manifests: what they froze, and whether approved as real
    datasets,       \* manifest -> its training_dataset_snapshots row
    releases,       \* model_releases by creation
    controls,       \* key -> model_control_actions row
    pending,        \* session -> what it read and is about to do
    raced           \* history: a control action rested on releases that had changed since

outcomes == <<history, manifests, datasets>>
vars == <<outcomes, releases, controls, pending, raced>>

Release ==
    [dataset : 1..MaxManifests, predecessor : 0..MaxReleases, reviewed : BOOLEAN,
     status : {"blocked", "inactive", "challenger", "champion", "retired", "rolled_back"}]
Dataset ==
    [rows : SUBSET Row, real_data_eligible : BOOLEAN,
     status : {"ready", "mechanics_ready", "blocked"}]
Request ==
    [op : {"promote"}, key : Key, id : 1..MaxReleases, champion : 0..MaxReleases]
        \cup [op : {"rollback"}, key : Key, id : 1..MaxReleases, predecessor : 0..MaxReleases]

Init ==
    /\ history \in History
    /\ manifests = <<>>
    /\ datasets = [m \in 1..MaxManifests |-> None]
    /\ releases = <<>>
    /\ controls = [k \in Key |-> None]
    /\ pending = [s \in Session |-> None]
    /\ raced = FALSE

----------------------------------------------------------------------------
(* Reports, datasets and training *)

GenerateReport(as_of) ==
    /\ Len(manifests) < MaxManifests
    /\ manifests' = Append(manifests,
        [frozen |-> Manifest(history, as_of), real_world_approved |-> FALSE])
    /\ UNCHANGED <<history, datasets, releases, controls, pending, raced>>

\* People approve the evidence of a manifest.
ApproveManifest(m) ==
    /\ manifests' = [manifests EXCEPT ![m].real_world_approved = TRUE]
    /\ UNCHANGED <<history, datasets, releases, controls, pending, raced>>

\* One dataset for a manifest: a second request gets the first one, whatever it asks.
CreateDataset(m, mechanics_only) ==
    LET rows == Rows(manifests[m].frozen)
        real == /\ manifests[m].real_world_approved
                /\ RealSources(manifests[m].frozen.sources)
    IN  /\ datasets[m] = None
        /\ datasets' = [datasets EXCEPT ![m] =
            [rows |-> rows, real_data_eligible |-> real,
             status |-> DatasetStatus(rows, real, mechanics_only)]]
        /\ UNCHANGED <<history, manifests, releases, controls, pending, raced>>

\* Fault: a status the table's check does not know.
CandidateStatus(dataset, algorithm, mechanics_only) ==
    IF algorithm = "gradient_boosted" THEN "blocked" ELSE "trained"

\* Fault: what was trained for its mechanics is a challenger like any other.
AlwaysChallenger(dataset, algorithm, mechanics_only) ==
    IF algorithm = "gradient_boosted" \/ ~Fits(dataset.rows) THEN "blocked" ELSE "challenger"

\* Gradient boosting is always blocked; so is what may not or can not be fitted.
TrainedStatus(dataset, algorithm, mechanics_only) ==
    IF \/ algorithm = "gradient_boosted"
       \/ ~dataset.real_data_eligible /\ ~mechanics_only
       \/ ~Fits(dataset.rows)
    THEN "blocked"
    ELSE IF mechanics_only THEN "inactive" ELSE "challenger"

TrainModel(m, algorithm, mechanics_only) ==
    /\ datasets[m] # None
    /\ Len(releases) < MaxReleases
    /\ datasets[m].status # "blocked"
    /\ datasets[m].status = "mechanics_ready" => mechanics_only
    /\ releases' = Append(releases,
        [dataset |-> m, predecessor |-> 0, reviewed |-> FALSE,
         status |-> TrainedStatus(datasets[m], algorithm, mechanics_only)])
    /\ UNCHANGED <<outcomes, controls, pending, raced>>

\* People pass the gates that training leaves closed.
ReviewGates(r) ==
    /\ releases[r].status \in {"inactive", "challenger"}
    /\ releases' = [releases EXCEPT ![r].reviewed = TRUE]
    /\ UNCHANGED <<outcomes, controls, pending, raced>>

----------------------------------------------------------------------------
(* promote_model and rollback_model *)

Champions == {r \in 1..Len(releases) : releases[r].status = "champion"}
Champion == IF Champions = {} THEN 0 ELSE CHOOSE r \in Champions : TRUE

GatesPass(r) ==
    releases[r].reviewed /\ datasets[releases[r].dataset].real_data_eligible

Promotable(r) == releases[r].status = "challenger" /\ GatesPass(r)

BeginPromote(s, k, r) ==
    /\ pending[s] = None /\ controls[k] = None
    /\ Promotable(r)
    /\ pending' = [pending EXCEPT ![s] =
        [op |-> "promote", key |-> k, id |-> r, champion |-> Champion]]
    /\ UNCHANGED <<outcomes, releases, controls, raced>>

\* The unique keys: the control action's, and that of the one champion.
Free(request, replaced) == controls[request.key] = None /\ Champions \subseteq replaced

Records(request) ==
    controls' = [controls EXCEPT ![request.key] = [action |-> request.op, id |-> request.id]]

\* Fault: the new champion does not record whom it replaced.
ForgetPredecessor(s) ==
    LET request == pending[s]
        champion == request.champion
    IN  /\ request # None /\ request.op = "promote"
        /\ Free(request, {champion, request.id})
        /\ releases' = [r \in 1..Len(releases) |->
            IF r = request.id THEN [releases[r] EXCEPT !.status = "champion"]
            ELSE IF r = champion THEN [releases[r] EXCEPT !.status = "retired"]
            ELSE releases[r]]
        /\ Records(request)
        /\ pending' = [pending EXCEPT ![s] = None]
        /\ raced' = (raced \/ champion # Champion \/ ~Promotable(request.id))
        /\ UNCHANGED outcomes

\* The champion that was read is retired, whatever it is by now.
CommitPromote(s) ==
    LET request == pending[s]
        champion == request.champion
    IN  /\ request # None /\ request.op = "promote"
        /\ Free(request, {champion, request.id})
        /\ releases' = [r \in 1..Len(releases) |->
            IF r = request.id
            THEN [releases[r] EXCEPT !.status = "champion",
                    !.predecessor = IF champion # 0 THEN champion ELSE @]
            ELSE IF r = champion THEN [releases[r] EXCEPT !.status = "retired"]
            ELSE releases[r]]
        /\ Records(request)
        /\ pending' = [pending EXCEPT ![s] = None]
        /\ raced' = (raced \/ champion # Champion \/ ~Promotable(request.id))
        /\ UNCHANGED outcomes

BeginRollback(s, k, r) ==
    /\ pending[s] = None /\ controls[k] = None
    /\ releases[r].status = "champion"
    /\ pending' = [pending EXCEPT ![s] =
        [op |-> "rollback", key |-> k, id |-> r, predecessor |-> releases[r].predecessor]]
    /\ UNCHANGED <<outcomes, releases, controls, raced>>

\* The predecessor that was read comes back, whatever it is by now.
CommitRollback(s) ==
    LET request == pending[s]
        predecessor == request.predecessor
    IN  /\ request # None /\ request.op = "rollback"
        /\ Free(request, {request.id, predecessor})
        /\ releases' = [r \in 1..Len(releases) |->
            IF r = request.id THEN [releases[r] EXCEPT !.status = "rolled_back"]
            ELSE IF r = predecessor THEN [releases[r] EXCEPT !.status = "champion"]
            ELSE releases[r]]
        /\ Records(request)
        /\ pending' = [pending EXCEPT ![s] = None]
        /\ raced' = \/ raced \/ releases[request.id].status # "champion"
                     \/ releases[request.id].predecessor # predecessor
        /\ UNCHANGED outcomes

\* A unique key fails the request: nothing of it is kept.
Refuse(s) ==
    LET request == pending[s]
    IN  /\ request # None
        /\ \/ request.op = "promote" /\ ~Free(request, {request.champion, request.id})
           \/ request.op = "rollback"
              /\ ~Free(request, {request.id, request.predecessor})
        /\ pending' = [pending EXCEPT ![s] = None]
        /\ UNCHANGED <<outcomes, releases, controls, raced>>

Next ==
    \/ \E as_of \in Time : GenerateReport(as_of)
    \/ \E m \in 1..Len(manifests) :
        \/ ApproveManifest(m)
        \/ \E mechanics_only \in BOOLEAN :
            \/ CreateDataset(m, mechanics_only)
            \/ \E algorithm \in {"logistic_baseline", "gradient_boosted"} :
                TrainModel(m, algorithm, mechanics_only)
    \/ \E r \in 1..Len(releases) : ReviewGates(r)
    \/ \E s \in Session, k \in Key, r \in 1..Len(releases) :
        BeginPromote(s, k, r) \/ BeginRollback(s, k, r)
    \/ \E s \in Session : CommitPromote(s) \/ CommitRollback(s) \/ Refuse(s)

Spec == Init /\ [][Next]_vars

----------------------------------------------------------------------------
(* Properties *)

\* Manifests, datasets, releases and requests have the shape of their tables.
TypeOK ==
    /\ history \in [scores : SUBSET Score, labels : SUBSET Label, sources : SUBSET Source]
    /\ Len(manifests) <= MaxManifests
    /\ datasets \in [1..MaxManifests -> Dataset \cup {None}]
    /\ releases \in Seq(Release) /\ Len(releases) <= MaxReleases
    /\ controls \in [Key -> [action : {"promote", "rollback"}, id : 1..MaxReleases] \cup {None}]
    /\ pending \in [Session -> Request \cup {None}]
    /\ raced \in BOOLEAN

\* A dataset that may be trained on does not look ahead: every prediction trained on is
\* earlier than every prediction held out, row by row and not only by the latest of each
\* incident, no incident is on both sides, and every label came after its prediction.
HeldOutIsLater ==
    \A m \in 1..Len(manifests) :
        datasets[m] # None /\ datasets[m].status # "blocked" =>
            LET rows == datasets[m].rows
            IN  /\ Trains(rows) # {} /\ Trains(rows) # rows
                /\ \A row \in Trains(rows), other \in rows \ Trains(rows) :
                    /\ row.prediction_at < other.prediction_at
                    /\ row.incident # other.incident
                /\ \A row \in rows : row.prediction_at < row.label_at

\* Whatever promotions, rollbacks and retries overlap, a release that serves, served or
\* may be put in service was trained on rows of a ready dataset, had passed its gates once
\* promoted, and at the boundary of its report everything attributed to an incident it was
\* trained on was an attested manual snapshot: nothing trained for its mechanics only comes
\* back as a champion.  A source moved off the incident before the boundary is not asked
\* for (outcomes/service.py:465-473), although the score may rest on it.
OnlyRealServes ==
    \A r \in 1..Len(releases) :
        LET release == releases[r]
            dataset == datasets[release.dataset]
            boundary == manifests[release.dataset].frozen.as_of
        IN  /\ release.status \in {"challenger", "champion", "retired", "rolled_back"} =>
                /\ dataset # None /\ dataset.status = "ready"
                /\ \A row \in dataset.rows, source \in history.sources :
                    source.incident = row.incident /\ Attributed(source, boundary)
                        => RealSource(source)
            /\ release.status \in {"champion", "retired", "rolled_back"} => release.reviewed

\* A retired champion can be had back: exactly one release that is not rolled back names
\* it as its predecessor, so rolling back from the champion reaches it; and what a
\* rollback restores has not been rolled back itself.
RetiredCanReturn ==
    ~raced =>
        /\ \A r \in 1..Len(releases) : releases[r].status = "retired" =>
            \E q \in 1..Len(releases) :
                /\ {p \in 1..Len(releases) :
                        releases[p].predecessor = r /\ releases[p].status # "rolled_back"} = {q}
                /\ releases[q].status \in {"champion", "retired"}
        /\ \A r \in Champions :
            releases[r].predecessor # 0 => releases[releases[r].predecessor].status = "retired"
=============================================================================
