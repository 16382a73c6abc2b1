# Beyond Fire Radar: TLA+ models and proofs

Beyond Fire Radar collects fire-dispatch snapshots of Florida counties, keeps the
bytes, assembles their rows into canonical incidents, matches incidents to
property records, scores them as restoration opportunities, and gives analysts an
audited workflow over the result. It is a FastAPI application over SQLAlchemy,
on SQLite (packaged and local) or PostgreSQL, with background polling workers,
an object store for payloads and a few operator commands.

This directory holds TLA+ modules of its stateful core, TLC configurations that
check them on small instances, and TLAPS proofs of their most important
properties for every instance. Paths below are relative to `apps/api/app/` unless
they start with `scripts/` or `docs/`.

    tlc -workers 2 -config MCAuditChain.cfg MCAuditChain     # one run
    tlapm AuditChain_proofs.tla                              # one set of proofs

## Inventory

| Component | State it keeps | Operations | Talks to | What is hard |
|---|---|---|---|---|
| Dispatch ingestion `providers/ingestion.py` | `import_jobs`, `provider_retrievals`, `raw_snapshots`, raw rows, observations, `provider_health` | `ingest` (by upload or live poll) | object store, audit chain | two unique indexes met in one transaction, a rollback in the middle followed by a second attempt, bytes written outside the transaction |
| Storage and retention `providers/storage.py`, `scripts/retention.py` | payload objects, purge markers, tombstones | `put`, `read`, `delete`; start, delete, finish, fail a purge | ingestion, audit chain | crash between marker, delete and tombstone; objects shared by records |
| Dispatch polling `providers/polling.py`, `scripts/recover_dispatch_processing.py` | `provider_poll_leases`, `provider_health`, `Provider.enabled` | polling cycle, recovery, repair command, disable, seeding at start-up | ingestion, incident ledger, scoring | lease expiry, overlapping cycles, crash between two commits, health row without a lock |
| Incident ledger `incidents/service.py` | `canonical_incidents`, observation links and their history, aliases, merges, splits, processing runs | process a retrieval, merge, split, rescore, change state | linkage, audit chain | assembly against corrections, corrections against each other |
| Audit chain `audit.py` | `audit_events`, `audit_chain_heads`, a file lock | `record_audit`, verify | every component | two locks in two orders, hooks that fire for savepoints |
| Linkage and evidence `incidents/linkage.py`, `evidence.py` | none | choose an incident for an observation | incident ledger | thresholds, ties |
| Opportunity scoring `opportunities/scoring.py` | score runs (one current per incident), releases, overrides, reviews | score, rescore, roll back, override | incidents, property matches, learning | `FOR UPDATE` without effect on SQLite, restoring an older run |
| Alert workflow `workflow/service.py` | alerts, notification jobs, assignments, notes | generate, acknowledge, snooze, suppress, escalate, revoke, dispatch, assign | scoring | stale score runs, savepoints, two open assignments |
| Property data `properties/` | imports, parcels, structures and their versions, match runs, decisions | import, roll back, resolve, decide | storage, audit chain | replay of a rolled-back import, restoring the superseded version |
| Outcomes `outcomes/service.py` | labels, events, evaluation manifests | label, correct, report, replay | incidents, audit chain | savepoints, replay of frozen data |
| Learning `learning/service.py` | datasets, model releases, champion, replays | freeze, train, replay, promote, roll back | outcomes, scoring | which predecessor a rollback restores |
| Adapters, parsing, taxonomy `providers/` | none | fetch, parse, classify text | ingestion | input formats |
| Accounts, sessions, rate limiting | users, sessions, counters | bootstrap, log in, log out, limit | all routes | a counter in two calls; names and emails are unique |

`PROJECT.json` lists the same components with their source files, and under
`hazards` every place in this code that a test would hardly reach, with the
properties that cover it. What each component must get right:

* ingestion: bytes are persisted once and a key stays bound to the bytes it was
  first used for, however callers race; every caller gets a true answer;
* retention: a tombstone means the bytes are gone, no mark means they are there;
* polling: nothing retained is forgotten, assemblies do not miss each other, no cycle
  hangs, and one worker at a time (it is not);
* ledger: every observation is current evidence of exactly one incident, history
  stays, evidence is never hidden behind an incident that was merged away;
* audit: the committed chain verifies at every moment;
* linkage: observations whose identifiers conflict do not end up together;
* lifecycle: a disposition is not undone by the next recomputation (one that is under
  way may overwrite it);
* matching and scoring: only a parcel at the very address counts as matched without a
  reviewer's word, a score that was rolled back stays out;
* workflow: an alert rests on a score that passed every gate, and its notice follows;
* property data and learning: a rollback restores what was current (aliases and building
  rows with exceptions, see below);
* learning: what is held out is later than what is trained on, and only what was
  trained on real evidence and reviewed serves.

## Modules

| Module | What it is |
|---|---|
| `ImportLedger` | abstract: a key is bound to content once, what was accepted stays retained |
| `SnapshotIngestion` | `ingest` statement by statement, retention; implements `ImportLedger` |
| `DispatchPolling` | the cycle of a worker, the repair command, faults and operators |
| `IncidentLinkage` | operators: which incident an observation may join |
| `IncidentLedger` | assembly by those rules, merge and split over links, aliases and merges |
| `IncidentLifecycle` | state, contradictions and review signal of one incident |
| `PropertyImports` | versioned imports of a county, their rollback, the projection of both |
| `PropertyMatching` | operators: candidates, their scores and the outcome of a match run |
| `ScoreLedger` | match runs, decisions and score runs of one incident |
| `AlertWorkflow` | alert, notice and client list of the incident, over all of the above |
| `OutcomeManifests` | operators: what a report freezes, and the dataset made from it |
| `ModelRegistry` | manifests, datasets, model releases and their control actions |
| `AuditChain` | sessions that write and audit under two locks |
| `*_proofs` | theorems and proofs about the module of that name |
| `MC*` | constants for TLC, one or more `.cfg` each |

Where one component runs inside another's transaction they are one state machine:
`AlertWorkflow` EXTENDS `ScoreLedger`, which EXTENDS `IncidentLifecycle` and
`PropertyMatching`, and its steps are theirs and its own; `IncidentLedger` EXTENDS
`IncidentLinkage` and `ModelRegistry` `OutcomeManifests`. Elsewhere components are
composed by contract: `DispatchPolling` uses ingestion and assembly as the commits
`SnapshotIngestion` and `IncidentLedger` show them to be, `SnapshotIngestion` uses
the audit chain as the one lock it is seen as (`head`), `ScoreLedger` sees an import
of `PropertyImports` as what a match finds in its projection, and `IncidentLifecycle`
sees what the ledger links as a set of observations that changes. Transactions are
cut into steps at the statements where another transaction can interfere; what a
running transaction holds follows from where it stands.

### SnapshotIngestion

A request is a call of `ingest` for a fixed provider. `pc` is the statement it is
at: `check` and `reserve` are the first look-up of the key and the insert of the
job, `lookup` the look-up of the snapshot, `store` the put, `insert` the insert of
the snapshot row, `parse` everything up to the commit, `replay` and `reinsert` the
path after the rollback at line 335. An insert into a unique index waits for
another holder of the value (`KeyFree`, `SnapFree`) and then succeeds or is a
violation; `record_audit` needs the chain's head row, which `LockHead` shows taken
before the job is inserted, hence the deadlock `BreakDeadlock` resolves. The circle can
have two transactions or three: the one that holds the head waits for a key, whose
holder needs the head or waits for the snapshot of one that does (`WaitsForHead`).
A circle of three takes three uploads and three keys, more than the run has; that
none is overlooked for any number of uploads is the theorem `UploadsNeverStuck`. A payload
stands for its SHA-256 and objects are addressed by it, as in `storage.py`.
Retention handles one record at a time in three commits. `PastCutoff` is the one
use of time: a record is a day old before it is purged.

A request may be a poll in a worker thread or an upload in another process; the
upload route itself blocks its event loop while it ingests.

### DispatchPolling

One provider. A process is an API process (`POLLING_RUN_LOCK` serialises its
cycles) or a run of the repair command. `ReadLease` and `Claim` are the two halves
of `_acquire_lease`, which decides on what it read; an ORM update writes the
columns that differ from what was read (`Column`), which is how a lost update of
`ProviderHealth` looks. `Save` is the commit of `ingest`, `Close` the second commit
of the cycle, `Fail` that of `_fail`. `StepFails`, `TaskDies` and `Crash` are the
faults, `Restart` runs `seed_providers`. `keeper` is a history variable: who
committed a retrieval.

Assembly is two steps. `process_retrieval` updates the provider's row, waits for
whoever has updated it (`StartAssembly`, `RowFree`), and only then looks for a run of
the retrieval, for links and for incidents (`seen`); the caller's commit or rollback
gives the row back (`FinishAssembly`, `LetGo`). A worker's cycle, its recovery, the
repair command and the route of the incidents API all go through it; `Disable` and
`Restart` write the same row.

### IncidentLinkage and IncidentLedger

`IncidentLinkage` is `incidents/linkage.py`: the identifiers that agree, differ or are
reused, the deterministic reasons, the guards asked of a whole cluster
(`ClusterIsConsistent`) and the ones asked of its best pair only
(`DifferentReliableIds`). How alike two addresses are and the weighted sum of the
features are given. `MatchScores` and `MayNotMatch` are sets and conditions over the
best pairs, because which of equally good ones comes first depends on the order of
the rows. A possible match is none: the observation gets an incident of its own.

In `IncidentLedger` the provider row serialises assemblies, nothing serialises
corrections: each is a step that reads and a step that writes. `links` are the current
rows, `ended` those that are no longer, `alias` the source-record identities, `into`
the merges. An assembly follows the alias of its source record, through merges, and
otherwise takes the best incident linkage lets it match. `raced` is a history variable
that becomes true when a commit rests on reads that were out of date; properties that
hold only until then say so.

### IncidentLifecycle

One incident. A `Situation` stands for its linked observations: the families they
have, the parser's confidence, a reused identifier, the modes they were acquired in.
`Recomputed` is `recompute_incident` with `_classification` and `_state_for` in it,
`ALLOWED_TRANSITIONS` the operators' table. No request locks the incident's row, so
a recomputation (by assembly, merge, split or rescore), a transition and the merge that
absorbs the incident are a step that reads and one that commits what it made of that
(`Begin...`, `Commit...`). The commit writes the columns that differ from what was read
and leaves the others as they are by then (`Written`); links that others moved in
between add to those it moved itself (`LinksAfter`). An absorbed incident can still be
rescored, from nothing.

### PropertyImports

A payload gives each parcel an address and the key of its building, or nothing. `imports`
are the rows with their predecessor and the `line` of predecessors that `rollback` walks;
the projection is edited in place by imports (`ImportedParcel`, `ImportedAliases`,
`ImportedBuildings`) and rebuilt from the line by a rollback (`RestoredParcel`,
`RestoredAliases`, `RestoredBuildings`). An alias is found by parcel and address and left
as it is, a building by parcel and key (`master_parcel_id`, or "primary") and retargeted;
so an incremental import that changes the key leaves the earlier row beside the new one.
A rollback deletes last what the rolled-back import owns by then. `source_alternate`
aliases follow the same rule as `source_situs` ones and stand for nothing of their own. Both are a step that reads
the current import and a step that commits; the unique indexes on the current import
and on the content are the guards of the second (`ImportFits`, `RollbackFits`), and
`Refuse` is the failure of a request they stop.

### PropertyMatching and ScoreLedger

`PropertyMatching` is `properties/resolution.py`: which parcels are found by which
search, the narrowing to those that match the core of the address, the renormalized
weighted mean as an exact ratio (`Points` over `Weights`), threshold, margin,
ambiguity and site matches. A parcel is how it compares with the incident, component
by component.

`ScoreLedger` keeps the match runs, the latest decision on them and the score runs of
one incident. What a score needs of a parcel are its `Facts`: whether it is at the very
address, has a source row and a published segment. A decision names a candidate of its
run, any of them, and counts for that run only (`Decided`); a score rests on the confirmed
candidate, or else on the first (`ParcelOf`), which each score run records. `Components`, `Blocked`, `Sufficient` and `AlertEligible` are the gates
of a score; whether the weighted geometric mean reaches 80 points is given
(`EightyPoints`). Scoring and rollback are two steps each, since `FOR UPDATE` does
nothing on SQLite and the lock of the process ends before the commit; `Refresh` and
`DeactivateNonFire` are the two outcomes of `ensure_fire_score_runs` for one incident.
`scoreRaced` tells that a scoring or a rollback rested on a current run it had read
too early.

### AlertWorkflow

The alert of the incident, its notification job and the do-not-contact list.
`Suppressing` and `Verdict` are the reasons of `_eligibility`, in their order.
Generation, changes and dispatch are two steps each, and commit only the columns they
gave another value than the one they read. Acknowledged, snoozed and escalated alerts
are one status (`handled`), resolved and revoked ones another (`ended`): the code
treats them alike. `alertRaced` tells that a request committed on an alert or a job
that had changed since.

### OutcomeManifests and ModelRegistry

A history is what is on record of some incidents; a source has the time its link was
ended. `ReportedSources` takes what the incidents are attributed at the boundary
(`Attributed`), not what their scores rested on. `Manifest` is what a report freezes
at its boundary, `Rows`, `SplitOf` and `LeakagePassed` the dataset made from it,
`DatasetStatus` and `TrainedStatus` what may be done with it. In `ModelRegistry`,
promotion and rollback are two steps that meet the unique keys of the champion and of
the idempotency key, and act on the release and the predecessor they read. `ApproveManifest` and `ReviewGates` are external: no code of the
repository sets the approval of a manifest or the gates of a release, people do.

### AuditChain

SQLite, the packaged database. `flock` is the file lock of `_acquire_sqlite_audit_lock`,
`dblock` SQLite's write lock, `draft` and `tip` what its holder has written and not
committed. A select outside the write lock reads the last commit; the driver opens
a transaction at the first write only. `EndSavepoint` is the end of a
`begin_nested` block, for which the session hooks fire too. On PostgreSQL the row
lock of the chain head plays the file lock's part and is held to the end of the
transaction: that is `Nested = {}`.

## Runs

| Run | Checks, besides `TypeOK` | Instance | Shows |
|---|---|---|---|
| `ingestion` | `OneRetrievalPerSnapshot`, `JobsResolve`, `AnswersMatchKey`, `PayloadPresent`, `TombstoneMeansGone`, `EveryUploadEnds`, `ImplementsLedger` | 2 requests, 2 keys, 2 payloads, 1 mode, 1 death | every race of two uploads on keys and bytes, with retention |
| `ingestion_modes` | `PayloadPresent` is violated | 2 modes, 1 payload | two records share one object |
| `polling` | `WorkerBacklog`, `AssemblyIsSerial`, `CircuitSelfHeals`, `KeptIsAssembled`, `EveryCycleEnds` | 1 worker, 1 repair run, 2 pages, 1 upload, 1 fault | overlapping cycles, assemblies that queue for the provider's row, lost updates, crash, recovery and progress |
| `polling_overlap` | `NoOverlap` is violated | 2 workers, 2 pages, 1 upload, 1 fault | the lease is not mutual exclusion |
| `ledger` | `OneCurrentLink`, `VisibleEvidence`, `NoHollowIncident`, `MergesEnd`, `KeptApart`, `EvidenceKept`, `AllAssembled` | 3 observations of 2 records, one event id used again, 2 editors, 4 incidents | assembly by the rules of linkage and two overlapping corrections |
| `ledger_circle` | `MergesReachActive` is violated | same | opposite merges absorb each other |
| `ledger_return` | `BelongingSuffices` is violated | same | split, merge back, split fails |
| `property` | `ProjectionIsLineage`, `RolledBackLeavesNothing`, `IndexStopsRaces` | 2 parcels, 2 addresses, 2 building keys, 6 payloads, 3 imports, 2 overlapping requests | full and incremental imports and rollbacks in any order |
| `opportunity` | `RolledBackStaysOut`, `NoticeFollowsAlert`, `AlertsRestOnGates`, `RefreshSettles`, `EndedAlertsStay`, `DispositionHolds` | 4 situations, 2 imports with 2 kinds of pool, 2 matches, 2 scores, 3 events, 2 sessions | one incident from evidence to alert, with requests that commit over each other |
| `learning` | `HeldOutIsLater`, `OnlyRealServes`, `RetiredCanReturn` | 4 incidents, a polled source that stays or moves away, 1 report, 3 releases, 4 keys, 2 overlapping administrators | datasets without look-ahead, a registry whose rollbacks restore |
| `audit` | `ChainIntact`, `SessionsEnd` | 2 sessions, one with savepoints, 5 events | the chain always verifies, the locks come free |
| `audit_savepoint` | `NoDuplicateSequence` is violated | same | a savepoint gives the lock away |

Bounds. Two actors are enough for every race here, because each lock, index and
row has one holder and interference is pairwise; the proofs drop the bound for the
properties listed below. Two keys and two payloads give same key/other bytes, same
bytes/other key and unrelated uploads. Three observations let an incident be split
and still leave two links to merge; four incidents let a split be undone and
redone. Five events allow two transactions with two audit events each and one that
fails. Three imports give an import on top of one that is on top of a rolled-back
one; two parcels, one that an import names and one it leaves out, and payloads that
change the address of the first or the key of its building. The situations are
a fire, the same disputed, one partly polled, and an alarm; the pools a flat with the
parcel of its site, which a reviewer may confirm in its place, and a near miss of the
address in which everything else agrees. `EightyPoints` lets every score reach 80 points,
so that nothing but the gates keeps one out. Two usable pages and a usable upload are what
`polling` needs for a backlog and for assemblies that meet; a third page whose parse yields
nothing, for the other branches of `Save`, `BeginProcessing` and `Close`, is more than it
can hold, and is covered by the theorems only. Two scores let a rollback have a
predecessor; `MaxEvents` counts what comes from outside (evidence, imports, decisions, operators) and the overlaps of requests,
while services that do not overlap run freely. Three releases and four keys let two
promotions and two rollbacks follow each other. The named bounds are `MaxAborts`,
`MaxFaults`, `MaxIncidents`, `MaxEvents` (audit events; events around an alert),
`MaxImports`, `MaxMatches`, `MaxScores`, `MaxManifests`, `MaxReleases`, `MaxTime`, and
the sets `Situation`, `Pools`, `Disposition` and `History` of inputs.

Symmetry is used in `property`, `opportunity` and `learning`, which check no liveness,
over sessions and, in `learning`, over the keys, which nothing distinguishes.

`ledger`, `property`, `opportunity` and `learning` turn the deadlock check off: with
every observation assembled or every bounded id used up there may be nothing left to
do. Elsewhere a deadlock is an error.

Fairness. A running request, session or cycle keeps executing. It is strong
fairness where a step waits for a database row or lock, because the database queues
waiters (or times them out, which ends the wait as well), and weak elsewhere. In
`DispatchPolling` the worker's loop starts cycles, a cycle waits for the provider's row
while others assemble (strong fairness of `Continue`), an operator's request ends and
leases expire. Nobody has to submit, audit, merge, restart, repair or disable anything, and faults never have to
happen. The busy timeout of 30 seconds is what lets `SessionsEnd` hold: without it
a session that holds the write lock and waits for the file lock would block one
that holds the file lock and waits to write. `PropertyImports`, `AlertWorkflow` and
`ModelRegistry` state no fairness: everything in them is asked for by people, and a
request that is not stopped ends with its second step.

## What the checks found

Five places where the code does something else than the repository says; each is a
run that expects the violation, and an entry under `findings`:

1. retention of a live record deletes the bytes of a manual record of the same
   content (`ingestion_modes`);
2. the lease admits two workers (`polling_overlap`); `AssemblyIsSerial` and
   `WorkerBacklog` show that the consequences are contained;
3. two merges in opposite directions make a circle, in which assembly then walks
   for ever (`ledger_circle`);
4. an observation that returned to an incident can not leave it again
   (`ledger_return`);
5. savepoints release the audit lock (`audit_savepoint`); `ChainIntact` shows that
   the unique index on the sequence keeps the chain itself sound, at the price of a
   failed request.

Behaviours that modelling brought out and that the modules keep as they are:

* `BLOCKED_INCIDENT_STATES` of `workflow/service.py` is spelled in another case than
  the states and matches none of them, so the state of an incident suppresses no
  alert, although `docs/execution/phase-07-notifications-workflow.md` lists a check of it;
* a brush fire is a family that is scored, but "brush" is also a negative term, so its
  score is always suppressed;
* an alert that was suppressed and whose score run is then superseded can never be
  opened again: only active alerts move to a new score run;
* a transition that an operator makes while a recomputation of the incident is under way
  is overwritten by it, a suppression too, and two overlapping transitions can lead from a
  state to one that `ALLOWED_TRANSITIONS` forbids, although
  `docs/execution/phase-03-incident-intelligence.md` says invalid ones are rejected:
  each is checked against the state it read. `DispositionHolds` says that nothing else
  undoes a disposition;
* a reviewer may confirm a candidate that is not at the incident's address; a score and an
  alert then rest on it (the alternative in `AlertsRestOnGates`);
* "Rebuild an exact projection" (`properties/service.py:545`) is not quite what a rollback
  does: an alias of the restored lineage is lost when the import taken back has one of the
  same address, and a building row that both retargeted is filed under the latest import
  of the line, older rows of other keys staying or going with the import that owns them
  (`ProjectionIsLineage` says exactly what is there);
* a report freezes only sources whose link is open at its boundary, so a score made on a
  polled observation that was moved to another incident before can be trained on as real
  (`OnlyRealServes` speaks of what is attributed at the boundary);
* a dispatch that overlaps the opening of a suppressed alert can leave it without a notice,
  which is why `NoticeFollowsAlert` is limited by `alertRaced`;
* where the newest match run is of an import that is no longer live, every refresh
  scores the incident again (the exception in `RefreshSettles`);
* a rollback of the only import leaves no current row, and then no unique index stops
  a request that had read it (`IndexStopsRaces`);
* an alias that a later import finds in place stays filed under the earlier import.

Where a property is limited by a history variable (`raced`, `scoreRaced`, `alertRaced`),
the commits on stale reads that it leaves out do happen in the model and do break it:
the code has no lock there. Such a property covers the sequences of actions that do not
overlap, and every overlap that a constraint stops. `hazards` says of each which half is
covered.

## Proofs

All proofs hold for every value of the constants under the named assumptions of the
modules (null values are not members of the sets, bounds are natural numbers, pools
and the labels of a history are finite, pools with one row per id). Every component's
`TypeOK` is proved (`TypeCorrect`, `TypeSafety`).

* `SnapshotIngestion_proofs`: `IInv` says that jobs point at snapshots that exist,
  that a snapshot has one retrieval exactly when it exists, that two requests never
  hold one key or one snapshot, and that what a request has looked up is still true
  where the code relies on it. From it: `SnapshotsPersistedOnce`,
  `JobsAlwaysResolve`, `AnswersAreTruthful`, and `IngestionImplementsLedger` (the
  commit of an import or of a replay under a fresh key is `Accept`, everything else
  stutters). `BytesFollowRows` and `TombstonesAreTrue` need `OneMode`: with two modes
  the first finding is a counterexample, and `OnlyMarksLoseBytes`, for any modes, says that
  it is the only one: a record without its bytes shares them with one that was marked,
  and marks stay (`MarksStay`). `UploadsNeverStuck`: `Granted` are the guards of
  ingest's statements, `Caught` that of the deadlock detector; with the head free, the
  uploads that wait stand before the one they wait for, and with the head held
  (`HeadHeld`) the chain of waits from its holder either ends at one that is granted
  or comes back to the head within three.
* `DispatchPolling_proofs`: `IInv` bounds a worker's pending pages by where it stands
  (none once its recovery is done, as long as its own are concerned), which gives
  `BacklogIsBounded`, and says that at most one assembler holds the provider's row, is
  where its transaction can be open, and has seen what is assembled, which gives
  `AssembliesAreSerial`. No lease is needed for either.
  `CircuitHeals` needs types only: a writer that lost no update computes count and
  circuit from one row.
* `IncidentLedger_proofs`: that links are a function of the observation is inductive
  only with the shape of pending corrections and assemblies (`IInv`): a correction
  moves what is linked to its source or already in place, an assembly holds an
  unlinked observation. From it `EvidenceAssignedOnce`, `EvidenceIsKept` and, with
  `raced` false, `LedgerConsistentUnraced` and `NoIncidentEmptied`. The rules of
  linkage play no part: these hold whatever incident an observation prefers.
  `MergeInv` says that unraced no set of absorbed incidents is closed under `into`
  (`ChainsLead`), that an alias names an incident that is active or absorbed, and that
  the id of a pending split is nobody else's. `Walk`, the loop over the merges, is a
  recursive function, so its values are argued by a least counterexample, and
  `WalkEnds` counts: the incidents on a walk that has not ended after as many steps as
  there are ids would be such a closed set. Hence `MergesLeadToActive` and
  `AssemblyFindsAnIncident`. `ApartInv` says that without corrections an alias leads to
  where its record is and that a pending assembly follows an alias or found nothing
  incompatible, which linkage guarantees (`IncompatibleKeptApart`). `KeptApart` speaks
  of pairs that are incompatible in both directions: linkage asks the arriving
  observation about the ones that are there, and a reused identifier is not a symmetric
  condition. Its one exception, a capture that follows its record's alias, is what
  `_existing_source_record_incident` does before linkage is asked.
* `PropertyImports_proofs`: `TypeInv` adds to the types that lines lead back, to rows
  that are there. `Rooted` says that nobody builds on a failed import, and that there is no
  current import beside rows that did not fail only after one without a predecessor was rolled
  back, from which `IndexStops` follows. `Projected` says that parcels match the current
  line, and that the building row of each active one is there and every alias and building
  row stands in the line; an import extends the line by its own row (`SourceOfLast`), a
  rollback goes back to a line that later rows do not touch (`SourceFrame`), and what
  survives it belongs to imports of the line. `ProjectionReplays` and `RollbackIsClean`
  follow for any strings of imports and rollbacks that did not race.
* `PropertyMatching_proofs`: whatever of the other components is unknown, an address
  that is not the same keeps its 28 points in the denominator, so
  `ThresholdNeedsTheAddress`; a finite pool has a best candidate, hence `MatchedIsExact`.
* `AlertWorkflow_proofs`: `TypeInv` says that references between rows and from pending
  requests resolve. `TransitionsAllowed` (a pending transition was allowed from the
  state it read) gives `SettledIncidentsStay`, commit by commit: a state that a request did
  not change keeps its value, and one it changed it made of the row it read; `ChangesRead` (a pending change was allowed on what it read)
  `EndedAlertsStayEnded`; `Noticed` (unraced, an alert has a job, and an active one a
  job that is pending or delivered) `AlertsHaveNotices`; `Chain` (the current run is not rolled back and the
  runs that stand do not share a predecessor) `RollbacksHold`; `Grounds` follows a
  gate and the parcel from the match and the decision through the score and the pending
  generation to the alert, for `GatesHold`, which rests on `MatchedIsExact` where nobody
  confirmed a candidate. `RefreshesSettle` needs types only.
* `ModelRegistry_proofs`: `Backed` says that a challenger and whatever served has a
  ready dataset whose manifest is real, that what served was reviewed, and that pending
  requests and predecessors name such releases, and `Recorded` and `Grounded` that a row of
  a dataset is of an incident the manifest reports (`TrainedIsReported`), whose sources at
  the boundary it froze (`RealReleasesServe`, races included); `Kept` says that unraced there is one champion,
  predecessors are retired, and each retired release has one successor that serves
  (`RetiredReturns`). `DatasetsMade` says that a dataset is made of what its manifest
  froze and a manifest of what was on record. Finitely many labels make finitely many
  groups of rows, so one of them is first, and trained on, and one is last, and held
  out; what the dataset was checked for when it was made gives the rest of
  `DatasetsLookBack`.
* `AuditChain_proofs`: `IInv` is the chain property of the commits and of the
  write lock holder's draft on top of them, plus that a drawn id is used once.
  `ChainStaysIntact` follows for any number of sessions and savepoints;
  `UnnestedAuditsAreOrdered` adds that without savepoints whoever holds the file
  lock has read a head nobody else can move. `OnlyTheBusyTimeoutIsNeeded`: locks are
  held by open sessions (`HoldersOpen`), so a session that waits leads to the holder
  of the other lock and back, and the only circle is that of two sessions which took
  the two locks in opposite order. There one waits for the write lock, which times
  out; no circle is made of the file lock alone, which does not.

Only model-checked: the liveness properties (`EveryUploadEnds`, `KeptIsAssembled`,
`EveryCycleEnds`, `AllAssembled`, `SessionsEnd`), since TLAPS does not reason about
fairness and ENABLED here. What they rest on is proved where it is a matter of
safety: `UploadsNeverStuck`, `AssemblyFindsAnIncident` and
`OnlyTheBusyTimeoutIsNeeded` say that some step is always possible, the runs that it
is taken. Every invariant and every step property of the runs has a theorem
(`PayloadPresent` and `TombstoneMeansGone` under `OneMode`, as in the run).

## Not modelled, and the plan

Not modelled for good: text parsing, address normalisation, text similarity and
scoring and training arithmetic (data, not control: their results are inputs), HTTP
clients, response shapes, metrics, the web and desktop clients, packaging, one-shot
scripts that loop over modelled services, `put_file`, `read` and the S3 store, rows
that only record what happened (timeline, decision and evidence rows, replays, drift
and evaluation reports), the creation of labels and outcome events, whose only state
is the rows themselves.

Left out of modelled components: scoring versions and their activation, reviews,
assignments, notes, tasks and the snooze timer of the workflow, retention of
property files, the score backfill and the authorization of live polling in a cycle.

Planned, in this order:

1. an abstract stack of publications that `PropertyImports` and `ModelRegistry`
   implement as long as nothing races, with the refinement proved;
2. a retrieval whose assembly fails for ever, at the head of every recovery list, in
   `DispatchPolling`;
3. label corrections and their idempotency before `OutcomeManifests`, with SQLite's
   savepoints as in `AuditChain`;
4. assignments and the rate limiter, small modules of their own.
