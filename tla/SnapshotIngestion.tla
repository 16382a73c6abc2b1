-------------------------- MODULE SnapshotIngestion --------------------------
(***************************************************************************)
(* Dispatch ingestion (providers/ingestion.py) against the unique indexes  *)
(* of its database, the object store, and the retention command            *)
(* (scripts/retention.py) that deletes payload bytes.                      *)
(*                                                                         *)
(* A request is one call of DispatchIngestionService.ingest for a fixed    *)
(* provider.  It is one database transaction, cut here at every statement  *)
(* another transaction can interfere with.  Rows a transaction inserted    *)
(* and did not commit are not a variable: which ones it holds follows from *)
(* where it stands (HoldsKey, HoldsSnapshot), and an insert into a unique  *)
(* index waits for the other holder to commit or roll back.                *)
(***************************************************************************)
EXTENDS Naturals, FiniteSets

CONSTANTS
    Request,        \* concurrent callers of ingest
    Key,            \* provider-scoped idempotency keys
    Content,        \* payloads; a payload stands for its SHA-256
    Mode,           \* acquisition modes
    NoRequest,      \* the audit head is free
    NoJob,          \* no ImportJob row for the key
    MaxAborts       \* bound: requests that die half-way

ASSUME MaxAbortsAssumption == MaxAborts \in Nat
ASSUME NullsAssumption ==
    /\ NoRequest \notin Request
    /\ NoJob \notin Content
    /\ NoJob \notin [content : Content, mode : Mode,
                     status : {"imported", "replayed_existing_snapshot"}]

VARIABLES
    jobs,           \* key -> committed ImportJob row, or NoJob
    snaps,          \* <<content, mode>> -> state of the committed RawSnapshot
    retrievals,     \* <<content, mode>> -> committed ProviderRetrieval rows
    objects,        \* contents with bytes in the object store
    head,           \* the transaction holding the audit chain head row
    pc,             \* request -> the statement it is about to execute
    req,            \* request -> what it was asked to import
    answer,         \* request -> what its caller was told
    purge,          \* the retention command: the record it is at, and where
    aborts          \* requests that died so far

vars == <<jobs, snaps, retrievals, objects, head, pc, req, answer, purge, aborts>>

Snapshot == Content \X Mode
Job == [content : Content, mode : Mode,
        status : {"imported", "replayed_existing_snapshot"}]
SnapStates == {"absent", "kept", "purging", "purged"}
Steps == {"idle", "check", "reserve", "lookup", "store", "insert", "parse",
          "replay", "reinsert"}
Answers == {"none", "imported", "replayed", "conflict", "database_error"}
PurgePhases == {"idle", "marked", "deleted"}

TypeOK ==
    /\ jobs \in [Key -> Job \cup {NoJob}]
    /\ snaps \in [Snapshot -> SnapStates]
    /\ retrievals \in [Snapshot -> Nat]
    /\ objects \subseteq Content
    /\ head \in Request \cup {NoRequest}
    /\ pc \in [Request -> Steps]
    /\ req \in [Request -> [key : Key, content : Content, mode : Mode]]
    /\ answer \in [Request -> Answers]
    /\ purge \in [snap : Snapshot, phase : PurgePhases]
    /\ aborts \in 0..MaxAborts

Init ==
    /\ jobs = [k \in Key |-> NoJob]
    /\ snaps = [s \in Snapshot |-> "absent"]
    /\ retrievals = [s \in Snapshot |-> 0]
    /\ objects = {}
    /\ head = NoRequest
    /\ pc = [r \in Request |-> "idle"]
    /\ req \in {[r \in Request |-> x] : x \in [key : Key, content : Content, mode : Mode]}
    /\ answer = [r \in Request |-> "none"]
    /\ purge \in [snap : Snapshot, phase : {"idle"}]
    /\ aborts = 0

-----------------------------------------------------------------------------
(* What a running transaction holds. *)

KeyOf(r) == req[r].key
SnapOf(r) == <<req[r].content, req[r].mode>>
Exists(s) == snaps[s] # "absent"

HoldsKey(r) == pc[r] \in {"lookup", "store", "insert", "parse"}
HoldsSnapshot(r) == pc[r] = "parse"

\* Fault: no unique index on import_jobs.idempotency_key.
NoKeyIndex(r) == TRUE

\* The unique index on the key lets r insert: nobody else's row is pending.
KeyFree(r) == \A q \in Request \ {r} : ~(HoldsKey(q) /\ KeyOf(q) = KeyOf(r))

\* Fault: no unique index on (provider, content_hash, acquisition_mode).
NoSnapshotIndex(r) == TRUE

\* The same for the index on raw snapshots.
SnapFree(r) == \A q \in Request \ {r} : ~(HoldsSnapshot(q) /\ SnapOf(q) = SnapOf(r))

\* Fault: the status written with the reservation is never updated.
UnfinishedJobRow(r, status) ==
    [content |-> req[r].content, mode |-> req[r].mode, status |-> "parsing"]

JobRow(r, status) == [content |-> req[r].content, mode |-> req[r].mode, status |-> status]

Goto(r, step) == pc' = [pc EXCEPT ![r] = step]
Reply(r, a) == Goto(r, "idle") /\ answer' = [answer EXCEPT ![r] = a]

-----------------------------------------------------------------------------
(* The statements of ingest. *)

\* An upload arrives (a manual import, or a live poll with its derived key).
Submit(r, k, c, m) ==
    /\ pc[r] = "idle"
    /\ req' = [req EXCEPT ![r] = [key |-> k, content |-> c, mode |-> m]]
    /\ answer' = [answer EXCEPT ![r] = "none"]
    /\ Goto(r, "check")
    /\ UNCHANGED <<jobs, snaps, retrievals, objects, head, purge, aborts>>

\* Fault: the request hash is not compared.
ReplayAnyJob(r) == Reply(r, "replayed")

\* The reply for a key that already has a job: report_from_job or a conflict.
AnswerFromJob(r) ==
    Reply(r, IF jobs[KeyOf(r)].content = req[r].content THEN "replayed" ELSE "conflict")

\* First look-up of the key.
CheckJob(r) ==
    /\ pc[r] = "check"
    /\ IF jobs[KeyOf(r)] # NoJob
       THEN AnswerFromJob(r)
       ELSE Goto(r, "reserve") /\ UNCHANGED answer
    /\ UNCHANGED <<jobs, snaps, retrievals, objects, head, req, purge, aborts>>

\* Fault: the reservation is committed in a transaction of its own.
ReserveAndCommit(r) ==
    /\ pc[r] = "reserve"
    /\ KeyFree(r)
    /\ jobs' = [jobs EXCEPT ![KeyOf(r)] = JobRow(r, "imported")]
    /\ Goto(r, "lookup")
    /\ UNCHANGED <<snaps, retrievals, objects, head, req, answer, purge, aborts>>

\* Insert of the ImportJob row: waits for another holder of the key; a
\* committed job is a unique violation, rolled back and answered from.
ReserveKey(r) ==
    /\ pc[r] = "reserve"
    /\ KeyFree(r)
    /\ IF jobs[KeyOf(r)] # NoJob
       THEN AnswerFromJob(r)
       ELSE Goto(r, "lookup") /\ UNCHANGED answer
    /\ UNCHANGED <<jobs, snaps, retrievals, objects, head, req, purge, aborts>>

\* Fault: the rows are written first and the bytes left for later.
RowsBeforeBytes(r) ==
    /\ pc[r] = "lookup"
    /\ ~Exists(SnapOf(r))
    /\ Goto(r, "insert")
    /\ UNCHANGED <<jobs, snaps, retrievals, objects, head, req, answer, purge, aborts>>

\* Nothing retained for these bytes yet: go on to import them.
MissSnapshot(r) ==
    /\ pc[r] = "lookup"
    /\ ~Exists(SnapOf(r))
    /\ Goto(r, "store")
    /\ UNCHANGED <<jobs, snaps, retrievals, objects, head, req, answer, purge, aborts>>

\* The bytes are retained under another key: the job row points at the
\* existing retrieval; record_audit needs the chain head until the commit.
ReplaySnapshot(r) ==
    /\ pc[r] = "lookup"
    /\ Exists(SnapOf(r))
    /\ head = NoRequest
    /\ jobs' = [jobs EXCEPT ![KeyOf(r)] = JobRow(r, "replayed_existing_snapshot")]
    /\ Reply(r, "replayed")
    /\ UNCHANGED <<snaps, retrievals, objects, head, req, purge, aborts>>

\* SnapshotStore.put, outside the transaction: keeps an existing object.
PutObject(r) ==
    /\ pc[r] = "store"
    /\ objects' = objects \cup {req[r].content}
    /\ Goto(r, "insert")
    /\ UNCHANGED <<jobs, snaps, retrievals, head, req, answer, purge, aborts>>

\* Insert of the RawSnapshot row.  On a unique violation the whole
\* transaction is rolled back, which also gives the reserved key up.
InsertSnapshot(r) ==
    /\ pc[r] = "insert"
    /\ SnapFree(r)
    /\ Goto(r, IF Exists(SnapOf(r)) THEN "replay" ELSE "parse")
    /\ UNCHANGED <<jobs, snaps, retrievals, objects, head, req, answer, purge, aborts>>

\* Parse, write rows and health, audit, commit.
CommitImport(r) ==
    /\ pc[r] = "parse"
    /\ head = NoRequest
    /\ jobs' = [jobs EXCEPT ![KeyOf(r)] = JobRow(r, "imported")]
    /\ snaps' = [snaps EXCEPT ![SnapOf(r)] = "kept"]
    /\ retrievals' = [retrievals EXCEPT ![SnapOf(r)] = @ + 1]
    /\ Reply(r, "imported")
    /\ UNCHANGED <<objects, head, req, purge, aborts>>

\* After the rollback: the replay job is added and record_audit locks the
\* chain head before its flush inserts that job.
LockHead(r) ==
    /\ pc[r] = "replay"
    /\ head = NoRequest
    /\ head' = r
    /\ Goto(r, "reinsert")
    /\ UNCHANGED <<jobs, snaps, retrievals, objects, req, answer, purge, aborts>>

\* Fault: the failed transaction is not rolled back and keeps its locks.
ReinsertWithoutRollback(r) ==
    /\ pc[r] = "reinsert"
    /\ KeyFree(r)
    /\ Reply(r, "database_error")
    /\ UNCHANGED <<jobs, snaps, retrievals, objects, head, req, purge, aborts>>

\* That insert meets the unique key index a second time, now with no
\* handler: a job committed under the key meanwhile is an unhandled error.
ReinsertJob(r) ==
    /\ pc[r] = "reinsert"
    /\ KeyFree(r)
    /\ head' = NoRequest
    /\ IF jobs[KeyOf(r)] # NoJob
       THEN Reply(r, "database_error") /\ UNCHANGED jobs
       ELSE /\ jobs' = [jobs EXCEPT ![KeyOf(r)] = JobRow(r, "replayed_existing_snapshot")]
            /\ Reply(r, "replayed")
    /\ UNCHANGED <<snaps, retrievals, objects, req, purge, aborts>>

-----------------------------------------------------------------------------
(* The database and the processes around ingest. *)

NeedsHead(q) == pc[q] = "parse" \/ (pc[q] = "lookup" /\ Exists(SnapOf(q)))

\* What keeps q from its end is the head: q needs it, or the transaction whose
\* snapshot q waits for does.
WaitsForHead(q) ==
    {p \in Request : NeedsHead(p) /\
        (p = q \/ (pc[q] = "insert" /\ HoldsSnapshot(p) /\ SnapOf(p) = SnapOf(q)))}

\* r holds the head and waits for q's key, and q waits for the head: the
\* database (PostgreSQL's detector, SQLite's busy timeout) fails one of the circle.
BreakDeadlock(r, q, victim) ==
    /\ pc[r] = "reinsert"
    /\ HoldsKey(q) /\ KeyOf(q) = KeyOf(r)
    /\ \E p \in WaitsForHead(q) : victim \in {r, q, p}
    /\ head' = IF victim = r THEN NoRequest ELSE head
    /\ Reply(victim, "database_error")
    /\ UNCHANGED <<jobs, snaps, retrievals, objects, req, purge, aborts>>

\* The process dies, or the store or a write fails, before the commit: the
\* transaction is rolled back; bytes already put stay in the store.
Abort(r) ==
    /\ pc[r] # "idle"
    /\ aborts < MaxAborts
    /\ aborts' = aborts + 1
    /\ head' = IF head = r THEN NoRequest ELSE head
    /\ Reply(r, "none")
    /\ UNCHANGED <<jobs, snaps, retrievals, objects, req, purge>>

-----------------------------------------------------------------------------
(* The retention command, one record at a time. *)

\* created_at < cutoff: the record is at least a day old, so every upload that
\* looked for it before it was committed has long ended.
PastCutoff(s) ==
    \A r \in Request : SnapOf(r) = s => pc[r] \notin {"store", "insert"}

\* Fault: the tombstone is written with the marker, before the delete.
TombstoneFirst(s) ==
    /\ purge.phase = "idle"
    /\ snaps[s] = "kept" /\ PastCutoff(s)
    /\ head = NoRequest
    /\ snaps' = [snaps EXCEPT ![s] = "purged"]
    /\ purge' = [snap |-> s, phase |-> "marked"]
    /\ UNCHANGED <<jobs, retrievals, objects, head, pc, req, answer, aborts>>

\* The pending marker is committed before any byte is touched; a record
\* left pending by an earlier run is a candidate again.
StartPurge(s) ==
    /\ purge.phase = "idle"
    /\ snaps[s] = "purging" \/ (snaps[s] = "kept" /\ PastCutoff(s))
    /\ head = NoRequest
    /\ snaps' = [snaps EXCEPT ![s] = "purging"]
    /\ purge' = [snap |-> s, phase |-> "marked"]
    /\ UNCHANGED <<jobs, retrievals, objects, head, pc, req, answer, aborts>>

\* SnapshotStore.delete; a missing object is no error.
DeleteObject ==
    /\ purge.phase = "marked"
    /\ objects' = objects \ {purge.snap[1]}
    /\ purge' = [purge EXCEPT !.phase = "deleted"]
    /\ UNCHANGED <<jobs, snaps, retrievals, head, pc, req, answer, aborts>>

\* The tombstone, and the completion audit event.
FinishPurge ==
    /\ purge.phase = "deleted"
    /\ head = NoRequest
    /\ snaps' = [snaps EXCEPT ![purge.snap] = "purged"]
    /\ purge' = [purge EXCEPT !.phase = "idle"]
    /\ UNCHANGED <<jobs, retrievals, objects, head, pc, req, answer, aborts>>

\* The delete fails and is audited, or the command dies: the marker stays.
GiveUpPurge ==
    /\ purge.phase # "idle"
    /\ purge' = [purge EXCEPT !.phase = "idle"]
    /\ UNCHANGED <<jobs, snaps, retrievals, objects, head, pc, req, answer, aborts>>

-----------------------------------------------------------------------------
Ingest(r) ==
    \/ CheckJob(r)
    \/ ReserveKey(r)
    \/ MissSnapshot(r)
    \/ ReplaySnapshot(r)
    \/ PutObject(r)
    \/ InsertSnapshot(r)
    \/ CommitImport(r)
    \/ LockHead(r)
    \/ ReinsertJob(r)

Retention ==
    \/ \E s \in Snapshot : StartPurge(s)
    \/ DeleteObject
    \/ FinishPurge
    \/ GiveUpPurge

Next ==
    \/ \E r \in Request, k \in Key, c \in Content, m \in Mode : Submit(r, k, c, m)
    \/ \E r \in Request : Ingest(r) \/ Abort(r)
    \/ \E r, q, victim \in Request : BreakDeadlock(r, q, victim)
    \/ Retention

\* A running request keeps executing; one that waits for a row is in the
\* database's queue for it, so it is not overtaken for ever (strong
\* fairness); the database breaks deadlocks.  Nobody has to submit an upload
\* or run the retention command.
Fairness ==
    /\ \A r \in Request : SF_vars(Ingest(r))
    /\ WF_vars(\E r, q, victim \in Request : BreakDeadlock(r, q, victim))

Spec == Init /\ [][Next]_vars /\ Fairness

-----------------------------------------------------------------------------
(* Every snapshot is persisted once: however uploads of the same bytes     *)
(* race, under one key or several, they leave one retrieval with its rows. *)
OneRetrievalPerSnapshot ==
    \A s \in Snapshot : retrievals[s] = IF Exists(s) THEN 1 ELSE 0

(* A committed job always points at a retained snapshot of its own bytes:  *)
(* the replay path after a rollback never reports a retrieval that the     *)
(* rollback removed.                                                       *)
JobsResolve ==
    \A k \in Key : jobs[k] # NoJob => Exists(<<jobs[k].content, jobs[k].mode>>)

(* No caller is told "imported" or "replayed" for bytes other than the     *)
(* ones its key is bound to, and none gets a conflict for the same bytes.  *)
AnswersMatchKey ==
    \A r \in Request :
        /\ answer[r] \in {"imported", "replayed"} =>
               jobs[KeyOf(r)] # NoJob /\ jobs[KeyOf(r)].content = req[r].content
        /\ answer[r] = "conflict" =>
               jobs[KeyOf(r)] # NoJob /\ jobs[KeyOf(r)].content # req[r].content

(* A retained snapshot that no retention run has marked still has its      *)
(* bytes, so the raw endpoint can serve it and its hash can be verified.   *)
PayloadPresent ==
    \A s \in Snapshot : snaps[s] = "kept" => s[1] \in objects

(* A tombstone is only written after the bytes are gone, whatever crashed  *)
(* between the marker, the delete and the tombstone.                       *)
TombstoneMeansGone ==
    \A s \in Snapshot : snaps[s] = "purged" => s[1] \notin objects

(* Every upload is answered: waiting on the unique indexes and on the      *)
(* audit head never leaves a set of requests waiting on each other.        *)
EveryUploadEnds ==
    \A r \in Request : pc[r] # "idle" ~> pc[r] = "idle"

(* Seen from outside, a binding of keys to bytes that never changes.       *)
Ledger == INSTANCE ImportLedger WITH
    Unbound <- NoJob,
    bound <- [k \in Key |-> IF jobs[k] = NoJob THEN NoJob ELSE jobs[k].content],
    retained <- {s \in Snapshot : Exists(s)}

ImplementsLedger == Ledger!Spec
=============================================================================
