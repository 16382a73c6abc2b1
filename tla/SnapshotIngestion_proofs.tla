----------------------- MODULE SnapshotIngestion_proofs -----------------------
(***************************************************************************)
(* Proofs about SnapshotIngestion, for any sets of requests, keys,         *)
(* payloads and modes.                                                     *)
(***************************************************************************)
EXTENDS SnapshotIngestion, TLAPS

(* Rows, objects, locks and processes keep their shape in every step.      *)
THEOREM TypeCorrect == Spec => []TypeOK
<1>1. Init => TypeOK
  BY MaxAbortsAssumption
  DEF Init, TypeOK, Snapshot, SnapStates, Steps, Answers, PurgePhases
<1>2. TypeOK /\ [Next]_vars => TypeOK'
  <2> SUFFICES ASSUME TypeOK, [Next]_vars PROVE TypeOK'
    OBVIOUS
  <2> USE DEF TypeOK, Goto, Reply, Steps, Answers
  <2>1. ASSUME NEW r \in Request, NEW k \in Key, NEW c \in Content, NEW m \in Mode,
               Submit(r, k, c, m)
        PROVE TypeOK'
    BY <2>1 DEF Submit
  <2>2. ASSUME NEW r \in Request, Ingest(r) PROVE TypeOK'
    <3> DEFINE Row(status) == JobRow(r, status)
    <3>0. /\ KeyOf(r) \in Key /\ SnapOf(r) \in Snapshot
          /\ Row("imported") \in Job
          /\ Row("replayed_existing_snapshot") \in Job
      BY DEF KeyOf, SnapOf, Snapshot, JobRow, Job
    <3>1. CASE CheckJob(r)
      BY <3>1 DEF CheckJob, AnswerFromJob
    <3>2. CASE ReserveKey(r)
      BY <3>2 DEF ReserveKey, AnswerFromJob
    <3>3. CASE MissSnapshot(r)
      BY <3>3 DEF MissSnapshot
    <3>4. CASE ReplaySnapshot(r)
      BY <3>0, <3>4 DEF ReplaySnapshot
    <3>5. CASE PutObject(r)
      BY <3>5 DEF PutObject
    <3>6. CASE InsertSnapshot(r)
      BY <3>6 DEF InsertSnapshot
    <3>7. CASE CommitImport(r)
      BY <3>0, <3>7 DEF CommitImport, SnapStates
    <3>8. CASE LockHead(r)
      BY <3>8 DEF LockHead
    <3>9. CASE ReinsertJob(r)
      BY <3>0, <3>9 DEF ReinsertJob
    <3>10. QED
      BY <2>2, <3>1, <3>2, <3>3, <3>4, <3>5, <3>6, <3>7, <3>8, <3>9 DEF Ingest
  <2>3. ASSUME NEW r \in Request, Abort(r) PROVE TypeOK'
    BY <2>3, MaxAbortsAssumption DEF Abort
  <2>4. ASSUME NEW r \in Request, NEW q \in Request, NEW victim \in Request,
               BreakDeadlock(r, q, victim)
        PROVE TypeOK'
    BY <2>4 DEF BreakDeadlock
  <2>5. CASE Retention
    BY <2>5 DEF Retention, StartPurge, DeleteObject, FinishPurge, GiveUpPurge,
                SnapStates, PurgePhases
  <2>6. CASE UNCHANGED vars
    BY <2>6 DEF vars
  <2>7. QED
    BY <2>1, <2>2, <2>3, <2>4, <2>5, <2>6 DEF Next
<1>3. QED
  BY <1>1, <1>2, PTL DEF Spec

-----------------------------------------------------------------------------
(* The inductive invariant: what the unique indexes give while their rows   *)
(* are pending, next to the three properties that follow from it.           *)

KeysHeld ==
    /\ \A r \in Request : HoldsKey(r) => jobs[KeyOf(r)] = NoJob
    /\ \A r, q \in Request : r # q /\ HoldsKey(r) /\ HoldsKey(q) => KeyOf(r) # KeyOf(q)

SnapshotsHeld ==
    /\ \A r \in Request : HoldsSnapshot(r) => ~Exists(SnapOf(r))
    /\ \A r, q \in Request :
           r # q /\ HoldsSnapshot(r) /\ HoldsSnapshot(q) => SnapOf(r) # SnapOf(q)

ReplaysResolve ==
    \A r \in Request : pc[r] \in {"replay", "reinsert"} => Exists(SnapOf(r))

PurgeMarked ==
    purge.phase # "idle" => snaps[purge.snap] = "purging"

IInv ==
    /\ TypeOK
    /\ KeysHeld
    /\ SnapshotsHeld
    /\ ReplaysResolve
    /\ OneRetrievalPerSnapshot
    /\ JobsResolve
    /\ AnswersMatchKey

LEMMA InitIInv == Init => IInv
<1> SUFFICES ASSUME Init PROVE IInv
  OBVIOUS
<1>1. TypeOK
  BY MaxAbortsAssumption
  DEF Init, TypeOK, Snapshot, SnapStates, Steps, Answers, PurgePhases
<1>2. KeysHeld /\ SnapshotsHeld /\ ReplaysResolve
  BY DEF Init, KeysHeld, SnapshotsHeld, ReplaysResolve, HoldsKey, HoldsSnapshot
<1>3. OneRetrievalPerSnapshot /\ JobsResolve /\ AnswersMatchKey
  BY DEF Init, OneRetrievalPerSnapshot, JobsResolve, AnswersMatchKey, Exists
<1>4. QED
  BY <1>1, <1>2, <1>3 DEF IInv

(* What r's caller may be told, given the jobs that are committed. *)
Truthful(r, a) ==
    /\ a \in {"imported", "replayed"} =>
           jobs[KeyOf(r)] # NoJob /\ jobs[KeyOf(r)].content = req[r].content
    /\ a = "conflict" =>
           jobs[KeyOf(r)] # NoJob /\ jobs[KeyOf(r)].content # req[r].content

(* A statement of r that commits nothing keeps the invariant if what r      *)
(* holds after it was held before or was granted by the unique index, and   *)
(* if its answer, when it gives one, is truthful.                           *)
LEMMA LocalStep ==
    ASSUME IInv, TypeOK', NEW r \in Request,
           UNCHANGED <<jobs, snaps, retrievals, req>>,
           \A q \in Request \ {r} : pc'[q] = pc[q] /\ answer'[q] = answer[q],
           HoldsKey(r)' => HoldsKey(r) \/ (jobs[KeyOf(r)] = NoJob /\ KeyFree(r)),
           HoldsSnapshot(r)' => ~Exists(SnapOf(r)) /\ SnapFree(r),
           pc'[r] \in {"replay", "reinsert"} => Exists(SnapOf(r)),
           Truthful(r, answer'[r])
    PROVE  IInv'
<1>1. KeysHeld'
  <2>1. \A q \in Request : HoldsKey(q)' => jobs[KeyOf(q)] = NoJob
    BY DEF IInv, KeysHeld, HoldsKey
  <2>2. ASSUME NEW p \in Request, NEW q \in Request, p # q, HoldsKey(p)', HoldsKey(q)'
        PROVE  KeyOf(p) # KeyOf(q)
    BY <2>2 DEF IInv, KeysHeld, HoldsKey, KeyFree
  <2>3. \A q \in Request : KeyOf(q)' = KeyOf(q)
    BY DEF KeyOf
  <2>4. QED
    BY <2>1, <2>2, <2>3 DEF KeysHeld
<1>2. SnapshotsHeld'
  <2>1. \A q \in Request : HoldsSnapshot(q)' => ~Exists(SnapOf(q))
    BY DEF IInv, SnapshotsHeld, HoldsSnapshot
  <2>2. ASSUME NEW p \in Request, NEW q \in Request, p # q,
               HoldsSnapshot(p)', HoldsSnapshot(q)'
        PROVE  SnapOf(p) # SnapOf(q)
    BY <2>2 DEF IInv, SnapshotsHeld, HoldsSnapshot, SnapFree
  <2>3. \A q \in Request : SnapOf(q)' = SnapOf(q) /\ (~Exists(SnapOf(q)))' = ~Exists(SnapOf(q))
    BY DEF SnapOf, Exists
  <2>4. QED
    BY <2>1, <2>2, <2>3 DEF SnapshotsHeld
<1>3. ReplaysResolve'
  BY DEF IInv, ReplaysResolve, Exists, SnapOf
<1>4. OneRetrievalPerSnapshot' /\ JobsResolve'
  BY DEF IInv, OneRetrievalPerSnapshot, JobsResolve, Exists
<1>5. AnswersMatchKey'
  BY DEF IInv, AnswersMatchKey, Truthful, KeyOf
<1>6. QED
  BY <1>1, <1>2, <1>3, <1>4, <1>5 DEF IInv

(* A statement of r that commits its job: nobody else holds the key, and    *)
(* the job's snapshot is committed already or is committed with it.         *)
LEMMA CommitStep ==
    ASSUME IInv, TypeOK', NEW r \in Request, NEW status,
           UNCHANGED req, JobRow(r, status) \in Job,
           jobs[KeyOf(r)] = NoJob,
           \A q \in Request \ {r} : HoldsKey(q) => KeyOf(q) # KeyOf(r),
           jobs' = [jobs EXCEPT ![KeyOf(r)] = JobRow(r, status)],
           pc' = [pc EXCEPT ![r] = "idle"],
           \E a \in {"imported", "replayed"} : answer' = [answer EXCEPT ![r] = a],
           \/ Exists(SnapOf(r)) /\ UNCHANGED <<snaps, retrievals>>
           \/ /\ HoldsSnapshot(r)
              /\ snaps' = [snaps EXCEPT ![SnapOf(r)] = "kept"]
              /\ retrievals' = [retrievals EXCEPT ![SnapOf(r)] = @ + 1]
    PROVE  IInv'
<1>0. /\ KeyOf(r) \in Key /\ SnapOf(r) \in Snapshot
      /\ JobRow(r, status) # NoJob
      /\ JobRow(r, status).content = req[r].content
      /\ SnapOf(r) = <<JobRow(r, status).content, JobRow(r, status).mode>>
      /\ \A q \in Request : KeyOf(q)' = KeyOf(q) /\ SnapOf(q)' = SnapOf(q)
  BY NullsAssumption DEF IInv, TypeOK, KeyOf, SnapOf, Snapshot, JobRow, Job
<1>1. \A s \in Snapshot : Exists(s)' <=> (Exists(s) \/ s = SnapOf(r))
  BY <1>0 DEF IInv, TypeOK, Exists
<1>2. \A q \in Request : pc'[q] = IF q = r THEN "idle" ELSE pc[q]
  BY DEF IInv, TypeOK
<1>3. \A k \in Key : jobs'[k] = IF k = KeyOf(r) THEN JobRow(r, status) ELSE jobs[k]
  BY DEF IInv, TypeOK
<1>4. \A q \in Request : KeyOf(q) \in Key /\ SnapOf(q) \in Snapshot
  BY DEF IInv, TypeOK, KeyOf, SnapOf, Snapshot
<1>5. KeysHeld'
  <2>1. \A q \in Request : HoldsKey(q)' => q # r /\ HoldsKey(q)
    BY <1>2 DEF HoldsKey
  <2>2. QED
    BY <2>1, <1>0, <1>3, <1>4 DEF IInv, KeysHeld
<1>6. SnapshotsHeld'
  <2>1. \A q \in Request : HoldsSnapshot(q)' => q # r /\ HoldsSnapshot(q)
    BY <1>2 DEF HoldsSnapshot
  <2>2. ASSUME NEW q \in Request, HoldsSnapshot(q)' PROVE ~Exists(SnapOf(q))'
    <3>1. ~Exists(SnapOf(q))
      BY <2>1, <2>2 DEF IInv, SnapshotsHeld
    <3>2. SnapOf(q) # SnapOf(r)
      BY <2>1, <2>2, <3>1 DEF IInv, SnapshotsHeld
    <3>3. QED
      BY <3>1, <3>2, <1>0, <1>1, <1>4 DEF Exists
  <2>3. QED
    BY <2>1, <2>2, <1>0 DEF IInv, SnapshotsHeld
<1>7. ReplaysResolve'
  <2>1. ASSUME NEW q \in Request, pc'[q] \in {"replay", "reinsert"} PROVE Exists(SnapOf(q))'
    <3>1. Exists(SnapOf(q))
      BY <2>1, <1>2 DEF IInv, ReplaysResolve
    <3>2. QED
      BY <3>1, <1>0, <1>1, <1>4 DEF Exists
  <2>2. QED
    BY <2>1 DEF ReplaysResolve
<1>8. OneRetrievalPerSnapshot'
  <2>1. CASE Exists(SnapOf(r)) /\ UNCHANGED <<snaps, retrievals>>
    BY <2>1 DEF IInv, OneRetrievalPerSnapshot, Exists
  <2>2. CASE /\ HoldsSnapshot(r)
             /\ snaps' = [snaps EXCEPT ![SnapOf(r)] = "kept"]
             /\ retrievals' = [retrievals EXCEPT ![SnapOf(r)] = @ + 1]
    <3>1. retrievals[SnapOf(r)] = 0
      BY <2>2, <1>0 DEF IInv, SnapshotsHeld, OneRetrievalPerSnapshot
    <3>2. \A s \in Snapshot :
              retrievals'[s] = IF s = SnapOf(r) THEN 1 ELSE retrievals[s]
      BY <2>2, <3>1, <1>0 DEF IInv, TypeOK
    <3>3. QED
      BY <3>2, <1>1, <1>0 DEF IInv, OneRetrievalPerSnapshot
  <2>3. QED
    BY <2>1, <2>2
<1>9. JobsResolve'
  <2>1. ASSUME NEW k \in Key, jobs'[k] # NoJob
        PROVE  Exists(<<jobs[k].content, jobs[k].mode>>)'
    <3>1. CASE k = KeyOf(r)
      <4>1. jobs'[k] = JobRow(r, status)
        BY <3>1, <1>3
      <4>2. Exists(SnapOf(r))'
        BY <1>0, <1>1
      <4>3. QED
        BY <4>1, <4>2, <1>0 DEF Exists
    <3>2. CASE k # KeyOf(r)
      <4>1. jobs'[k] = jobs[k] /\ jobs[k] \in Job
        BY <2>1, <3>2, <1>3 DEF IInv, TypeOK
      <4>2. <<jobs[k].content, jobs[k].mode>> \in Snapshot
        BY <4>1 DEF Job, Snapshot
      <4>3. Exists(<<jobs[k].content, jobs[k].mode>>)
        BY <4>1, <2>1 DEF IInv, JobsResolve
      <4>4. QED
        BY <4>1, <4>2, <4>3, <1>1 DEF Exists
    <3>3. QED
      BY <3>1, <3>2
  <2>2. QED
    BY <2>1 DEF JobsResolve
<1>10. AnswersMatchKey'
  <2>1. \A q \in Request \ {r} : answer'[q] = answer[q]
    BY DEF IInv, TypeOK
  <2>2. answer'[r] \in {"imported", "replayed"}
    BY DEF IInv, TypeOK
  <2>3. \A q \in Request : Truthful(q, answer[q])
    BY DEF IInv, AnswersMatchKey, Truthful
  <2>4. \A q \in Request \ {r} : Truthful(q, answer[q])'
    BY <2>1, <2>3, <1>0, <1>3, <1>4 DEF Truthful
  <2>5. Truthful(r, answer[r])'
    BY <2>2, <1>0, <1>3 DEF Truthful
  <2>6. QED
    BY <2>4, <2>5 DEF AnswersMatchKey, Truthful
<1>11. QED
  BY <1>5, <1>6, <1>7, <1>8, <1>9, <1>10 DEF IInv

(* The statements of ingest, one by one. *)
LEMMA IngestKeepsIInv ==
    ASSUME IInv, TypeOK', NEW r \in Request, Ingest(r)
    PROVE  IInv'
<1>0. /\ \A s \in {"imported", "replayed_existing_snapshot"} : JobRow(r, s) \in Job
      /\ Truthful(r, answer[r])
      /\ KeyOf(r) \in Key
  BY DEF IInv, TypeOK, JobRow, Job, AnswersMatchKey, Truthful, KeyOf
<1>1. CASE CheckJob(r)
  <2>1. Truthful(r, answer'[r])
    BY <1>0, <1>1 DEF CheckJob, AnswerFromJob, Reply, Goto, Truthful, IInv, TypeOK
  <2>2. /\ \A q \in Request \ {r} : pc'[q] = pc[q] /\ answer'[q] = answer[q]
        /\ pc'[r] \in {"idle", "reserve"}
    BY <1>1 DEF CheckJob, AnswerFromJob, Reply, Goto, IInv, TypeOK
  <2>3. UNCHANGED <<jobs, snaps, retrievals, req>>
    BY <1>1 DEF CheckJob
  <2>4. QED
    BY <2>1, <2>2, <2>3, LocalStep DEF HoldsKey, HoldsSnapshot
<1>2. CASE ReserveKey(r)
  <2>1. Truthful(r, answer'[r])
    BY <1>0, <1>2 DEF ReserveKey, AnswerFromJob, Reply, Goto, Truthful, IInv, TypeOK
  <2>2. /\ \A q \in Request \ {r} : pc'[q] = pc[q] /\ answer'[q] = answer[q]
        /\ pc'[r] = "idle" \/ (pc'[r] = "lookup" /\ jobs[KeyOf(r)] = NoJob /\ KeyFree(r))
    BY <1>2 DEF ReserveKey, AnswerFromJob, Reply, Goto, IInv, TypeOK
  <2>3. UNCHANGED <<jobs, snaps, retrievals, req>>
    BY <1>2 DEF ReserveKey
  <2>4. QED
    BY <2>1, <2>2, <2>3, LocalStep DEF HoldsKey, HoldsSnapshot
<1>3. CASE MissSnapshot(r) \/ PutObject(r)
  <2>1. /\ \A q \in Request \ {r} : pc'[q] = pc[q]
        /\ pc'[r] \in {"store", "insert"}
        /\ HoldsKey(r)
        /\ UNCHANGED <<jobs, snaps, retrievals, req, answer>>
    BY <1>3 DEF MissSnapshot, PutObject, Goto, HoldsKey, IInv, TypeOK
  <2>2. QED
    BY <2>1, <1>0, LocalStep DEF HoldsKey, HoldsSnapshot
<1>4. CASE ReplaySnapshot(r)
  <2>1. /\ jobs' = [jobs EXCEPT ![KeyOf(r)] = JobRow(r, "replayed_existing_snapshot")]
        /\ pc' = [pc EXCEPT ![r] = "idle"]
        /\ answer' = [answer EXCEPT ![r] = "replayed"]
        /\ Exists(SnapOf(r)) /\ UNCHANGED <<snaps, retrievals, req>>
        /\ HoldsKey(r)
    BY <1>4 DEF ReplaySnapshot, Reply, Goto, HoldsKey
  <2>2. jobs[KeyOf(r)] = NoJob /\ \A q \in Request \ {r} : HoldsKey(q) => KeyOf(q) # KeyOf(r)
    BY <2>1 DEF IInv, KeysHeld
  <2>3. QED
    BY <2>1, <2>2, <1>0, CommitStep
<1>5. CASE InsertSnapshot(r)
  <2>1. /\ \A q \in Request \ {r} : pc'[q] = pc[q]
        /\ \/ pc'[r] = "replay" /\ Exists(SnapOf(r))
           \/ pc'[r] = "parse" /\ ~Exists(SnapOf(r))
        /\ HoldsKey(r) /\ SnapFree(r)
        /\ UNCHANGED <<jobs, snaps, retrievals, req, answer>>
    BY <1>5 DEF InsertSnapshot, Goto, HoldsKey, IInv, TypeOK
  <2>2. QED
    BY <2>1, <1>0, LocalStep DEF HoldsKey, HoldsSnapshot
<1>6. CASE CommitImport(r)
  <2>1. /\ jobs' = [jobs EXCEPT ![KeyOf(r)] = JobRow(r, "imported")]
        /\ pc' = [pc EXCEPT ![r] = "idle"]
        /\ answer' = [answer EXCEPT ![r] = "imported"]
        /\ HoldsSnapshot(r) /\ UNCHANGED req
        /\ snaps' = [snaps EXCEPT ![SnapOf(r)] = "kept"]
        /\ retrievals' = [retrievals EXCEPT ![SnapOf(r)] = @ + 1]
        /\ HoldsKey(r)
    BY <1>6 DEF CommitImport, Reply, Goto, HoldsKey, HoldsSnapshot
  <2>2. jobs[KeyOf(r)] = NoJob /\ \A q \in Request \ {r} : HoldsKey(q) => KeyOf(q) # KeyOf(r)
    BY <2>1 DEF IInv, KeysHeld
  <2>3. QED
    BY <2>1, <2>2, <1>0, CommitStep
<1>7. CASE LockHead(r)
  <2>1. /\ \A q \in Request \ {r} : pc'[q] = pc[q]
        /\ pc'[r] = "reinsert" /\ Exists(SnapOf(r))
        /\ UNCHANGED <<jobs, snaps, retrievals, req, answer>>
    BY <1>7 DEF LockHead, Goto, IInv, TypeOK, ReplaysResolve
  <2>2. QED
    BY <2>1, <1>0, LocalStep DEF HoldsKey, HoldsSnapshot
<1>8. CASE ReinsertJob(r) /\ jobs[KeyOf(r)] # NoJob
  <2>1. /\ \A q \in Request \ {r} : pc'[q] = pc[q] /\ answer'[q] = answer[q]
        /\ pc'[r] = "idle" /\ answer'[r] = "database_error"
        /\ UNCHANGED <<jobs, snaps, retrievals, req>>
    BY <1>8 DEF ReinsertJob, Reply, Goto, IInv, TypeOK
  <2>2. QED
    BY <2>1, LocalStep DEF HoldsKey, HoldsSnapshot, Truthful
<1>9. CASE ReinsertJob(r) /\ jobs[KeyOf(r)] = NoJob
  <2>1. /\ jobs' = [jobs EXCEPT ![KeyOf(r)] = JobRow(r, "replayed_existing_snapshot")]
        /\ pc' = [pc EXCEPT ![r] = "idle"]
        /\ answer' = [answer EXCEPT ![r] = "replayed"]
        /\ UNCHANGED <<snaps, retrievals, req>>
        /\ pc[r] = "reinsert" /\ KeyFree(r)
    BY <1>9 DEF ReinsertJob, Reply, Goto
  <2>2. Exists(SnapOf(r)) /\ \A q \in Request \ {r} : HoldsKey(q) => KeyOf(q) # KeyOf(r)
    BY <2>1 DEF IInv, ReplaysResolve, KeyFree
  <2>3. QED
    BY <2>1, <2>2, <1>0, <1>9, CommitStep
<1>10. QED
  BY <1>1, <1>2, <1>3, <1>4, <1>5, <1>6, <1>7, <1>8, <1>9 DEF Ingest

(* A new upload holds nothing and has not been answered. *)
LEMMA SubmitKeepsIInv ==
    ASSUME IInv, TypeOK', NEW r \in Request, NEW k \in Key, NEW c \in Content,
           NEW m \in Mode, Submit(r, k, c, m)
    PROVE  IInv'
<1>1. /\ pc'[r] = "check" /\ answer'[r] = "none"
      /\ \A q \in Request \ {r} :
             pc'[q] = pc[q] /\ answer'[q] = answer[q] /\ req'[q] = req[q]
      /\ UNCHANGED <<jobs, snaps, retrievals>>
  BY DEF Submit, Goto, IInv, TypeOK
<1>2. /\ \A q \in Request : HoldsKey(q)' => q # r /\ HoldsKey(q)
      /\ \A q \in Request : HoldsSnapshot(q)' => q # r /\ HoldsSnapshot(q)
      /\ \A q \in Request \ {r} : KeyOf(q)' = KeyOf(q) /\ SnapOf(q)' = SnapOf(q)
  BY <1>1 DEF HoldsKey, HoldsSnapshot, KeyOf, SnapOf
<1>3. KeysHeld'
  BY <1>1, <1>2 DEF IInv, KeysHeld
<1>4. SnapshotsHeld' /\ ReplaysResolve'
  BY <1>1, <1>2 DEF IInv, SnapshotsHeld, ReplaysResolve, Exists
<1>5. OneRetrievalPerSnapshot' /\ JobsResolve'
  BY <1>1 DEF IInv, OneRetrievalPerSnapshot, JobsResolve, Exists
<1>6. AnswersMatchKey'
  BY <1>1, <1>2 DEF IInv, AnswersMatchKey, KeyOf
<1>7. QED
  BY <1>3, <1>4, <1>5, <1>6 DEF IInv

(* The record the retention command is at stays marked: an import only      *)
(* writes the row of a snapshot that is not there yet.                      *)
LEMMA PurgeStaysMarked ==
    ASSUME IInv, PurgeMarked, [Next]_vars
    PROVE  PurgeMarked'
<1> USE DEF PurgeMarked
<1>1. CASE Retention
  BY <1>1 DEF Retention, StartPurge, DeleteObject, FinishPurge, GiveUpPurge, IInv, TypeOK
<1>2. ASSUME NEW r \in Request, CommitImport(r) PROVE PurgeMarked'
  <2>1. ~Exists(SnapOf(r)) /\ SnapOf(r) \in Snapshot
    BY <1>2 DEF CommitImport, IInv, SnapshotsHeld, HoldsSnapshot, TypeOK, SnapOf, Snapshot
  <2>2. QED
    BY <1>2, <2>1 DEF CommitImport, Exists, IInv, TypeOK
<1>3. ASSUME NEW r \in Request, Ingest(r), ~CommitImport(r) PROVE PurgeMarked'
  BY <1>3 DEF Ingest, CheckJob, ReserveKey, MissSnapshot, ReplaySnapshot, PutObject,
              InsertSnapshot, LockHead, ReinsertJob
<1>4. ASSUME NEW r \in Request, Abort(r) PROVE PurgeMarked'
  BY <1>4 DEF Abort
<1>5. ASSUME NEW r \in Request, NEW k \in Key, NEW c \in Content, NEW m \in Mode,
             Submit(r, k, c, m)
      PROVE  PurgeMarked'
  BY <1>5 DEF Submit
<1>6. ASSUME NEW r \in Request, NEW q \in Request, NEW victim \in Request,
             BreakDeadlock(r, q, victim)
      PROVE  PurgeMarked'
  BY <1>6 DEF BreakDeadlock
<1>7. CASE UNCHANGED vars
  BY <1>7 DEF vars
<1>8. QED
  BY <1>1, <1>2, <1>3, <1>4, <1>5, <1>6, <1>7 DEF Next

(* The retention command moves a committed snapshot between its states and  *)
(* never makes one appear or disappear.                                     *)
LEMMA RetentionKeepsRows ==
    ASSUME IInv, PurgeMarked, Retention
    PROVE  /\ \A s \in Snapshot : Exists(s)' <=> Exists(s)
           /\ UNCHANGED <<jobs, retrievals, pc, req, answer>>
  BY DEF Retention, StartPurge, DeleteObject, FinishPurge, GiveUpPurge, Exists, PurgeMarked,
         IInv, TypeOK, PurgePhases, SnapStates

LEMMA RetentionKeepsIInv ==
    ASSUME IInv, PurgeMarked, TypeOK', Retention
    PROVE  IInv'
<1>1. /\ \A s \in Snapshot : Exists(s)' <=> Exists(s)
      /\ UNCHANGED <<jobs, retrievals, pc, req, answer>>
  BY RetentionKeepsRows
<1>2. \A q \in Request : SnapOf(q)' = SnapOf(q) /\ SnapOf(q) \in Snapshot
  BY <1>1 DEF IInv, TypeOK, SnapOf, Snapshot
<1>3. KeysHeld' /\ AnswersMatchKey'
  BY <1>1 DEF IInv, KeysHeld, AnswersMatchKey, HoldsKey, KeyOf
<1>4. SnapshotsHeld'
  <2>1. \A q \in Request : ~Exists(SnapOf(q)) => (~Exists(SnapOf(q)))'
    BY <1>1, <1>2 DEF Exists
  <2>2. QED
    BY <2>1, <1>1, <1>2 DEF IInv, SnapshotsHeld, HoldsSnapshot
<1>5. ReplaysResolve'
  <2>1. \A q \in Request : Exists(SnapOf(q)) => Exists(SnapOf(q))'
    BY <1>1, <1>2 DEF Exists
  <2>2. QED
    BY <2>1, <1>1 DEF IInv, ReplaysResolve
<1>6. OneRetrievalPerSnapshot'
  BY <1>1 DEF IInv, OneRetrievalPerSnapshot
<1>7. JobsResolve'
  <2>1. ASSUME NEW k \in Key, jobs[k] # NoJob
        PROVE  Exists(<<jobs[k].content, jobs[k].mode>>)'
    <3>1. <<jobs[k].content, jobs[k].mode>> \in Snapshot
      BY <2>1 DEF IInv, TypeOK, Job, Snapshot
    <3>2. Exists(<<jobs[k].content, jobs[k].mode>>)
      BY <2>1 DEF IInv, JobsResolve
    <3>3. QED
      BY <3>1, <3>2, <1>1 DEF Exists
  <2>2. QED
    BY <2>1, <1>1 DEF JobsResolve
<1>8. QED
  BY <1>3, <1>4, <1>5, <1>6, <1>7 DEF IInv

(* A request that dies, or is the victim of a deadlock, gives up what it    *)
(* holds.                                                                   *)
LEMMA RollbackKeepsIInv ==
    ASSUME IInv, TypeOK', NEW r \in Request, Reply(r, "none") \/ Reply(r, "database_error"),
           UNCHANGED <<jobs, snaps, retrievals, req>>
    PROVE  IInv'
<1>1. /\ \A q \in Request \ {r} : pc'[q] = pc[q] /\ answer'[q] = answer[q]
      /\ pc'[r] = "idle" /\ answer'[r] \in {"none", "database_error"}
  BY DEF Reply, Goto, IInv, TypeOK
<1>2. QED
  BY <1>1, LocalStep DEF HoldsKey, HoldsSnapshot, Truthful

(* Both together are inductive. *)
LEMMA NextKeepsIInv ==
    ASSUME IInv, PurgeMarked, TypeOK', [Next]_vars
    PROVE  IInv' /\ PurgeMarked'
<1>1. ASSUME NEW r \in Request, NEW k \in Key, NEW c \in Content, NEW m \in Mode,
             Submit(r, k, c, m)
      PROVE  IInv'
  BY <1>1, SubmitKeepsIInv
<1>2. ASSUME NEW r \in Request, Ingest(r) PROVE IInv'
  BY <1>2, IngestKeepsIInv
<1>3. ASSUME NEW r \in Request, Abort(r) PROVE IInv'
  BY <1>3, RollbackKeepsIInv DEF Abort
<1>4. ASSUME NEW r \in Request, NEW q \in Request, NEW victim \in Request,
             BreakDeadlock(r, q, victim)
      PROVE  IInv'
  BY <1>4, RollbackKeepsIInv DEF BreakDeadlock
<1>5. ASSUME Retention PROVE IInv'
  BY <1>5, RetentionKeepsIInv
<1>6. ASSUME UNCHANGED vars PROVE IInv'
  BY <1>6 DEF vars, IInv, TypeOK, KeysHeld, SnapshotsHeld, ReplaysResolve,
       OneRetrievalPerSnapshot, JobsResolve, AnswersMatchKey, HoldsKey, HoldsSnapshot,
       KeyOf, SnapOf, Exists
<1>7. QED
  BY <1>1, <1>2, <1>3, <1>4, <1>5, <1>6, PurgeStaysMarked DEF Next

THEOREM InvariantHolds == Spec => [](IInv /\ PurgeMarked)
<1>1. Init => PurgeMarked
  BY DEF Init, PurgeMarked
<1>2. QED
  BY <1>1, InitIInv, NextKeepsIInv, TypeCorrect, PTL DEF Spec

-----------------------------------------------------------------------------
(* However many uploads race, under whatever keys, a snapshot is persisted  *)
(* by exactly one retrieval (ingest, providers/ingestion.py).               *)
THEOREM SnapshotsPersistedOnce == Spec => []OneRetrievalPerSnapshot
<1>1. IInv => OneRetrievalPerSnapshot
  BY DEF IInv
<1>2. QED
  BY <1>1, InvariantHolds, PTL

(* Every committed import job points at a committed snapshot of its bytes.  *)
THEOREM JobsAlwaysResolve == Spec => []JobsResolve
<1>1. IInv => JobsResolve
  BY DEF IInv
<1>2. QED
  BY <1>1, InvariantHolds, PTL

(* No caller is answered about bytes other than the ones it sent.           *)
THEOREM AnswersAreTruthful == Spec => []AnswersMatchKey
<1>1. IInv => AnswersMatchKey
  BY DEF IInv
<1>2. QED
  BY <1>1, InvariantHolds, PTL

-----------------------------------------------------------------------------
(* The ledger an uploader sees. *)

Bound == [k \in Key |-> IF jobs[k] = NoJob THEN NoJob ELSE jobs[k].content]
Retained == {s \in Snapshot : Exists(s)}

(* A statement that commits r's job is one Accept of the ledger.            *)
LEMMA CommitIsAccept ==
    ASSUME IInv, NEW r \in Request, NEW status,
           jobs[KeyOf(r)] = NoJob, JobRow(r, status) \in Job,
           jobs' = [jobs EXCEPT ![KeyOf(r)] = JobRow(r, status)],
           \/ Exists(SnapOf(r)) /\ UNCHANGED snaps
           \/ snaps' = [snaps EXCEPT ![SnapOf(r)] = "kept"]
    PROVE  Ledger!Next
<1>0. /\ KeyOf(r) \in Key /\ req[r].content \in Content /\ req[r].mode \in Mode
      /\ SnapOf(r) \in Snapshot /\ SnapOf(r) = <<req[r].content, req[r].mode>>
      /\ JobRow(r, status) # NoJob /\ JobRow(r, status).content = req[r].content
  BY NullsAssumption DEF IInv, TypeOK, KeyOf, SnapOf, Snapshot, JobRow, Job
<1>1. Bound[KeyOf(r)] = NoJob
  BY <1>0 DEF Bound
<1>2. Bound' = [Bound EXCEPT ![KeyOf(r)] = req[r].content]
  <2>1. \A k \in Key : jobs'[k] = IF k = KeyOf(r) THEN JobRow(r, status) ELSE jobs[k]
    BY DEF IInv, TypeOK
  <2>2. \A k \in Key : Bound'[k] = IF k = KeyOf(r) THEN req[r].content ELSE Bound[k]
    BY <2>1, <1>0 DEF Bound
  <2>3. Bound' = [k \in Key |-> Bound'[k]] /\ Bound = [k \in Key |-> Bound[k]]
    BY DEF Bound
  <2>4. QED
    BY <2>2, <2>3
<1>3. Retained' = Retained \cup {<<req[r].content, req[r].mode>>}
  <2>1. \A s \in Snapshot : Exists(s)' <=> (Exists(s) \/ s = SnapOf(r))
    BY <1>0 DEF IInv, TypeOK, Exists
  <2>2. QED
    BY <2>1, <1>0 DEF Retained
<1>4. QED
  <2>1. \E k \in Key, c \in Content, m \in Mode :
            /\ Bound[k] = NoJob
            /\ Bound' = [Bound EXCEPT ![k] = c]
            /\ Retained' = Retained \cup {<<c, m>>}
    BY <1>0, <1>1, <1>2, <1>3
  <2>2. QED
    BY <2>1 DEF Ledger!Next, Ledger!Accept, Bound, Retained

(* Every other step leaves the ledger as it is.                             *)
LEMMA OtherStepsStutter ==
    ASSUME UNCHANGED jobs, \A s \in Snapshot : Exists(s)' <=> Exists(s)
    PROVE  UNCHANGED Ledger!vars
BY DEF Ledger!vars

(* Ingestion implements the ledger: a key once bound never changes its      *)
(* bytes, and a snapshot once accepted never disappears, whatever the       *)
(* interleaving, the rollbacks and the retention command do.                *)
THEOREM IngestionImplementsLedger == Spec => ImplementsLedger
<1>1. Init => Ledger!Init
  BY DEF Init, Ledger!Init, Exists
<1>2. ASSUME IInv, PurgeMarked, [Next]_vars PROVE [Ledger!Next]_(Ledger!vars)
  <2>1. ASSUME NEW r \in Request, Ingest(r) PROVE Ledger!Next \/ UNCHANGED Ledger!vars
    <3>0. \A s \in {"imported", "replayed_existing_snapshot"} : JobRow(r, s) \in Job
      BY <1>2 DEF IInv, TypeOK, JobRow, Job
    <3>1. CASE ReplaySnapshot(r)
      <4>1. jobs[KeyOf(r)] = NoJob
        BY <1>2, <3>1 DEF ReplaySnapshot, IInv, KeysHeld, HoldsKey
      <4>2. QED
        BY <1>2, <3>0, <3>1, <4>1, CommitIsAccept DEF ReplaySnapshot
    <3>2. CASE CommitImport(r)
      <4>1. jobs[KeyOf(r)] = NoJob
        BY <1>2, <3>2 DEF CommitImport, IInv, KeysHeld, HoldsKey
      <4>2. QED
        BY <1>2, <3>0, <3>2, <4>1, CommitIsAccept DEF CommitImport
    <3>3. CASE ReinsertJob(r) /\ jobs[KeyOf(r)] = NoJob
      <4>1. Exists(SnapOf(r))
        BY <1>2, <3>3 DEF ReinsertJob, IInv, ReplaysResolve
      <4>2. QED
        BY <1>2, <3>0, <3>3, <4>1, CommitIsAccept DEF ReinsertJob
    <3>4. CASE ReinsertJob(r) /\ jobs[KeyOf(r)] # NoJob
      BY <3>4, OtherStepsStutter DEF ReinsertJob, Exists
    <3>5. CASE \/ CheckJob(r) \/ ReserveKey(r) \/ MissSnapshot(r) \/ PutObject(r)
               \/ InsertSnapshot(r) \/ LockHead(r)
      BY <3>5, OtherStepsStutter
      DEF CheckJob, ReserveKey, MissSnapshot, PutObject, InsertSnapshot, LockHead, Exists
    <3>6. QED
      BY <2>1, <3>1, <3>2, <3>3, <3>4, <3>5 DEF Ingest
  <2>2. ASSUME NEW r \in Request, NEW k \in Key, NEW c \in Content, NEW m \in Mode,
               Submit(r, k, c, m)
        PROVE  UNCHANGED Ledger!vars
    BY <2>2, OtherStepsStutter DEF Submit, Exists
  <2>3. ASSUME NEW r \in Request, Abort(r) PROVE UNCHANGED Ledger!vars
    BY <2>3, OtherStepsStutter DEF Abort, Exists
  <2>4. ASSUME NEW r \in Request, NEW q \in Request, NEW victim \in Request,
               BreakDeadlock(r, q, victim)
        PROVE  UNCHANGED Ledger!vars
    BY <2>4, OtherStepsStutter DEF BreakDeadlock, Exists
  <2>5. ASSUME Retention PROVE UNCHANGED Ledger!vars
    BY <1>2, <2>5, RetentionKeepsRows, OtherStepsStutter
  <2>6. ASSUME UNCHANGED vars PROVE UNCHANGED Ledger!vars
    BY <2>6, OtherStepsStutter DEF vars, Exists
  <2>7. QED
    BY <1>2, <2>1, <2>2, <2>3, <2>4, <2>5, <2>6 DEF Next
<1>3. QED
  BY <1>1, <1>2, InvariantHolds, PTL DEF Spec, ImplementsLedger, Ledger!Spec

-----------------------------------------------------------------------------
(* The bytes behind the rows.  Storage is addressed by content alone, so    *)
(* this needs that a provider's payloads come in one acquisition mode.      *)

UploadsFindKept ==
    \A r \in Request :
        pc[r] \in {"store", "insert"} /\ Exists(SnapOf(r)) => snaps[SnapOf(r)] = "kept"

BytesBeforeRows ==
    \A r \in Request :
        pc[r] \in {"insert", "parse"} /\ ~Exists(SnapOf(r)) => req[r].content \in objects

DeletedIsGone ==
    purge.phase = "deleted" => purge.snap[1] \notin objects

BytesInv ==
    /\ UploadsFindKept
    /\ BytesBeforeRows
    /\ DeletedIsGone
    /\ PayloadPresent
    /\ TombstoneMeansGone

OneMode == \A m1, m2 \in Mode : m1 = m2

LEMMA ContentIdentifiesSnapshot ==
    ASSUME OneMode, NEW s \in Snapshot, NEW t \in Snapshot, s[1] = t[1]
    PROVE  s = t
BY DEF OneMode, Snapshot

(* Statements of r that leave the committed rows and the store alone.       *)
LEMMA QuietStepKeepsBytes ==
    ASSUME IInv, BytesInv, NEW r \in Request,
           UNCHANGED <<snaps, objects, purge, req>>,
           \A q \in Request \ {r} : pc'[q] = pc[q],
           pc'[r] = "store" => ~Exists(SnapOf(r)),
           pc'[r] \in {"insert", "parse"} => pc[r] = "insert"
    PROVE  BytesInv'
<1>0. \A q \in Request : SnapOf(q)' = SnapOf(q) /\ (Exists(SnapOf(q))' <=> Exists(SnapOf(q)))
  BY DEF SnapOf, Exists
<1>1. UploadsFindKept' /\ BytesBeforeRows'
  BY <1>0 DEF BytesInv, UploadsFindKept, BytesBeforeRows, IInv, TypeOK, SnapOf, Exists
<1>2. DeletedIsGone' /\ PayloadPresent' /\ TombstoneMeansGone'
  BY DEF BytesInv, DeletedIsGone, PayloadPresent, TombstoneMeansGone
<1>3. QED
  BY <1>1, <1>2 DEF BytesInv

LEMMA IngestKeepsBytes ==
    ASSUME OneMode, IInv, PurgeMarked, BytesInv, NEW r \in Request, Ingest(r)
    PROVE  BytesInv'
<1>0. SnapOf(r) \in Snapshot /\ SnapOf(r)[1] = req[r].content
  BY DEF IInv, TypeOK, SnapOf, Snapshot
<1>1. CASE PutObject(r)
  <2>1. /\ \A q \in Request : SnapOf(q)' = SnapOf(q) /\ SnapOf(q) \in Snapshot
        /\ objects' = objects \cup {SnapOf(r)[1]}
        /\ UNCHANGED <<snaps, purge, req>>
        /\ \A q \in Request \ {r} : pc'[q] = pc[q]
        /\ pc[r] = "store" /\ pc'[r] = "insert"
    BY <1>0, <1>1 DEF PutObject, Goto, IInv, TypeOK, SnapOf, Snapshot
  <2>2. ~Exists(SnapOf(r)) \/ snaps[SnapOf(r)] = "kept"
    BY <2>1 DEF BytesInv, UploadsFindKept
  <2>3. UploadsFindKept' /\ BytesBeforeRows'
    BY <1>0, <2>1 DEF BytesInv, UploadsFindKept, BytesBeforeRows, Exists
  <2>4. DeletedIsGone'
    <3>1. ASSUME purge.phase = "deleted" PROVE purge.snap[1] # SnapOf(r)[1]
      <4>1. snaps[purge.snap] = "purging" /\ purge.snap \in Snapshot
        BY <3>1 DEF PurgeMarked, IInv, TypeOK
      <4>2. purge.snap # SnapOf(r)
        BY <2>2, <4>1 DEF Exists
      <4>3. QED
        BY <4>1, <4>2, <1>0, ContentIdentifiesSnapshot
    <3>2. QED
      BY <3>1, <2>1 DEF BytesInv, DeletedIsGone
  <2>5. PayloadPresent'
    BY <2>1 DEF BytesInv, PayloadPresent
  <2>6. TombstoneMeansGone'
    <3>1. ASSUME NEW s \in Snapshot, snaps[s] = "purged" PROVE s[1] # SnapOf(r)[1]
      <4>1. s # SnapOf(r)
        BY <2>2, <3>1 DEF Exists
      <4>2. QED
        BY <4>1, <1>0, ContentIdentifiesSnapshot
    <3>2. QED
      BY <3>1, <2>1 DEF BytesInv, TombstoneMeansGone
  <2>7. QED
    BY <2>3, <2>4, <2>5, <2>6 DEF BytesInv
<1>2. CASE CommitImport(r)
  <2>1. /\ \A q \in Request : SnapOf(q)' = SnapOf(q) /\ SnapOf(q) \in Snapshot
        /\ UNCHANGED <<objects, purge, req>>
        /\ \A s \in Snapshot : snaps'[s] = IF s = SnapOf(r) THEN "kept" ELSE snaps[s]
        /\ \A q \in Request : pc'[q] = IF q = r THEN "idle" ELSE pc[q]
        /\ pc[r] = "parse"
    BY <1>0, <1>2 DEF CommitImport, Reply, Goto, IInv, TypeOK, SnapOf, Snapshot
  <2>2. SnapOf(r)[1] \in objects
    BY <1>0, <2>1 DEF BytesInv, BytesBeforeRows, IInv, SnapshotsHeld, HoldsSnapshot
  <2>3. UploadsFindKept' /\ BytesBeforeRows'
    BY <2>1 DEF BytesInv, UploadsFindKept, BytesBeforeRows, Exists
  <2>4. DeletedIsGone' /\ PayloadPresent' /\ TombstoneMeansGone'
    BY <2>1, <2>2 DEF BytesInv, DeletedIsGone, PayloadPresent, TombstoneMeansGone
  <2>5. QED
    BY <2>3, <2>4 DEF BytesInv
<1>3. CASE \/ CheckJob(r) \/ ReserveKey(r) \/ MissSnapshot(r) \/ ReplaySnapshot(r)
           \/ InsertSnapshot(r) \/ LockHead(r) \/ ReinsertJob(r)
  <2>1. /\ UNCHANGED <<snaps, objects, purge, req>>
        /\ \A q \in Request \ {r} : pc'[q] = pc[q]
        /\ pc'[r] = "store" => ~Exists(SnapOf(r))
        /\ pc'[r] \in {"insert", "parse"} => pc[r] = "insert"
    BY <1>3 DEF CheckJob, ReserveKey, AnswerFromJob, MissSnapshot, ReplaySnapshot,
                InsertSnapshot, LockHead, ReinsertJob, Reply, Goto, IInv, TypeOK
  <2>2. QED
    BY <2>1, QuietStepKeepsBytes
<1>4. QED
  BY <1>1, <1>2, <1>3 DEF Ingest

LEMMA RetentionKeepsBytes ==
    ASSUME OneMode, IInv, PurgeMarked, BytesInv, Retention
    PROVE  BytesInv'
<1>0. /\ \A q \in Request : SnapOf(q)' = SnapOf(q) /\ SnapOf(q) \in Snapshot
      /\ UNCHANGED <<pc, req>>
  BY DEF Retention, StartPurge, DeleteObject, FinishPurge, GiveUpPurge, IInv, TypeOK,
         SnapOf, Snapshot
<1>1. ASSUME NEW s \in Snapshot, StartPurge(s) PROVE BytesInv'
  <2>1. /\ \A t \in Snapshot : snaps'[t] = IF t = s THEN "purging" ELSE snaps[t]
        /\ Exists(s) /\ UNCHANGED objects /\ purge'.phase = "marked"
        /\ snaps[s] = "purging" \/ PastCutoff(s)
    BY <1>1 DEF StartPurge, Exists, IInv, TypeOK
  <2>2. UploadsFindKept'
    BY <1>0, <2>1 DEF BytesInv, UploadsFindKept, Exists, PastCutoff
  <2>3. BytesBeforeRows'
    BY <1>0, <2>1 DEF BytesInv, BytesBeforeRows, Exists
  <2>4. DeletedIsGone' /\ PayloadPresent' /\ TombstoneMeansGone'
    BY <2>1 DEF BytesInv, DeletedIsGone, PayloadPresent, TombstoneMeansGone
  <2>5. QED
    BY <2>2, <2>3, <2>4 DEF BytesInv
<1>2. CASE DeleteObject
  <2>1. /\ objects' = objects \ {purge.snap[1]} /\ UNCHANGED snaps
        /\ purge'.snap = purge.snap /\ purge.snap \in Snapshot
        /\ snaps[purge.snap] = "purging"
    BY <1>2 DEF DeleteObject, PurgeMarked, IInv, TypeOK
  <2>2. UploadsFindKept'
    BY <1>0, <2>1 DEF BytesInv, UploadsFindKept, Exists
  <2>3. BytesBeforeRows'
    <3>1. ASSUME NEW q \in Request, ~Exists(SnapOf(q)) PROVE req[q].content # purge.snap[1]
      <4>1. SnapOf(q) # purge.snap /\ SnapOf(q)[1] = req[q].content
        BY <2>1, <3>1 DEF Exists, SnapOf
      <4>2. QED
        BY <4>1, <2>1, <1>0, ContentIdentifiesSnapshot
    <3>2. QED
      BY <1>0, <2>1, <3>1 DEF BytesInv, BytesBeforeRows, Exists
  <2>4. PayloadPresent'
    <3>1. ASSUME NEW s \in Snapshot, snaps[s] = "kept" PROVE s[1] # purge.snap[1]
      BY <2>1, <3>1, ContentIdentifiesSnapshot
    <3>2. QED
      BY <2>1, <3>1 DEF BytesInv, PayloadPresent
  <2>5. DeletedIsGone' /\ TombstoneMeansGone'
    BY <2>1 DEF BytesInv, DeletedIsGone, TombstoneMeansGone
  <2>6. QED
    BY <2>2, <2>3, <2>4, <2>5 DEF BytesInv
<1>3. CASE FinishPurge
  <2>1. /\ \A t \in Snapshot : snaps'[t] = IF t = purge.snap THEN "purged" ELSE snaps[t]
        /\ purge.snap \in Snapshot /\ snaps[purge.snap] = "purging"
        /\ purge.snap[1] \notin objects
        /\ UNCHANGED objects /\ purge'.phase = "idle"
    BY <1>3 DEF FinishPurge, PurgeMarked, BytesInv, DeletedIsGone, IInv, TypeOK
  <2>2. UploadsFindKept' /\ BytesBeforeRows'
    BY <1>0, <2>1 DEF BytesInv, UploadsFindKept, BytesBeforeRows, Exists
  <2>3. DeletedIsGone' /\ PayloadPresent' /\ TombstoneMeansGone'
    BY <2>1 DEF BytesInv, DeletedIsGone, PayloadPresent, TombstoneMeansGone
  <2>4. QED
    BY <2>2, <2>3 DEF BytesInv
<1>4. CASE GiveUpPurge
  <2>1. UNCHANGED <<snaps, objects>> /\ purge'.phase = "idle"
    BY <1>4 DEF GiveUpPurge, IInv, TypeOK
  <2>2. QED
    BY <1>0, <2>1 DEF BytesInv, UploadsFindKept, BytesBeforeRows, DeletedIsGone,
       PayloadPresent, TombstoneMeansGone, Exists
<1>5. QED
  BY <1>1, <1>2, <1>3, <1>4 DEF Retention

(* With one acquisition mode, a retained snapshot keeps its bytes until a    *)
(* retention run has committed the marker, and a tombstone is only ever     *)
(* written over bytes that are gone: through crashes of the command,        *)
(* re-imports and races with uploads.                                       *)
THEOREM BytesFollowRows ==
    ASSUME OneMode
    PROVE  Spec => [](PayloadPresent /\ TombstoneMeansGone)
<1>1. Init => BytesInv
  BY DEF Init, BytesInv, UploadsFindKept, BytesBeforeRows, DeletedIsGone, PayloadPresent,
         TombstoneMeansGone, Exists
<1>2. ASSUME IInv, PurgeMarked, BytesInv, [Next]_vars PROVE BytesInv'
  <2>1. ASSUME NEW r \in Request, NEW k \in Key, NEW c \in Content, NEW m \in Mode,
               Submit(r, k, c, m)
        PROVE  BytesInv'
    <3>1. /\ \A q \in Request \ {r} : pc'[q] = pc[q] /\ req'[q] = req[q]
          /\ pc'[r] = "check" /\ UNCHANGED <<snaps, objects, purge>>
      BY <1>2, <2>1 DEF Submit, Goto, IInv, TypeOK
    <3>2. QED
      BY <1>2, <3>1 DEF BytesInv, UploadsFindKept, BytesBeforeRows, DeletedIsGone,
         PayloadPresent, TombstoneMeansGone, Exists, SnapOf
  <2>2. ASSUME NEW r \in Request, Ingest(r) PROVE BytesInv'
    BY <1>2, <2>2, IngestKeepsBytes
  <2>3. ASSUME NEW r \in Request, Abort(r) PROVE BytesInv'
    BY <1>2, <2>3, QuietStepKeepsBytes DEF Abort, Reply, Goto, IInv, TypeOK
  <2>4. ASSUME NEW r \in Request, NEW q \in Request, NEW victim \in Request,
               BreakDeadlock(r, q, victim)
        PROVE  BytesInv'
    BY <1>2, <2>4, QuietStepKeepsBytes DEF BreakDeadlock, Reply, Goto, IInv, TypeOK
  <2>5. ASSUME Retention PROVE BytesInv'
    BY <1>2, <2>5, RetentionKeepsBytes
  <2>6. ASSUME UNCHANGED vars PROVE BytesInv'
    BY <1>2, <2>6 DEF vars, BytesInv, UploadsFindKept, BytesBeforeRows, DeletedIsGone,
       PayloadPresent, TombstoneMeansGone, Exists, SnapOf
  <2>7. QED
    BY <1>2, <2>1, <2>2, <2>3, <2>4, <2>5, <2>6 DEF Next
<1>3. BytesInv => PayloadPresent /\ TombstoneMeansGone
  BY DEF BytesInv
<1>4. QED
  BY <1>1, <1>2, <1>3, InvariantHolds, PTL DEF Spec

(* The second of these on its own: a crash between the marker, the delete   *)
(* and the tombstone never leaves a tombstone over bytes that are there.    *)
COROLLARY TombstonesAreTrue ==
    ASSUME OneMode
    PROVE  Spec => []TombstoneMeansGone
BY BytesFollowRows, PTL

-----------------------------------------------------------------------------
(* With several modes, two records share an object, and a purge of one takes *)
(* the bytes of both: the one way in which bytes are lost.                   *)

\* A retention run has marked, and may have purged, a record of content c.
Marked(c) == \E t \in Snapshot : t[1] = c /\ snaps[t] \in {"purging", "purged"}

\* An unmarked record without its bytes shares them with one that was marked.
LostByMark ==
    \A s \in Snapshot : snaps[s] = "kept" =>
        \/ s[1] \in objects
        \/ \E t \in Snapshot \ {s} : t[1] = s[1] /\ snaps[t] \in {"purging", "purged"}

\* The same of a record that is about to be committed.
LossInv ==
    /\ \A s \in Snapshot : Exists(s) => s[1] \in objects \/ Marked(s[1])
    /\ \A r \in Request : pc[r] \in {"insert", "parse"} =>
           req[r].content \in objects \/ Marked(req[r].content)

(* A mark stays, as a marker or as a tombstone.                              *)
LEMMA MarksStay ==
    ASSUME IInv, PurgeMarked, [Next]_vars
    PROVE  \A c : Marked(c) => Marked(c)'
<1>1. \A t \in Snapshot : snaps[t] \in {"purging", "purged"} => snaps'[t] \in {"purging", "purged"}
  <2>1. ASSUME NEW r \in Request, CommitImport(r)
        PROVE  \A t \in Snapshot : snaps[t] \in {"purging", "purged"} => snaps'[t] = snaps[t]
    <3>1. snaps[SnapOf(r)] = "absent"
      BY <2>1 DEF CommitImport, IInv, SnapshotsHeld, HoldsSnapshot, Exists
    <3>2. QED
      BY <2>1, <3>1 DEF CommitImport, IInv, TypeOK
  <2>2. ASSUME NEW r \in Request, Ingest(r), ~CommitImport(r) PROVE UNCHANGED snaps
    BY <2>2 DEF Ingest, CheckJob, ReserveKey, MissSnapshot, ReplaySnapshot, PutObject,
                InsertSnapshot, LockHead, ReinsertJob
  <2>3. ASSUME Retention
        PROVE  \A t \in Snapshot : snaps[t] \in {"purging", "purged"} =>
                   snaps'[t] \in {"purging", "purged"}
    BY <2>3 DEF Retention, StartPurge, DeleteObject, FinishPurge, GiveUpPurge, IInv, TypeOK
  <2>4. QED
    BY <2>1, <2>2, <2>3 DEF Next, vars, Submit, Abort, BreakDeadlock
<1>2. QED
  BY <1>1 DEF Marked

LEMMA IngestKeepsLossInv ==
    ASSUME IInv, LossInv, NEW r \in Request, Ingest(r), \A c : Marked(c) => Marked(c)'
    PROVE  LossInv'
<1>0. SnapOf(r) \in Snapshot /\ SnapOf(r)[1] = req[r].content
  BY DEF IInv, TypeOK, SnapOf, Snapshot
<1>1. CASE PutObject(r)
  BY <1>1 DEF PutObject, Goto, IInv, TypeOK, LossInv, Exists
<1>2. CASE CommitImport(r)
  <2>1. /\ \A s \in Snapshot : Exists(s)' => Exists(s) \/ s = SnapOf(r)
        /\ \A q \in Request \ {r} : pc'[q] = pc[q]
        /\ pc[r] = "parse" /\ pc'[r] = "idle"
        /\ UNCHANGED <<objects, req>>
    BY <1>0, <1>2 DEF CommitImport, Reply, Goto, IInv, TypeOK, Exists
  <2>2. QED
    BY <1>0, <2>1 DEF LossInv
<1>3. CASE \/ CheckJob(r) \/ ReserveKey(r) \/ MissSnapshot(r) \/ ReplaySnapshot(r)
           \/ InsertSnapshot(r) \/ LockHead(r) \/ ReinsertJob(r)
  <2>1. /\ UNCHANGED <<snaps, objects, req>>
        /\ \A q \in Request \ {r} : pc'[q] = pc[q]
        /\ pc'[r] \in {"insert", "parse"} => pc[r] = "insert"
    BY <1>3 DEF CheckJob, ReserveKey, AnswerFromJob, MissSnapshot, ReplaySnapshot,
                InsertSnapshot, LockHead, ReinsertJob, Reply, Goto, IInv, TypeOK
  <2>2. QED
    BY <2>1 DEF LossInv, Exists
<1>4. QED
  BY <1>1, <1>2, <1>3 DEF Ingest

(* However many modes, uploads and retention runs there are, an unmarked     *)
(* record that lost its bytes lost them to a retention run that marked       *)
(* another record of the same content: neither a crash, a rollback nor a     *)
(* race between uploads leaves a record without its bytes.                   *)
THEOREM OnlyMarksLoseBytes == Spec => []LostByMark
<1>1. Init => LossInv
  BY DEF Init, LossInv, Exists
<1>2. ASSUME IInv, PurgeMarked, LossInv, [Next]_vars PROVE LossInv'
  <2>0. \A c : Marked(c) => Marked(c)'
    BY <1>2, MarksStay
  <2>1. ASSUME NEW r \in Request, UNCHANGED <<snaps, objects>>,
               \A q \in Request \ {r} : pc'[q] = pc[q] /\ req'[q] = req[q],
               pc'[r] \in {"idle", "check"}
        PROVE  LossInv'
    BY <1>2, <2>0, <2>1 DEF LossInv, Exists
  <2>2. ASSUME NEW r \in Request, NEW k \in Key, NEW c \in Content, NEW m \in Mode,
               Submit(r, k, c, m)
        PROVE  LossInv'
    BY <1>2, <2>1, <2>2 DEF Submit, Goto, IInv, TypeOK
  <2>3. ASSUME NEW r \in Request, Ingest(r) PROVE LossInv'
    BY <1>2, <2>0, <2>3, IngestKeepsLossInv
  <2>4. ASSUME NEW r \in Request, Abort(r) PROVE LossInv'
    BY <1>2, <2>1, <2>4 DEF Abort, Reply, Goto, IInv, TypeOK
  <2>5. ASSUME NEW r \in Request, NEW q \in Request, NEW victim \in Request,
               BreakDeadlock(r, q, victim)
        PROVE  LossInv'
    BY <1>2, <2>1, <2>5 DEF BreakDeadlock, Reply, Goto, IInv, TypeOK
  <2>6. ASSUME Retention PROVE LossInv'
    <3>1. /\ \A s \in Snapshot : Exists(s)' => Exists(s)
          /\ UNCHANGED <<pc, req>>
          /\ objects' = objects \/ (purge.phase = "marked" /\ objects' = objects \ {purge.snap[1]})
      <4>1. ASSUME NEW t \in Snapshot, StartPurge(t) \/ (FinishPurge /\ t = purge.snap)
            PROVE  Exists(t) /\ \A s \in Snapshot \ {t} : snaps'[s] = snaps[s]
        BY <1>2, <4>1 DEF StartPurge, FinishPurge, PurgeMarked, IInv, TypeOK, Exists
      <4>2. purge.snap \in Snapshot
        BY <1>2 DEF IInv, TypeOK
      <4>3. (\A s \in Snapshot : Exists(s)' => Exists(s))
        BY <2>6, <4>1, <4>2 DEF Retention, DeleteObject, GiveUpPurge, Exists
      <4>4. QED
        BY <2>6, <4>3 DEF Retention, StartPurge, DeleteObject, FinishPurge, GiveUpPurge
    <3>2. purge.phase = "marked" => Marked(purge.snap[1])
      BY <1>2 DEF PurgeMarked, Marked, IInv, TypeOK
    <3>3. \A c : c \in objects \/ Marked(c) => c \in objects' \/ Marked(c)'
      BY <2>0, <3>1, <3>2
    <3>4. QED
      BY <1>2, <3>1, <3>3 DEF LossInv
  <2>7. ASSUME UNCHANGED vars PROVE LossInv'
    BY <1>2, <2>0, <2>7 DEF vars, LossInv, Exists
  <2>8. QED
    BY <1>2, <2>2, <2>3, <2>4, <2>5, <2>6, <2>7 DEF Next
<1>3. LossInv => LostByMark
  BY DEF LossInv, LostByMark, Marked, Exists
<1>4. QED
  BY <1>1, <1>2, <1>3, InvariantHolds, PTL DEF Spec

-----------------------------------------------------------------------------
(* Waiting.  Uploads wait for each other on three things: a pending job row  *)
(* of the same key, a pending snapshot of the same bytes, and the audit      *)
(* chain head.                                                               *)

\* The guards of ingest's statements: r's next one is not waiting.
Granted(r) ==
    \/ pc[r] \in {"check", "store"}
    \/ pc[r] \in {"reserve", "reinsert"} /\ KeyFree(r)
    \/ pc[r] = "lookup" /\ (~Exists(SnapOf(r)) \/ head = NoRequest)
    \/ pc[r] = "insert" /\ SnapFree(r)
    \/ pc[r] \in {"parse", "replay"} /\ head = NoRequest

\* The guard of BreakDeadlock: there is a circle, and the database sees it.
Caught ==
    \E r, q \in Request :
        /\ pc[r] = "reinsert"
        /\ HoldsKey(q) /\ KeyOf(q) = KeyOf(r)
        /\ WaitsForHead(q) # {}

\* The head is held across statements by the replay after a rollback only.
HeadHeld ==
    /\ head # NoRequest => pc[head] = "reinsert"
    /\ \A r \in Request : pc[r] = "reinsert" => head = r

\* As long as an upload runs, some upload goes on or the database breaks a circle.
NeverStuck ==
    (\E r \in Request : pc[r] # "idle") => (\E r \in Request : Granted(r)) \/ Caught

(* A step of r that leaves the head alone and is not about "reinsert".       *)
LEMMA HeadUntouched ==
    ASSUME TypeOK, HeadHeld, NEW r \in Request, NEW step \in Steps,
           pc[r] # "reinsert", step # "reinsert",
           Goto(r, step), UNCHANGED head
    PROVE  HeadHeld'
BY NullsAssumption DEF TypeOK, HeadHeld, Goto

(* A transaction that ends gives the head up if it had it.                   *)
LEMMA HeadGivenUp ==
    ASSUME TypeOK, HeadHeld, NEW r \in Request,
           Goto(r, "idle"), head' = IF pc[r] = "reinsert" THEN NoRequest ELSE head
    PROVE  HeadHeld'
BY NullsAssumption DEF TypeOK, HeadHeld, Goto

LEMMA NextKeepsHead ==
    ASSUME TypeOK, HeadHeld, [Next]_vars
    PROVE  HeadHeld'
<1>1. ASSUME NEW r \in Request, NEW k \in Key, NEW c \in Content, NEW m \in Mode,
             Submit(r, k, c, m)
      PROVE  HeadHeld'
  BY <1>1, HeadUntouched DEF Submit, Steps
<1>2. ASSUME NEW r \in Request, Ingest(r) PROVE HeadHeld'
  <2>1. CASE \/ CheckJob(r) \/ ReserveKey(r) \/ MissSnapshot(r) \/ ReplaySnapshot(r)
             \/ PutObject(r) \/ InsertSnapshot(r) \/ CommitImport(r)
    <3>1. /\ pc[r] # "reinsert" /\ UNCHANGED head
          /\ \E step \in Steps \ {"reinsert"} : Goto(r, step)
      BY <2>1 DEF CheckJob, ReserveKey, AnswerFromJob, MissSnapshot, ReplaySnapshot,
                  PutObject, InsertSnapshot, CommitImport, Reply, Steps
    <3>2. QED
      BY <3>1, HeadUntouched
  <2>2. CASE LockHead(r)
    BY <2>2, NullsAssumption DEF LockHead, TypeOK, HeadHeld, Goto
  <2>3. CASE ReinsertJob(r)
    <3>1. pc[r] = "reinsert" /\ head' = NoRequest /\ Goto(r, "idle")
      BY <2>3 DEF ReinsertJob, Reply
    <3>2. QED
      BY <3>1, HeadGivenUp
  <2>4. QED
    BY <1>2, <2>1, <2>2, <2>3 DEF Ingest
<1>3. ASSUME NEW r \in Request, Abort(r) PROVE HeadHeld'
  <2>1. head = r <=> pc[r] = "reinsert"
    BY NullsAssumption DEF HeadHeld
  <2>2. Goto(r, "idle") /\ head' = IF head = r THEN NoRequest ELSE head
    BY <1>3 DEF Abort, Reply
  <2>3. QED
    BY <2>1, <2>2, HeadGivenUp
<1>4. ASSUME NEW r \in Request, NEW q \in Request, NEW victim \in Request,
             BreakDeadlock(r, q, victim)
      PROVE  HeadHeld'
  <2>1. pc[r] = "reinsert" /\ head = r
    BY <1>4 DEF BreakDeadlock, HeadHeld
  <2>2. victim = r \/ pc[victim] # "reinsert"
    BY <1>4 DEF BreakDeadlock, HoldsKey, WaitsForHead, NeedsHead
  <2>3. Goto(victim, "idle") /\ head' = IF victim = r THEN NoRequest ELSE head
    BY <1>4 DEF BreakDeadlock, Reply
  <2>4. QED
    BY <2>1, <2>2, <2>3, HeadGivenUp
<1>5. ASSUME Retention PROVE HeadHeld'
  BY <1>5 DEF Retention, StartPurge, DeleteObject, FinishPurge, GiveUpPurge, HeadHeld
<1>6. ASSUME UNCHANGED vars PROVE HeadHeld'
  BY <1>6 DEF vars, HeadHeld
<1>7. QED
  BY <1>1, <1>2, <1>3, <1>4, <1>5, <1>6 DEF Next

(* With the head free, the uploads are ordered by where they stand: one that *)
(* parses waits for nobody, and one that waits for a key or for a snapshot   *)
(* waits for one that is further on.                                         *)
LEMMA HeadFreeMoves ==
    ASSUME TypeOK, HeadHeld, head = NoRequest, NEW r \in Request, pc[r] # "idle"
    PROVE  \E q \in Request : Granted(q)
<1>1. \A q \in Request : pc[q] # "reinsert"
  BY NullsAssumption DEF HeadHeld
<1>2. CASE \E q \in Request : pc[q] \in {"check", "lookup", "store", "parse", "replay"}
  BY <1>2 DEF Granted
<1>3. CASE \A q \in Request : pc[q] \notin {"check", "lookup", "store", "parse", "replay"}
  <2>1. \A q \in Request : pc[q] \in {"idle", "reserve", "insert"}
    BY <1>1, <1>3 DEF TypeOK, Steps
  <2>2. \A q \in Request : pc[q] = "insert" => Granted(q)
    BY <1>3 DEF Granted, SnapFree, HoldsSnapshot
  <2>3. (\A q \in Request : pc[q] # "insert") => \A q \in Request : KeyFree(q)
    BY <2>1 DEF KeyFree, HoldsKey
  <2>4. QED
    BY <2>1, <2>2, <2>3 DEF Granted
<1>4. QED
  BY <1>2, <1>3

(* With the head held, its holder waits for its key or for nothing, and the  *)
(* one it waits for goes on or leads back to the head.                       *)
LEMMA HeadHeldMoves ==
    ASSUME TypeOK, HeadHeld, head # NoRequest
    PROVE  (\E q \in Request : Granted(q)) \/ Caught
<1>1. head \in Request /\ pc[head] = "reinsert"
  BY DEF TypeOK, HeadHeld
<1>2. CASE KeyFree(head)
  BY <1>1, <1>2 DEF Granted
<1>3. CASE ~KeyFree(head)
  <2>1. PICK q \in Request : HoldsKey(q) /\ KeyOf(q) = KeyOf(head)
    BY <1>3 DEF KeyFree
  <2>2. CASE WaitsForHead(q) # {}
    BY <1>1, <2>1, <2>2 DEF Caught
  <2>3. CASE WaitsForHead(q) = {}
    <3>1. ~NeedsHead(q)
      BY <2>3 DEF WaitsForHead
    <3>2. pc[q] = "insert" => SnapFree(q)
      BY <2>3 DEF WaitsForHead, SnapFree, NeedsHead, HoldsSnapshot
    <3>3. QED
      BY <2>1, <3>1, <3>2 DEF Granted, NeedsHead, HoldsKey
  <2>4. QED
    BY <2>2, <2>3
<1>4. QED
  BY <1>2, <1>3

(* Uploads never all wait on each other: whenever one is running, a running  *)
(* one may execute its next statement, or the transactions that wait stand   *)
(* in a circle of two or three through the audit head that the database      *)
(* detects.  It is what the lock order of ingest owes to EveryUploadEnds.    *)
THEOREM UploadsNeverStuck == Spec => []NeverStuck
<1>1. Init => HeadHeld
  BY DEF Init, HeadHeld
<1>2. TypeOK /\ HeadHeld /\ [Next]_vars => HeadHeld'
  BY NextKeepsHead
<1>3. TypeOK /\ HeadHeld => NeverStuck
  BY HeadFreeMoves, HeadHeldMoves DEF NeverStuck
<1>4. QED
  BY <1>1, <1>2, <1>3, TypeCorrect, PTL DEF Spec
=============================================================================
