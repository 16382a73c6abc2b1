--------------------------- MODULE DispatchPolling ---------------------------
(***************************************************************************)
(* The scheduled polling of one provider (providers/polling.py): the       *)
(* database lease between the workers of several API processes, the        *)
(* recovery of retained retrievals before a new one is collected, the      *)
(* commit of the raw snapshot apart from the commit of its incidents, the  *)
(* provider health row, and the repair command that shares the lease.      *)
(*                                                                         *)
(* POLLING_RUN_LOCK serialises the cycles of one process, so a process     *)
(* runs one cycle at a time.  Its steps are its database commits and the   *)
(* reads they are based on.  Ingestion (SnapshotIngestion) appears here as *)
(* the commit it ends in, incident assembly (IncidentLedger) as the moment *)
(* it takes the provider's row and looks around, and its commit.           *)
(***************************************************************************)
EXTENDS Naturals, FiniteSets

CONSTANTS
    Worker,         \* API processes with the polling worker enabled
    Repairer,       \* runs of scripts/recover_dispatch_processing.py
    Page,           \* contents the county source may serve
    Upload,         \* snapshots operators upload for the same provider
    Usable,         \* those whose parse yields observations
    Nobody,         \* no process
    Operator,       \* whoever uploads by hand
    NoPage,         \* nothing fetched
    MaxFaults       \* bound: crashes and database errors

Process == Worker \cup Repairer
Assembler == Process \cup {Operator}
Retrieval == Page \cup Upload
Threshold == 3      \* failures that open the circuit; counted no further

ASSUME MaxFaultsAssumption == MaxFaults \in Nat
ASSUME NamesAssumption ==
    /\ Nobody \notin Process \cup {Operator}
    /\ Operator \notin Process
    /\ NoPage \notin Retrieval
    /\ Worker \cap Repairer = {}
    /\ Usable \subseteq Retrieval

VARIABLES
    lease,          \* the ProviderPollLease row; absent while owner = Nobody
    enabled,        \* Provider.enabled
    health,         \* the counting columns of ProviderHealth
    keeper,         \* retrieval -> who committed it, or Nobody
    assembled,      \* retrievals with a completed processing run
    target,         \* assembler -> retrieval it is assembling; it holds the
                    \* provider's row for as long
    seen,           \* assembler -> assembled as it found it with the row
    pc,             \* process -> its next step
    todo,           \* process -> retrievals its recovery still has to finish
    page,           \* process -> what it fetched
    sawOwner,       \* process -> lease_owner it read before claiming
    sawHealth,      \* process -> the health row it read in this transaction
    faults          \* crashes and database errors so far

vars == <<lease, enabled, health, keeper, assembled, target, seen, pc, todo, page,
          sawOwner, sawHealth, faults>>

Health == [failures : 0..Threshold, circuit : {"closed", "open"}]
Healthy == [failures |-> 0, circuit |-> "closed"]
Steps == {"idle", "claim", "list", "recover", "fetch", "save", "process", "close",
          "fail", "dead", "down"}

TypeOK ==
    /\ lease \in [owner : Process \cup {Nobody}, live : BOOLEAN]
    /\ enabled \in BOOLEAN
    /\ health \in Health
    /\ keeper \in [Retrieval -> Process \cup {Nobody, Operator}]
    /\ assembled \subseteq Retrieval
    /\ target \in [Assembler -> Retrieval \cup {NoPage}]
    /\ seen \in [Assembler -> SUBSET Retrieval]
    /\ pc \in [Process -> Steps]
    /\ todo \in [Process -> SUBSET Retrieval]
    /\ page \in [Process -> Page \cup {NoPage}]
    /\ sawOwner \in [Process -> Process \cup {Nobody}]
    /\ sawHealth \in [Process -> Health]
    /\ faults \in 0..MaxFaults

Init ==
    /\ lease = [owner |-> Nobody, live |-> FALSE]
    /\ enabled = TRUE
    /\ health = Healthy
    /\ keeper = [x \in Retrieval |-> Nobody]
    /\ assembled = {}
    /\ target = [a \in Assembler |-> NoPage]
    /\ seen = [a \in Assembler |-> {}]
    /\ pc = [p \in Process |-> "idle"]
    /\ todo = [p \in Process |-> {}]
    /\ page = [p \in Process |-> NoPage]
    /\ sawOwner = [p \in Process |-> Nobody]
    /\ sawHealth = [p \in Process |-> Healthy]
    /\ faults = 0

-----------------------------------------------------------------------------
Kept(x) == keeper[x] # Nobody

\* unprocessed_retrievals: rows were accepted, no completed run.
Pending == {x \in Usable : Kept(x) /\ x \notin assembled}

\* Between acquiring the lease and giving it back.
InCycle(p) == pc[p] \in {"list", "recover", "fetch", "save", "process", "close", "fail"}

Goto(p, step) == pc' = [pc EXCEPT ![p] = step]
ReadHealth(p) == sawHealth' = [sawHealth EXCEPT ![p] = health]
ForgetHealth(p) == sawHealth' = [sawHealth EXCEPT ![p] = Healthy]
Fault == faults < MaxFaults /\ faults' = faults + 1

\* Nobody's transaction has updated the provider's row.
RowFree == \A a \in Assembler : target[a] = NoPage

\* Fault: the update that takes the row is left out.
StartUnlocked(a, x) ==
    /\ target' = [target EXCEPT ![a] = x]
    /\ seen' = [seen EXCEPT ![a] = assembled]

\* process_retrieval updates the provider's row, which waits for whoever has
\* updated it, and only then looks for runs, links and candidate incidents.
StartAssembly(a, x) ==
    /\ RowFree
    /\ target' = [target EXCEPT ![a] = x]
    /\ seen' = [seen EXCEPT ![a] = assembled]

\* A commit or a rollback gives the row back.
LetGo(a) ==
    /\ target' = [target EXCEPT ![a] = NoPage]
    /\ seen' = [seen EXCEPT ![a] = {}]

\* ... and the caller's commit: a completed run is returned as it is.
FinishAssembly(a) ==
    /\ assembled' = IF target[a] \in seen[a] THEN assembled ELSE assembled \cup {target[a]}
    /\ LetGo(a)

\* The ORM updates the columns that differ from what the transaction read.
Column(saw, new, row) == IF new # saw THEN new ELSE row

CountFailure(n) == IF n < Threshold THEN n + 1 ELSE Threshold

\* Fault: a state the readers of the row do not know.
HalfOpenCircuit(n) == IF n >= Threshold THEN "open" ELSE IF n > 0 THEN "half_open" ELSE "closed"

CircuitFor(n) == IF n >= Threshold THEN "open" ELSE "closed"

\* Fault: the circuit is only touched when the count crosses the threshold.
OpenAtThreshold(p) ==
    health' = [failures |-> CountFailure(sawHealth[p].failures),
               circuit |-> IF CountFailure(sawHealth[p].failures) = Threshold
                           THEN "open" ELSE health.circuit]

\* A failed attempt: failure_count + 1 always differs from what was read.
RecordFailure(p) ==
    health' = [failures |-> CountFailure(sawHealth[p].failures),
               circuit |-> Column(sawHealth[p].circuit,
                                  CircuitFor(CountFailure(sawHealth[p].failures)),
                                  health.circuit)]

RecordSuccess(p) ==
    health' = [failures |-> Column(sawHealth[p].failures, 0, health.failures),
               circuit |-> Column(sawHealth[p].circuit, "closed", health.circuit)]

-----------------------------------------------------------------------------
(* A polling cycle, or a run of the repair command. *)

\* A disabled provider or a lease held by another process: the cycle is
\* recorded as skipped, the repair command reports it.
Skip(p) ==
    /\ pc[p] = "idle"
    /\ ~enabled \/ (lease.live /\ lease.owner # p)
    /\ UNCHANGED vars

\* _acquire_lease reads the row; somebody else's live lease ends the cycle.
ReadLease(p) ==
    /\ pc[p] = "idle"
    /\ enabled
    /\ p \in Repairer => Pending # {}
    /\ ~lease.live \/ lease.owner = p
    /\ sawOwner' = [sawOwner EXCEPT ![p] = lease.owner]
    /\ Goto(p, "claim")
    /\ UNCHANGED <<lease, enabled, health, keeper, assembled, target, seen, todo, page, sawHealth, faults>>

\* ... and writes what it decided, whatever the row says by now: an insert
\* loses against another insert, an update does not look again.
Claim(p) ==
    /\ pc[p] = "claim"
    /\ sawOwner' = [sawOwner EXCEPT ![p] = Nobody]
    /\ IF sawOwner[p] = Nobody /\ lease.owner # Nobody
       THEN Goto(p, "idle") /\ UNCHANGED lease
       ELSE /\ lease' = [owner |-> Column(sawOwner[p], p, lease.owner), live |-> TRUE]
            /\ Goto(p, "list")
    /\ UNCHANGED <<enabled, health, keeper, assembled, target, seen, todo, page, sawHealth, faults>>

\* Fault: recovery looks at live retrievals only.
ListLive(p) ==
    /\ pc[p] = "list"
    /\ todo' = [todo EXCEPT ![p] = Pending \ Upload]
    /\ Goto(p, "recover")
    /\ UNCHANGED <<lease, enabled, health, keeper, assembled, target, seen, page, sawOwner, sawHealth, faults>>

\* unprocessed_retrievals, as of now.
ListPending(p) ==
    /\ pc[p] = "list"
    /\ todo' = [todo EXCEPT ![p] = Pending]
    /\ Goto(p, "recover")
    /\ UNCHANGED <<lease, enabled, health, keeper, assembled, target, seen, page, sawOwner, sawHealth, faults>>

\* Each recovered retrieval is a transaction of its own.
StartRecovery(p, x) ==
    /\ pc[p] = "recover"
    /\ target[p] = NoPage
    /\ x \in todo[p]
    /\ StartAssembly(p, x)
    /\ UNCHANGED <<lease, enabled, health, keeper, assembled, pc, todo, page, sawOwner,
                   sawHealth, faults>>

RecoverOne(p) ==
    /\ pc[p] = "recover"
    /\ target[p] # NoPage
    /\ todo' = [todo EXCEPT ![p] = @ \ {target[p]}]
    /\ FinishAssembly(p)
    /\ UNCHANGED <<lease, enabled, health, keeper, pc, page, sawOwner, sawHealth, faults>>

\* Fault: the source is polled although recovery has not finished.
CollectAnyway(p) ==
    /\ pc[p] = "recover"
    /\ target[p] = NoPage
    /\ todo' = [todo EXCEPT ![p] = {}]
    /\ IF p \in Worker
       THEN Goto(p, "fetch") /\ UNCHANGED lease
       ELSE Goto(p, "idle") /\ lease' = [lease EXCEPT !.live = FALSE]
    /\ UNCHANGED <<enabled, health, keeper, assembled, target, seen, page, sawOwner, sawHealth, faults>>

\* Fault: the repair command waits for more work instead of ending.
KeepWaiting(p) ==
    /\ pc[p] = "recover"
    /\ todo[p] = {}
    /\ p \in Worker
    /\ Goto(p, "fetch")
    /\ UNCHANGED <<lease, enabled, health, keeper, assembled, target, seen, todo, page, sawOwner,
                   sawHealth, faults>>

\* Everything recovered: a worker goes on to the source, the repair command
\* gives the lease back.
EndRecovery(p) ==
    /\ pc[p] = "recover"
    /\ todo[p] = {}
    /\ IF p \in Worker
       THEN Goto(p, "fetch") /\ UNCHANGED lease
       ELSE Goto(p, "idle") /\ lease' = [lease EXCEPT !.live = FALSE]
    /\ UNCHANGED <<enabled, health, keeper, assembled, target, seen, todo, page, sawOwner, sawHealth, faults>>

\* adapter.retrieve, and the health row ingestion then reads.
Fetch(p, x) ==
    /\ pc[p] = "fetch"
    /\ page' = [page EXCEPT ![p] = x]
    /\ ReadHealth(p)
    /\ Goto(p, "save")
    /\ UNCHANGED <<lease, enabled, health, keeper, assembled, target, seen, todo, sawOwner, faults>>

FetchFails(p) ==
    /\ pc[p] = "fetch"
    /\ ReadHealth(p)
    /\ Goto(p, "fail")
    /\ UNCHANGED <<lease, enabled, health, keeper, assembled, target, seen, todo, page, sawOwner, faults>>

\* The commit of ingest: a new page is kept and counted in the health row; a
\* page seen before is replayed and touches nothing.
Save(p) ==
    /\ pc[p] = "save"
    /\ IF Kept(page[p])
       THEN UNCHANGED <<keeper, health>>
       ELSE /\ keeper' = [keeper EXCEPT ![page[p]] = p]
            /\ IF page[p] \in Usable THEN RecordSuccess(p) ELSE RecordFailure(p)
    /\ ForgetHealth(p)
    /\ Goto(p, "process")
    /\ UNCHANGED <<lease, enabled, assembled, target, seen, todo, page, sawOwner, faults>>

\* The second transaction of the cycle: assembly, then the health row.
BeginProcessing(p) ==
    /\ pc[p] = "process"
    /\ IF page[p] \in Usable THEN StartAssembly(p, page[p]) ELSE UNCHANGED <<target, seen>>
    /\ ReadHealth(p)
    /\ Goto(p, "close")
    /\ UNCHANGED <<lease, enabled, health, keeper, assembled, todo, page, sawOwner, faults>>

\* Its commit: the incidents, the health of a usable page, and the lease
\* given back whoever owns it by now.
Close(p) ==
    /\ pc[p] = "close"
    /\ IF page[p] \in Usable
       THEN FinishAssembly(p) /\ RecordSuccess(p)
       ELSE UNCHANGED <<assembled, target, seen, health>>
    /\ lease' = [lease EXCEPT !.live = FALSE]
    /\ page' = [page EXCEPT ![p] = NoPage]
    /\ ForgetHealth(p)
    /\ Goto(p, "idle")
    /\ UNCHANGED <<enabled, keeper, todo, sawOwner, faults>>

-----------------------------------------------------------------------------
(* Failures. *)

\* An error while recovering, saving or processing: the transaction is
\* rolled back and _fail starts one of its own.
StepFails(p) ==
    /\ \/ pc[p] = "recover" /\ todo[p] # {}
       \/ pc[p] \in {"save", "close"}
    /\ Fault
    /\ todo' = [todo EXCEPT ![p] = {}]
    /\ page' = [page EXCEPT ![p] = NoPage]
    /\ LetGo(p)
    /\ ReadHealth(p)
    /\ Goto(p, "fail")
    /\ UNCHANGED <<lease, enabled, health, keeper, assembled, sawOwner>>

\* _fail: one more failure, and the lease given back.
Fail(p) ==
    /\ pc[p] = "fail"
    /\ RecordFailure(p)
    /\ lease' = [lease EXCEPT !.live = FALSE]
    /\ ForgetHealth(p)
    /\ Goto(p, "idle")
    /\ UNCHANGED <<enabled, keeper, assembled, target, seen, todo, page, sawOwner, faults>>

\* An error outside the try block, in _fail or while claiming, ends the
\* worker's task for good; the repair command exits.
TaskDies(p) ==
    /\ pc[p] \in {"claim", "fail"}
    /\ Fault
    /\ sawOwner' = [sawOwner EXCEPT ![p] = Nobody]
    /\ ForgetHealth(p)
    /\ Goto(p, IF p \in Worker THEN "dead" ELSE "idle")
    /\ UNCHANGED <<lease, enabled, health, keeper, assembled, target, seen, todo, page>>

\* The process stops anywhere: uncommitted work is gone, the lease stays.
Crash(p) ==
    /\ pc[p] # "down"
    /\ p \in Repairer => pc[p] # "idle"
    /\ Fault
    /\ todo' = [todo EXCEPT ![p] = {}]
    /\ page' = [page EXCEPT ![p] = NoPage]
    /\ sawOwner' = [sawOwner EXCEPT ![p] = Nobody]
    /\ LetGo(p)
    /\ ForgetHealth(p)
    /\ Goto(p, IF p \in Worker THEN "down" ELSE "idle")
    /\ UNCHANGED <<lease, enabled, health, keeper, assembled>>

\* lifespan: seed_providers writes enabled_by_default over the row.
Restart(p) ==
    /\ pc[p] \in {"down", "dead"}
    /\ enabled \/ RowFree
    /\ enabled' = TRUE
    /\ Goto(p, "idle")
    /\ UNCHANGED <<lease, health, keeper, assembled, target, seen, todo, page, sawOwner, sawHealth, faults>>

-----------------------------------------------------------------------------
(* The rest of the system. *)

\* LEASE_SECONDS pass; a cycle can take longer than that.
LeaseExpires ==
    /\ lease.live
    /\ lease' = [lease EXCEPT !.live = FALSE]
    /\ UNCHANGED <<enabled, health, keeper, assembled, target, seen, pc, todo, page, sawOwner,
                   sawHealth, faults>>

\* disable_provider; no route enables a provider again.
Disable ==
    /\ enabled
    /\ RowFree
    /\ enabled' = FALSE
    /\ UNCHANGED <<lease, health, keeper, assembled, target, seen, pc, todo, page, sawOwner,
                   sawHealth, faults>>

\* An operator uploads a snapshot of this provider, which counts in the same
\* health row and leaves a pending retrieval.
UploadSnapshot(x) ==
    /\ ~Kept(x)
    /\ keeper' = [keeper EXCEPT ![x] = Operator]
    /\ health' = IF x \in Usable THEN Healthy
                 ELSE [failures |-> CountFailure(health.failures),
                       circuit |-> CircuitFor(CountFailure(health.failures))]
    /\ UNCHANGED <<lease, enabled, assembled, target, seen, pc, todo, page, sawOwner, sawHealth, faults>>

\* The process route of the incidents API.
StartByHand(x) ==
    /\ x \in Pending
    /\ StartAssembly(Operator, x)
    /\ UNCHANGED <<lease, enabled, health, keeper, assembled, pc, todo, page, sawOwner,
                   sawHealth, faults>>

EndByHand ==
    /\ target[Operator] # NoPage
    /\ FinishAssembly(Operator)
    /\ UNCHANGED <<lease, enabled, health, keeper, pc, todo, page, sawOwner, sawHealth, faults>>

ByHandFails ==
    /\ target[Operator] # NoPage
    /\ Fault
    /\ LetGo(Operator)
    /\ UNCHANGED <<lease, enabled, health, keeper, assembled, pc, todo, page, sawOwner,
                   sawHealth>>

-----------------------------------------------------------------------------
Continue(p) ==
    \/ Claim(p)
    \/ ListPending(p)
    \/ \E x \in Retrieval : StartRecovery(p, x)
    \/ RecoverOne(p)
    \/ EndRecovery(p)
    \/ \E x \in Page : Fetch(p, x)
    \/ FetchFails(p)
    \/ Save(p)
    \/ BeginProcessing(p)
    \/ Close(p)
    \/ Fail(p)

Disturb(p) == StepFails(p) \/ TaskDies(p) \/ Crash(p)

Environment ==
    \/ LeaseExpires
    \/ Disable
    \/ \E x \in Upload : UploadSnapshot(x)
    \/ \E x \in Usable : StartByHand(x)
    \/ EndByHand
    \/ ByHandFails

Next ==
    \/ \E p \in Process : Skip(p) \/ ReadLease(p) \/ Continue(p) \/ Disturb(p) \/ Restart(p)
    \/ Environment

\* The worker's loop starts the next cycle (asyncio.sleep ends), a started
\* cycle keeps going, and time passes; the queue of a row lock lets nobody
\* wait for ever, and a request ends.  Nobody has to restart a process, run
\* the repair command or upload anything.
Fairness ==
    /\ \A p \in Worker : WF_vars(ReadLease(p))
    /\ \A p \in Process : SF_vars(Continue(p))
    /\ WF_vars(EndByHand)
    /\ WF_vars(LeaseExpires)

Spec == Init /\ [][Next]_vars /\ Fairness

-----------------------------------------------------------------------------
(* "Finish retained live snapshots before collecting another one": through *)
(* crashes, failed assemblies, stolen leases and overlapping cycles a      *)
(* worker never leaves a second page of its own without incidents.         *)
WorkerBacklog ==
    \A w \in Worker : Cardinality({x \in Pending : keeper[x] = w}) <= 1

(* "Serialize incident assembly per provider" (incidents/service.py:791):  *)
(* the pages of a provider repeat each other's observations, so an assembly *)
(* that misses what another is about to commit opens a second incident for  *)
(* the same call.  Workers whose lease ran out, the repair command and      *)
(* operators assemble whenever they like, from lists that are out of date;  *)
(* still each of them works on everything assembled so far.                 *)
AssemblyIsSerial ==
    \A a \in Assembler : target[a] # NoPage => seen[a] = assembled

(* A lost update can leave an open circuit beside a count of zero, but not *)
(* for long: whoever next writes a row it read unchanged makes the two     *)
(* columns agree again.                                                    *)
CircuitSelfHeals ==
    [][\A p \in Process :
          (Fail(p) \/ (Close(p) /\ page[p] \in Usable)) /\ sawHealth[p] = health
              => (health'.circuit = "open" <=> health'.failures = Threshold)]_vars

(* A retained retrieval reaches its incidents as long as some worker lives *)
(* and the provider stays enabled: "Lease expiry permits recovery after a  *)
(* crashed process" (docs/execution/sarasota-live-polling.md).             *)
KeptIsAssembled ==
    \A x \in Usable :
        Kept(x) ~> \/ x \in assembled
                   \/ ~enabled
                   \/ \A w \in Worker : pc[w] \in {"down", "dead"}

(* No cycle is stuck: whoever holds the lease gives it back or dies.       *)
EveryCycleEnds ==
    \A p \in Process : InCycle(p) ~> ~InCycle(p)

(* "A provider-scoped database lease prevents overlapping workers."        *)
(* (docs/execution/sarasota-live-polling.md)                               *)
NoOverlap ==
    \A p, q \in Process : InCycle(p) /\ InCycle(q) => p = q
=============================================================================
