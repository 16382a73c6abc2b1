------------------------------ MODULE AuditChain ------------------------------
(***************************************************************************)
(* The audit chain (audit.py) on SQLite, the database of the packaged and  *)
(* local deployments.  Two locks guard it: a file lock that record_audit   *)
(* takes and the Session's commit and rollback hooks release, and SQLite's *)
(* single write lock, taken by a transaction's first write and held to its *)
(* end.  A select outside the write lock reads the last commit.  On        *)
(* PostgreSQL the row lock of the chain head plays the file lock's part    *)
(* and no hook releases it, which is the case Nested = {}.                 *)
(***************************************************************************)
EXTENDS Naturals

CONSTANTS
    Writer,         \* sessions that write and audit
    Nested,         \* the ones that use savepoints: generate_alerts, outcomes
    Nobody,         \* a free lock
    MaxEvents       \* bound: calls of record_audit

ASSUME NestedAssumption == Nested \subseteq Writer
ASSUME NobodyAssumption == Nobody \notin Writer
ASSUME MaxEventsAssumption == MaxEvents \in Nat

VARIABLES
    events,         \* committed audit_events rows
    head,           \* the committed audit_chain_heads row
    flock,          \* holder of the file lock
    dblock,         \* holder of SQLite's write lock
    draft,          \* events the write lock's holder inserted, uncommitted
    tip,            \* the chain head as that transaction would commit it
    pc,             \* writer -> what its session does next
    id,             \* writer -> the id of the event it records
    view,           \* writer -> the head record_audit read
    drawn,          \* ids drawn so far
    answer          \* writer -> how its last transaction ended

vars == <<events, head, flock, dblock, draft, tip, pc, id, view, drawn, answer>>

\* The id of an event also stands for the digest of its row; 0 is the empty previous hash.
Hash == 0..MaxEvents
Event == [sequence : Nat \ {0}, previous : Hash, hash : Hash]
Head == [sequence : Nat, hash : Hash]
Steps == {"idle", "work", "write", "lock", "read", "insert"}
Answers == {"none", "committed", "rolled_back", "locked", "duplicate"}

TypeOK ==
    /\ events \subseteq Event /\ draft \subseteq Event
    /\ head \in Head /\ tip \in Head
    /\ flock \in Writer \cup {Nobody} /\ dblock \in Writer \cup {Nobody}
    /\ pc \in [Writer -> Steps]
    /\ id \in [Writer -> Hash]
    /\ view \in [Writer -> Head]
    /\ drawn \in 0..MaxEvents
    /\ answer \in [Writer -> Answers]

\* Migration 0019 seeds the head row.
Init ==
    /\ events = {} /\ draft = {}
    /\ head = [sequence |-> 0, hash |-> 0]
    /\ tip = head
    /\ flock = Nobody /\ dblock = Nobody
    /\ pc = [w \in Writer |-> "idle"]
    /\ id = [w \in Writer |-> 0]
    /\ view = [w \in Writer |-> head]
    /\ drawn = 0
    /\ answer = [w \in Writer |-> "none"]

-----------------------------------------------------------------------------
Goto(w, step) == pc' = [pc EXCEPT ![w] = step]
Step(w, from, to) == pc[w] = from /\ Goto(w, to)

CanWrite(w) == dblock \in {Nobody, w}
Drop(lock, w) == IF lock = w THEN Nobody ELSE lock

\* Fault: an event gets the sequence number of its predecessor.
SameSequence(w) ==
    [sequence |-> view[w].sequence, previous |-> view[w].hash, hash |-> id[w]]

\* The next event after the head that was read.
NextEvent(w) ==
    [sequence |-> view[w].sequence + 1, previous |-> view[w].hash, hash |-> id[w]]

\* Fault: the rollback hook is missing.
KeepFileLock(w, a) ==
    /\ dblock' = Drop(dblock, w)
    /\ draft' = IF dblock = w THEN {} ELSE draft
    /\ tip' = IF dblock = w THEN head ELSE tip
    /\ answer' = [answer EXCEPT ![w] = a]
    /\ Goto(w, "idle")
    /\ UNCHANGED <<events, head, flock>>

\* Rollback, and the hook that runs after it.
RollBack(w, a) ==
    /\ flock' = Drop(flock, w)
    /\ dblock' = Drop(dblock, w)
    /\ draft' = IF dblock = w THEN {} ELSE draft
    /\ tip' = IF dblock = w THEN head ELSE tip
    /\ answer' = [answer EXCEPT ![w] = a]
    /\ Goto(w, "idle")
    /\ UNCHANGED <<events, head>>

-----------------------------------------------------------------------------
\* A request or the poller opens a session.
Begin(w) ==
    /\ Step(w, "idle", "work")
    /\ answer' = [answer EXCEPT ![w] = "none"]
    /\ UNCHANGED <<events, head, flock, dblock, draft, tip, id, view, drawn>>

\* The first flush of rows of its own.
StartWrite(w) ==
    /\ dblock # w
    /\ Step(w, "work", "write")
    /\ UNCHANGED <<events, head, flock, dblock, draft, tip, id, view, drawn, answer>>

Write(w) ==
    /\ CanWrite(w)
    /\ Step(w, "write", "work")
    /\ dblock' = w
    /\ UNCHANGED <<events, head, flock, draft, tip, id, view, drawn, answer>>

\* A call of record_audit; its event's id is drawn.
StartAudit(w) ==
    /\ drawn < MaxEvents
    /\ Step(w, "work", "lock")
    /\ drawn' = drawn + 1
    /\ id' = [id EXCEPT ![w] = drawn']
    /\ UNCHANGED <<events, head, flock, dblock, draft, tip, view, answer>>

\* The file lock, held already if the session audited before.
TakeLock(w) ==
    /\ flock \in {Nobody, w}
    /\ Step(w, "lock", "read")
    /\ flock' = w
    /\ UNCHANGED <<events, head, dblock, draft, tip, id, view, drawn, answer>>

\* The chain head: with the write lock its own, otherwise the last commit.
ReadHead(w) ==
    /\ Step(w, "read", "insert")
    /\ view' = [view EXCEPT ![w] = IF dblock = w THEN tip ELSE head]
    /\ UNCHANGED <<events, head, flock, dblock, draft, tip, id, drawn, answer>>

\* Fault: audit_events.sequence is not unique.
InsertUnchecked(w) ==
    /\ CanWrite(w)
    /\ Step(w, "insert", "work")
    /\ LET e == NextEvent(w)
       IN  /\ draft' = draft \cup {e}
           /\ tip' = [sequence |-> e.sequence, hash |-> e.hash]
           /\ dblock' = w
    /\ UNCHANGED <<events, head, flock, id, view, drawn, answer>>

\* The flush of the event and of the head.  A sequence number that is taken
\* is a unique violation, which no caller handles: the session is rolled back.
Insert(w) ==
    /\ CanWrite(w)
    /\ pc[w] = "insert"
    /\ LET e == NextEvent(w)
       IN  IF \E d \in events \cup draft : d.sequence = e.sequence
           THEN RollBack(w, "duplicate")
           ELSE /\ draft' = draft \cup {e}
                /\ tip' = [sequence |-> e.sequence, hash |-> e.hash]
                /\ dblock' = w
                /\ Goto(w, "work")
                /\ UNCHANGED <<events, head, flock, answer>>
    /\ UNCHANGED <<id, view, drawn>>

\* begin_nested ends, released or rolled back: the Session events after_commit
\* and after_rollback fire for a savepoint too, and the hooks release the
\* file lock although the transaction goes on.
EndSavepoint(w) ==
    /\ w \in Nested
    /\ pc[w] = "work" /\ flock = w /\ dblock = w
    /\ flock' = Nobody
    /\ UNCHANGED <<events, head, dblock, draft, tip, pc, id, view, drawn, answer>>

\* Commit, and the hook that runs after it.
Commit(w) ==
    /\ Step(w, "work", "idle")
    /\ events' = IF dblock = w THEN events \cup draft ELSE events
    /\ head' = IF dblock = w THEN tip ELSE head
    /\ draft' = IF dblock = w THEN {} ELSE draft
    /\ dblock' = Drop(dblock, w)
    /\ flock' = Drop(flock, w)
    /\ answer' = [answer EXCEPT ![w] = "committed"]
    /\ UNCHANGED <<tip, id, view, drawn>>

\* SQLite's busy timeout: a write that waited 30 seconds fails.  The file
\* lock has no timeout.
Busy(w) ==
    /\ pc[w] \in {"write", "insert"}
    /\ ~CanWrite(w)
    /\ RollBack(w, "locked")
    /\ UNCHANGED <<id, view, drawn>>

\* The request fails, or its process dies.
GiveUp(w) ==
    /\ pc[w] # "idle"
    /\ RollBack(w, "rolled_back")
    /\ UNCHANGED <<id, view, drawn>>

-----------------------------------------------------------------------------
\* What a session does of itself once it is open.
Proceed(w) ==
    \/ StartWrite(w)
    \/ Write(w)
    \/ StartAudit(w)
    \/ TakeLock(w)
    \/ ReadHead(w)
    \/ Insert(w)
    \/ EndSavepoint(w)
    \/ Commit(w)
    \/ Busy(w)

Next == \E w \in Writer : Begin(w) \/ Proceed(w) \/ GiveUp(w)

\* An open session goes on, and one that waits for a lock is not overtaken
\* for ever.  Nobody has to open a session, and none has to fail.
Fairness == \A w \in Writer : SF_vars(Proceed(w))

Spec == Init /\ [][Next]_vars /\ Fairness

-----------------------------------------------------------------------------
\* Events that verify_audit_chain accepts, with h as their head.
Chained(E, h) ==
    /\ \A e \in E : e.sequence <= h.sequence
    /\ \A n \in 1..h.sequence : \E e \in E : e.sequence = n
    /\ \A e, f \in E : e.sequence = f.sequence => e = f
    /\ \A e \in E :
          IF e.sequence = 1 THEN e.previous = 0
          ELSE \E f \in E : f.sequence + 1 = e.sequence /\ f.hash = e.previous
    /\ IF h.sequence = 0 THEN h.hash = 0
       ELSE \E e \in E : e.sequence = h.sequence /\ e.hash = h.hash

(* What verify_audit_chain checks holds after every commit, however the     *)
(* writers interleave: sequence numbers 1, 2, ... without gap or duplicate, *)
(* each event carries the hash of the one before, and the head is the last. *)
ChainIntact == Chained(events, head)

(* Every session ends.  The two locks are taken in both orders (a request  *)
(* that writes before it audits against one that audits first), and only   *)
(* the busy timeout gets the two out of each other's way.                  *)
SessionsEnd == \A w \in Writer : pc[w] # "idle" ~> pc[w] = "idle"

(* "The lock is ... released by the Session's commit/rollback hooks ... so *)
(* the chain head and event remain one ordered transaction" (audit.py): no *)
(* two sessions try to insert the same sequence number.                    *)
NoDuplicateSequence == \A w \in Writer : answer[w] # "duplicate"
=============================================================================
