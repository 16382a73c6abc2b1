--------------------------- MODULE AuditChain_proofs ---------------------------
(***************************************************************************)
(* The chain that is committed is the one verify_audit_chain accepts, for  *)
(* any number of sessions with and without savepoints; without savepoints  *)
(* the file lock also keeps two sessions from drawing one sequence number. *)
(***************************************************************************)
EXTENDS AuditChain, TLAPS

USE NestedAssumption, NobodyAssumption, MaxEventsAssumption

\* The rows w sees inside its own transaction.
Own(w) == IF dblock = w THEN draft ELSE {}

\* The head w read was the head of the chain it sees, then or earlier.
PastHead(w) ==
    \/ view[w].sequence = 0 /\ view[w].hash = 0
    \/ \E e \in events \cup Own(w) :
          e.sequence = view[w].sequence /\ e.hash = view[w].hash

\* The uncommitted rows continue the committed chain, and belong to whoever
\* holds the write lock; every head that was read and not used yet is one
\* the chain really had.
IInv ==
    /\ TypeOK
    /\ ChainIntact
    /\ Chained(events \cup draft, tip)
    /\ dblock = Nobody => draft = {}
    /\ draft = {} => tip = head
    /\ \A w \in Writer : pc[w] = "insert" => PastHead(w)

-----------------------------------------------------------------------------
(* Rows, objects, locks and processes keep their shape in every step.      *)
THEOREM TypeCorrect == Spec => []TypeOK
<1>1. Init => TypeOK
  BY DEF Init, TypeOK, Event, Head, Hash, Steps, Answers
<1>2. TypeOK /\ [Next]_vars => TypeOK'
  <2> SUFFICES ASSUME TypeOK, [Next]_vars PROVE TypeOK'
    OBVIOUS
  <2> USE DEF TypeOK, Hash, Head, Steps, Answers
  <2>1. CASE UNCHANGED vars
    BY <2>1 DEF vars, Event
  <2>2. ASSUME NEW w \in Writer, Begin(w) PROVE TypeOK'
    BY <2>2 DEF Begin, Step, Goto, Event
  <2>3. ASSUME NEW w \in Writer, StartWrite(w) PROVE TypeOK'
    BY <2>3 DEF StartWrite, Step, Goto, Event
  <2>4. ASSUME NEW w \in Writer, Write(w) PROVE TypeOK'
    BY <2>4 DEF Write, Step, Goto, Event
  <2>5. ASSUME NEW w \in Writer, StartAudit(w) PROVE TypeOK'
    BY <2>5 DEF StartAudit, Step, Goto, Event
  <2>6. ASSUME NEW w \in Writer, TakeLock(w) PROVE TypeOK'
    BY <2>6 DEF TakeLock, Step, Goto, Event
  <2>7. ASSUME NEW w \in Writer, ReadHead(w) PROVE TypeOK'
    BY <2>7 DEF ReadHead, Step, Goto
  <2>8. ASSUME NEW w \in Writer, NEW a \in Answers, RollBack(w, a), UNCHANGED <<id, view, drawn>>
        PROVE TypeOK'
    BY <2>8 DEF RollBack, Drop, Goto, Event
  <2>9. ASSUME NEW w \in Writer, Insert(w) PROVE TypeOK'
    <3>1. NextEvent(w) \in Event
      BY DEF NextEvent, Event
    <3>2. CASE RollBack(w, "duplicate")
      BY <2>8, <2>9, <3>2 DEF Insert
    <3>3. CASE ~RollBack(w, "duplicate")
      <4>1. /\ draft' = draft \cup {NextEvent(w)}
            /\ tip' = [sequence |-> NextEvent(w).sequence, hash |-> NextEvent(w).hash]
            /\ dblock' = w
            /\ Goto(w, "work")
            /\ UNCHANGED <<events, head, flock, answer, id, view, drawn>>
        BY <2>9, <3>3 DEF Insert
      <4>2. tip' \in Head
        BY <3>1, <4>1 DEF Event
      <4> QED BY <3>1, <4>1, <4>2 DEF Goto
    <3> QED BY <3>2, <3>3
  <2>10. ASSUME NEW w \in Writer, EndSavepoint(w) PROVE TypeOK'
    BY <2>10 DEF EndSavepoint, Event
  <2>11. ASSUME NEW w \in Writer, Commit(w) PROVE TypeOK'
    BY <2>11 DEF Commit, Step, Goto, Drop
  <2>12. ASSUME NEW w \in Writer, Busy(w) PROVE TypeOK'
    BY <2>8, <2>12 DEF Busy
  <2>13. ASSUME NEW w \in Writer, GiveUp(w) PROVE TypeOK'
    BY <2>8, <2>13 DEF GiveUp
  <2> QED
    BY <2>1, <2>2, <2>3, <2>4, <2>5, <2>6, <2>7, <2>9, <2>10, <2>11, <2>12, <2>13
    DEF Next, Proceed
<1> QED BY <1>1, <1>2, PTL DEF Spec

-----------------------------------------------------------------------------
(* A chain continued by the successor of its head is a chain. *)
LEMMA ChainGrows ==
    ASSUME NEW E, E \subseteq Event, NEW h \in Head, Chained(E, h), NEW e \in Event,
           e.sequence = h.sequence + 1, e.previous = h.hash
    PROVE  Chained(E \cup {e}, [sequence |-> e.sequence, hash |-> e.hash])
<1> DEFINE F == E \cup {e}
           g == [sequence |-> e.sequence, hash |-> e.hash]
<1>0. /\ h.sequence \in Nat
      /\ \A f \in F : f \in Event /\ f.sequence \in Nat \ {0}
  BY DEF Event, Head
<1>1. \A f \in F : f.sequence <= g.sequence
  BY <1>0 DEF Chained
<1>2. \A n \in 1..g.sequence : \E f \in F : f.sequence = n
  BY <1>0 DEF Chained
<1>3. \A f, k \in F : f.sequence = k.sequence => f = k
  BY <1>0 DEF Chained
<1>4. \A f \in F :
         IF f.sequence = 1 THEN f.previous = 0
         ELSE \E k \in F : k.sequence + 1 = f.sequence /\ k.hash = f.previous
  BY <1>0 DEF Chained
<1>5. IF g.sequence = 0 THEN g.hash = 0
      ELSE \E f \in F : f.sequence = g.sequence /\ f.hash = g.hash
  BY <1>0
<1> QED BY <1>1, <1>2, <1>3, <1>4, <1>5 DEF Chained

(* A head the chain once had, whose successor's number is not taken, is the *)
(* head the chain has now.                                                  *)
LEMMA LastHead ==
    ASSUME NEW E, E \subseteq Event, NEW h \in Head, Chained(E, h), NEW v \in Head,
           \/ v.sequence = 0 /\ v.hash = 0
           \/ \E e \in E : e.sequence = v.sequence /\ e.hash = v.hash,
           \A e \in E : e.sequence # v.sequence + 1
    PROVE  v.sequence = h.sequence /\ v.hash = h.hash
<1>0. v.sequence \in Nat /\ h.sequence \in Nat /\ \A e \in E : e.sequence \in Nat \ {0}
  BY DEF Event, Head
<1>1. v.sequence <= h.sequence
  BY <1>0 DEF Chained
<1>2. ~(v.sequence + 1 <= h.sequence)
  BY <1>0 DEF Chained
<1>3. v.sequence = h.sequence
  BY <1>0, <1>1, <1>2
<1>4. CASE h.sequence = 0
  BY <1>0, <1>3, <1>4 DEF Chained
<1>5. CASE h.sequence # 0
  <2>1. PICK e \in E : e.sequence = h.sequence /\ e.hash = h.hash
    BY <1>5 DEF Chained
  <2>2. PICK f \in E : f.sequence = v.sequence /\ f.hash = v.hash
    BY <1>3, <1>5
  <2>3. e = f
    BY <1>3, <2>1, <2>2 DEF Chained
  <2> QED BY <1>3, <2>1, <2>2, <2>3
<1> QED BY <1>4, <1>5

-----------------------------------------------------------------------------
(* A step that leaves the rows, the heads and the write lock alone. *)
LEMMA QuietStep ==
    ASSUME IInv, TypeOK',
           UNCHANGED <<events, head, dblock, draft, tip>>,
           \A w \in Writer : pc'[w] = "insert" =>
               /\ pc[w] = "insert" /\ view'[w] = view[w]
    PROVE  IInv'
  BY DEF IInv, ChainIntact, Chained, PastHead, Own

(* A rollback gives up exactly the rows nobody else could see. *)
LEMMA RollBackStep ==
    ASSUME IInv, TypeOK', NEW w \in Writer, NEW a, RollBack(w, a), UNCHANGED <<id, view, drawn>>
    PROVE  IInv'
<1> USE DEF IInv
<1>1. events' = events /\ head' = head /\ view' = view
  BY DEF RollBack
<1>2. pc'[w] = "idle" /\ \A v \in Writer \ {w} : pc'[v] = pc[v]
  BY DEF RollBack, Goto, TypeOK
<1>3. ChainIntact'
  BY <1>1 DEF ChainIntact, Chained
<1>4. CASE dblock = w
  <2>1. draft' = {} /\ tip' = head' /\ dblock' = Nobody
    BY <1>1, <1>4 DEF RollBack, Drop
  <2>2. events' \cup draft' = events'
    BY <2>1
  <2>3. Chained(events \cup draft, tip)'
    BY <1>3, <2>1, <2>2 DEF ChainIntact, Chained
  <2>4. \A v \in Writer \ {w} : pc[v] = "insert" => PastHead(v)'
    BY <1>1, <1>4, <2>1 DEF PastHead, Own
  <2> QED BY <1>2, <1>3, <2>1, <2>3, <2>4
<1>5. CASE dblock # w
  <2>1. draft' = draft /\ tip' = tip /\ dblock' = dblock
    BY <1>5 DEF RollBack, Drop
  <2>2. \A v \in Writer \ {w} : pc[v] = "insert" => PastHead(v)'
    BY <1>1, <2>1 DEF PastHead, Own
  <2> QED BY <1>1, <1>2, <1>3, <2>1, <2>2 DEF Chained
<1> QED BY <1>4, <1>5

(* record_audit's flush continues the chain its session sees. *)
LEMMA InsertStep ==
    ASSUME IInv, TypeOK', NEW w \in Writer, Insert(w)
    PROVE  IInv'
<1> USE DEF IInv
<1> DEFINE e == NextEvent(w)
           E == events \cup draft
<1>1. CASE \E d \in E : d.sequence = e.sequence
  <2>1. RollBack(w, "duplicate") /\ UNCHANGED <<id, view, drawn>>
    BY <1>1 DEF Insert
  <2> QED BY <2>1, RollBackStep
<1>2. CASE \A d \in E : d.sequence # e.sequence
  <2>1. /\ draft' = draft \cup {e}
        /\ tip' = [sequence |-> e.sequence, hash |-> e.hash]
        /\ dblock' = w
        /\ Goto(w, "work")
        /\ UNCHANGED <<events, head, view>>
        /\ CanWrite(w) /\ pc[w] = "insert"
    BY <1>2 DEF Insert
  <2>2. /\ e \in Event /\ view[w] \in Head
        /\ e.sequence = view[w].sequence + 1
        /\ e.previous = view[w].hash
    BY DEF NextEvent, Event, Head, Hash, TypeOK
  <2>3. E \subseteq Event /\ tip \in Head
    BY DEF TypeOK
  <2>4. \/ view[w].sequence = 0 /\ view[w].hash = 0
        \/ \E d \in E : d.sequence = view[w].sequence /\ d.hash = view[w].hash
    <3>1. PastHead(w)
      BY <2>1
    <3> QED BY <3>1 DEF PastHead, Own
  <2>5. view[w].sequence = tip.sequence /\ view[w].hash = tip.hash
    <3> HIDE DEF E
    <3>1. \A d \in E : d.sequence # view[w].sequence + 1
      BY <1>2, <2>2
    <3>2. Chained(E, tip)
      BY DEF E
    <3> QED BY <2>2, <2>3, <2>4, <3>1, <3>2, LastHead
  <2>6. Chained(E \cup {e}, tip')
    <3> HIDE DEF E, e
    <3>1. Chained(E, tip)
      BY DEF E
    <3>2. e.sequence = tip.sequence + 1 /\ e.previous = tip.hash
      BY <2>2, <2>5
    <3> QED BY <2>1, <2>2, <2>3, <3>1, <3>2, ChainGrows
  <2>7. events' \cup draft' = E \cup {e}
    BY <2>1
  <2>8. Chained(events \cup draft, tip)'
    BY <2>6, <2>7 DEF Chained
  <2>9. ChainIntact'
    BY <2>1 DEF ChainIntact, Chained
  <2>10. draft' # {} /\ dblock' # Nobody
    BY <2>1
  <2>11. pc'[w] = "work" /\ \A v \in Writer \ {w} : pc'[v] = pc[v]
    BY <2>1 DEF Goto, TypeOK
  <2>12. \A v \in Writer \ {w} : pc[v] = "insert" => PastHead(v)'
    BY <2>1 DEF PastHead, Own, CanWrite
  <2> QED BY <2>8, <2>9, <2>10, <2>11, <2>12
<1> QED BY <1>1, <1>2

(* A commit publishes the session's rows together with their head. *)
LEMMA CommitStep ==
    ASSUME IInv, TypeOK', NEW w \in Writer, Commit(w)
    PROVE  IInv'
<1> USE DEF IInv
<1>1. pc'[w] = "idle" /\ \A v \in Writer \ {w} : pc'[v] = pc[v]
  BY DEF Commit, Step, Goto, TypeOK
<1>2. view' = view /\ tip' = tip
  BY DEF Commit
<1>3. CASE dblock = w
  <2>1. events' = events \cup draft /\ draft' = {} /\ head' = tip /\ dblock' = Nobody
    BY <1>3 DEF Commit, Drop
  <2>2. ChainIntact'
    BY <2>1 DEF ChainIntact, Chained
  <2>3. events' \cup draft' = events' /\ tip' = head'
    BY <1>2, <2>1
  <2>4. Chained(events \cup draft, tip)'
    BY <2>2, <2>3 DEF ChainIntact, Chained
  <2>5. \A v \in Writer \ {w} : pc[v] = "insert" => PastHead(v)'
    BY <1>2, <1>3, <2>1 DEF PastHead, Own
  <2> QED BY <1>1, <2>1, <2>2, <2>3, <2>4, <2>5
<1>4. CASE dblock # w
  <2>1. events' = events /\ draft' = draft /\ head' = head /\ dblock' = dblock
    BY <1>4 DEF Commit, Drop, TypeOK
  <2>2. \A v \in Writer \ {w} : pc[v] = "insert" => PastHead(v)'
    BY <1>2, <2>1 DEF PastHead, Own
  <2> QED BY <1>1, <1>2, <2>1, <2>2 DEF ChainIntact, Chained
<1> QED BY <1>3, <1>4

(* The inductive invariant: committed rows, uncommitted rows and heads that *)
(* were read but not used yet always belong to one chain.                   *)
THEOREM InvariantHolds == Spec => []IInv
<1>1. Init => IInv
  <2> SUFFICES ASSUME Init PROVE IInv
    OBVIOUS
  <2>1. TypeOK
    BY DEF Init, TypeOK, Event, Head, Hash, Steps, Answers
  <2>2. events = {} /\ draft = {} /\ tip = head /\ head.sequence = 0 /\ head.hash = 0
    BY DEF Init
  <2>3. ChainIntact /\ Chained(events \cup draft, tip)
    BY <2>2 DEF ChainIntact, Chained
  <2>4. \A w \in Writer : pc[w] # "insert"
    BY DEF Init
  <2> QED BY <2>1, <2>2, <2>3, <2>4 DEF IInv
<1>2. IInv /\ TypeOK' /\ [Next]_vars => IInv'
  <2> SUFFICES ASSUME IInv, TypeOK', [Next]_vars PROVE IInv'
    OBVIOUS
  <2>0. TypeOK
    BY DEF IInv
  <2>1. CASE UNCHANGED vars
    BY <2>1, QuietStep DEF vars
  <2>2. ASSUME NEW w \in Writer, Begin(w) PROVE IInv'
    BY <2>0, <2>2, QuietStep DEF Begin, Step, Goto, TypeOK
  <2>3. ASSUME NEW w \in Writer, StartWrite(w) PROVE IInv'
    BY <2>0, <2>3, QuietStep DEF StartWrite, Step, Goto, TypeOK
  <2>4. ASSUME NEW w \in Writer, Write(w) PROVE IInv'
    <3>1. UNCHANGED <<events, head, draft, tip, view>> /\ dblock' = w /\ CanWrite(w)
      BY <2>4 DEF Write
    <3>2. \A v \in Writer : pc'[v] = "insert" => pc[v] = "insert"
      BY <2>0, <2>4 DEF Write, Step, Goto, TypeOK
    <3>3. \A v \in Writer : PastHead(v) => PastHead(v)'
      BY <3>1 DEF PastHead, Own, CanWrite, IInv
    <3> QED BY <3>1, <3>2, <3>3 DEF IInv, ChainIntact, Chained
  <2>5. ASSUME NEW w \in Writer, StartAudit(w) PROVE IInv'
    BY <2>0, <2>5, QuietStep DEF StartAudit, Step, Goto, TypeOK
  <2>6. ASSUME NEW w \in Writer, TakeLock(w) PROVE IInv'
    BY <2>0, <2>6, QuietStep DEF TakeLock, Step, Goto, TypeOK
  <2>7. ASSUME NEW w \in Writer, ReadHead(w) PROVE IInv'
    <3>1. UNCHANGED <<events, head, dblock, draft, tip>>
      BY <2>7 DEF ReadHead
    <3>2. \A v \in Writer \ {w} : pc'[v] = pc[v] /\ view'[v] = view[v]
      BY <2>0, <2>7 DEF ReadHead, Step, Goto, TypeOK
    <3>3. view'[w] = IF dblock = w THEN tip ELSE head
      BY <2>0, <2>7 DEF ReadHead, TypeOK
    <3>4. tip \in Head /\ head \in Head
      BY <2>0 DEF TypeOK
    <3>5. PastHead(w)'
      <4>1. CASE dblock = w
        BY <3>1, <3>3, <4>1 DEF PastHead, Own, IInv, Chained
      <4>2. CASE dblock # w
        BY <3>1, <3>3, <4>2 DEF PastHead, Own, IInv, ChainIntact, Chained
      <4> QED BY <4>1, <4>2
    <3>6. \A v \in Writer \ {w} : PastHead(v) => PastHead(v)'
      BY <3>1, <3>2 DEF PastHead, Own
    <3> QED BY <3>1, <3>2, <3>5, <3>6 DEF IInv, ChainIntact, Chained
  <2>8. ASSUME NEW w \in Writer, Insert(w) PROVE IInv'
    BY <2>8, InsertStep
  <2>9. ASSUME NEW w \in Writer, EndSavepoint(w) PROVE IInv'
    BY <2>9, QuietStep DEF EndSavepoint
  <2>10. ASSUME NEW w \in Writer, Commit(w) PROVE IInv'
    BY <2>10, CommitStep
  <2>11. ASSUME NEW w \in Writer, Busy(w) PROVE IInv'
    BY <2>11, RollBackStep DEF Busy
  <2>12. ASSUME NEW w \in Writer, GiveUp(w) PROVE IInv'
    BY <2>12, RollBackStep DEF GiveUp
  <2> QED
    BY <2>1, <2>2, <2>3, <2>4, <2>5, <2>6, <2>7, <2>8, <2>9, <2>10, <2>11, <2>12
    DEF Next, Proceed
<1> QED BY <1>1, <1>2, TypeCorrect, PTL DEF Spec

(* The audit chain can be trusted: what verify_audit_chain checks holds in  *)
(* every reachable state, savepoints or not.                                *)
THEOREM ChainStaysIntact == Spec => []ChainIntact
<1>1. IInv => ChainIntact
  BY DEF IInv
<1> QED BY <1>1, InvariantHolds, PTL

-----------------------------------------------------------------------------
\* Without savepoints whoever is inside record_audit, or has uncommitted
\* events, holds the file lock, so the head that was read is still the head.
Serialised ==
    /\ \A w \in Writer : pc[w] \in {"read", "insert"} => flock = w
    /\ draft # {} => flock = dblock
    /\ \A w \in Writer : pc[w] = "insert" => view[w] = IF dblock = w THEN tip ELSE head
    /\ NoDuplicateSequence

(* A session that ends gives up both of its locks. *)
LEMMA RollBackKeepsOrder ==
    ASSUME IInv, Serialised, NEW w \in Writer, NEW a, a # "duplicate", RollBack(w, a),
           UNCHANGED <<id, view, drawn>>
    PROVE  Serialised'
<1>0. TypeOK /\ (draft = {} => tip = head) /\ (dblock = Nobody => draft = {})
  BY DEF IInv
<1>1. /\ pc'[w] = "idle" /\ answer'[w] = a
      /\ \A v \in Writer \ {w} : pc'[v] = pc[v] /\ answer'[v] = answer[v]
      /\ view' = view /\ head' = head
      /\ flock' = Drop(flock, w) /\ dblock' = Drop(dblock, w)
      /\ draft' = IF dblock = w THEN {} ELSE draft
      /\ tip' = IF dblock = w THEN head ELSE tip
  BY <1>0 DEF RollBack, Goto, TypeOK
<1>2. \A v \in Writer : pc'[v] \in {"read", "insert"} => flock' = v
  BY <1>1 DEF Serialised, Drop
<1>3. draft' # {} => flock' = dblock'
  BY <1>0, <1>1 DEF Serialised, Drop
<1>4. \A v \in Writer : pc'[v] = "insert" => view'[v] = IF dblock' = v THEN tip' ELSE head'
  BY <1>1 DEF Serialised, Drop
<1>5. NoDuplicateSequence'
  BY <1>1 DEF Serialised, NoDuplicateSequence
<1> QED BY <1>2, <1>3, <1>4, <1>5 DEF Serialised

(* The flush of a serialised session never meets a taken sequence number. *)
LEMMA InsertKeepsOrder ==
    ASSUME IInv, Serialised, NEW w \in Writer, Insert(w)
    PROVE  Serialised'
<1>0. TypeOK /\ (draft = {} => tip = head) /\ (dblock = Nobody => draft = {})
      /\ Chained(events \cup draft, tip)
  BY DEF IInv
<1>1. pc[w] = "insert" /\ flock = w /\ CanWrite(w) /\ view[w] = tip
  BY <1>0 DEF Insert, Serialised, CanWrite
<1>2. tip.sequence \in Nat /\ \A d \in events \cup draft : d.sequence \in Nat \ {0}
  BY <1>0 DEF TypeOK, Head, Event
<1>3. \A d \in events \cup draft : d.sequence # NextEvent(w).sequence
  BY <1>0, <1>1, <1>2 DEF Chained, NextEvent
<1>4. /\ dblock' = w /\ Goto(w, "work")
      /\ UNCHANGED <<events, head, flock, answer, view>>
  BY <1>3 DEF Insert
<1>5. pc'[w] = "work" /\ \A v \in Writer \ {w} : pc'[v] = pc[v]
  BY <1>0, <1>4 DEF Goto, TypeOK
<1>6. \A v \in Writer \ {w} : pc[v] \notin {"read", "insert"}
  BY <1>1 DEF Serialised
<1> QED BY <1>1, <1>4, <1>5, <1>6 DEF Serialised, NoDuplicateSequence

(* Without savepoints (and so on PostgreSQL) the docstring of the file lock *)
(* is right: no two sessions try to insert the same sequence number.        *)
THEOREM UnnestedAuditsAreOrdered ==
    ASSUME Nested = {}
    PROVE  Spec => []NoDuplicateSequence
<1>1. Init => Serialised
  BY DEF Init, Serialised, NoDuplicateSequence
<1>2. IInv /\ Serialised /\ [Next]_vars => Serialised'
  <2> SUFFICES ASSUME IInv, Serialised, [Next]_vars PROVE Serialised'
    OBVIOUS
  <2>0. TypeOK /\ (draft = {} => tip = head) /\ (dblock = Nobody => draft = {})
    BY DEF IInv
  <2>1. CASE UNCHANGED vars
    BY <2>1 DEF vars, Serialised, NoDuplicateSequence
  <2>2. ASSUME NEW w \in Writer, Begin(w) PROVE Serialised'
    BY <2>0, <2>2 DEF Begin, Step, Goto, TypeOK, Serialised, NoDuplicateSequence
  <2>3. ASSUME NEW w \in Writer, StartWrite(w) PROVE Serialised'
    BY <2>0, <2>3 DEF StartWrite, Step, Goto, TypeOK, Serialised, NoDuplicateSequence
  <2>4. ASSUME NEW w \in Writer, Write(w) PROVE Serialised'
    BY <2>0, <2>4 DEF Write, Step, Goto, TypeOK, Serialised, NoDuplicateSequence, CanWrite
  <2>5. ASSUME NEW w \in Writer, StartAudit(w) PROVE Serialised'
    BY <2>0, <2>5 DEF StartAudit, Step, Goto, TypeOK, Serialised, NoDuplicateSequence
  <2>6. ASSUME NEW w \in Writer, TakeLock(w) PROVE Serialised'
    <3>1. /\ pc[w] = "lock" /\ pc'[w] = "read" /\ flock' = w /\ flock \in {Nobody, w}
          /\ \A v \in Writer \ {w} : pc'[v] = pc[v]
          /\ UNCHANGED <<head, dblock, draft, tip, view, answer>>
      BY <2>0, <2>6 DEF TakeLock, Step, Goto, TypeOK
    <3>2. draft # {} => flock # Nobody
      BY <2>0 DEF Serialised
    <3> QED BY <2>0, <3>1, <3>2 DEF Serialised, NoDuplicateSequence
  <2>7. ASSUME NEW w \in Writer, ReadHead(w) PROVE Serialised'
    BY <2>0, <2>7 DEF ReadHead, Step, Goto, TypeOK, Serialised, NoDuplicateSequence
  <2>8. ASSUME NEW w \in Writer, Insert(w) PROVE Serialised'
    BY <2>8, InsertKeepsOrder
  <2>9. ASSUME NEW w \in Writer, EndSavepoint(w) PROVE Serialised'
    BY <2>9 DEF EndSavepoint
  <2>10. ASSUME NEW w \in Writer, Commit(w) PROVE Serialised'
    <3>1. /\ pc[w] = "work" /\ pc'[w] = "idle" /\ answer'[w] = "committed"
          /\ \A v \in Writer \ {w} : pc'[v] = pc[v] /\ answer'[v] = answer[v]
          /\ UNCHANGED <<view, tip>>
          /\ flock' = Drop(flock, w) /\ dblock' = Drop(dblock, w)
          /\ head' = IF dblock = w THEN tip ELSE head
          /\ draft' = IF dblock = w THEN {} ELSE draft
      BY <2>0, <2>10 DEF Commit, Step, Goto, TypeOK
    <3>2. \A v \in Writer : pc'[v] \in {"read", "insert"} => flock' = v
      BY <3>1 DEF Serialised, Drop
    <3>3. draft' # {} => flock' = dblock'
      BY <2>0, <3>1 DEF Serialised, Drop
    <3>4. \A v \in Writer : pc'[v] = "insert" => view'[v] = IF dblock' = v THEN tip' ELSE head'
      BY <2>0, <3>1 DEF Serialised, Drop
    <3> QED BY <3>1, <3>2, <3>3, <3>4 DEF Serialised, NoDuplicateSequence
  <2>11. ASSUME NEW w \in Writer, Busy(w) PROVE Serialised'
    BY <2>11, RollBackKeepsOrder DEF Busy
  <2>12. ASSUME NEW w \in Writer, GiveUp(w) PROVE Serialised'
    BY <2>12, RollBackKeepsOrder DEF GiveUp
  <2> QED
    BY <2>1, <2>2, <2>3, <2>4, <2>5, <2>6, <2>7, <2>8, <2>9, <2>10, <2>11, <2>12
    DEF Next, Proceed
<1>3. Serialised => NoDuplicateSequence
  BY DEF Serialised
<1> QED BY <1>1, <1>2, <1>3, InvariantHolds, PTL DEF Spec

-----------------------------------------------------------------------------
(* Waiting.  A session waits for the file lock, for as long as it takes, or  *)
(* for the write lock, up to the busy timeout.                               *)

\* The guards of a session's steps other than the busy timeout.
Advances(w) ==
    \/ pc[w] \in {"work", "read"}
    \/ pc[w] = "lock" /\ flock \in {Nobody, w}
    \/ pc[w] \in {"write", "insert"} /\ CanWrite(w)

\* The deadlock: one holds the file lock and waits for the write lock, the
\* other holds the write lock and waits for the file lock.
OppositeOrder ==
    \E w, v \in Writer :
        /\ w # v /\ flock = w /\ dblock = v
        /\ pc[w] \in {"write", "insert"} /\ pc[v] = "lock"

\* Locks are held by open sessions only.
HoldersOpen ==
    /\ flock # Nobody => pc[flock] # "idle"
    /\ dblock # Nobody => pc[dblock] # "idle"

\* As long as a session is open, one goes on, or two locked in opposite order.
OnlyOppositeOrderStops ==
    (\E w \in Writer : pc[w] # "idle") => (\E w \in Writer : Advances(w)) \/ OppositeOrder

LEMMA OpenStep ==
    ASSUME TypeOK, HoldersOpen, NEW w \in Writer, NEW step \in Steps \ {"idle"},
           Goto(w, step), flock' \in {flock, w, Nobody}, dblock' \in {dblock, w}
    PROVE  HoldersOpen'
BY DEF TypeOK, HoldersOpen, Goto

LEMMA EndStep ==
    ASSUME TypeOK, HoldersOpen, NEW w \in Writer,
           Goto(w, "idle"), flock' = Drop(flock, w), dblock' = Drop(dblock, w)
    PROVE  HoldersOpen'
BY DEF TypeOK, HoldersOpen, Goto, Drop

LEMMA NextKeepsHoldersOpen ==
    ASSUME TypeOK, HoldersOpen, [Next]_vars
    PROVE  HoldersOpen'
<1>1. ASSUME NEW w \in Writer,
             \/ Begin(w) \/ StartWrite(w) \/ Write(w) \/ StartAudit(w) \/ TakeLock(w)
             \/ ReadHead(w)
      PROVE  HoldersOpen'
  <2>1. /\ \E step \in Steps \ {"idle"} : Goto(w, step)
        /\ flock' \in {flock, w} /\ dblock' \in {dblock, w}
    BY <1>1 DEF Begin, StartWrite, Write, StartAudit, TakeLock, ReadHead, Step, Steps
  <2>2. QED
    BY <2>1, OpenStep
<1>2. ASSUME NEW w \in Writer, NEW a \in Answers, RollBack(w, a) PROVE HoldersOpen'
  BY <1>2, EndStep DEF RollBack
<1>3. ASSUME NEW w \in Writer, Insert(w) PROVE HoldersOpen'
  <2>1. CASE RollBack(w, "duplicate")
    BY <1>2, <2>1 DEF Answers
  <2>2. CASE Goto(w, "work") /\ dblock' = w /\ UNCHANGED flock
    BY <2>2, OpenStep DEF Steps
  <2>3. QED
    BY <1>3, <2>1, <2>2 DEF Insert
<1>4. ASSUME NEW w \in Writer, EndSavepoint(w) PROVE HoldersOpen'
  BY <1>4 DEF EndSavepoint, HoldersOpen
<1>5. ASSUME NEW w \in Writer, Commit(w) PROVE HoldersOpen'
  BY <1>5, EndStep DEF Commit, Step
<1>6. ASSUME NEW w \in Writer, Busy(w) \/ GiveUp(w) PROVE HoldersOpen'
  BY <1>2, <1>6 DEF Busy, GiveUp, Answers
<1>7. ASSUME UNCHANGED vars PROVE HoldersOpen'
  BY <1>7 DEF vars, HoldersOpen
<1>8. QED
  BY <1>1, <1>3, <1>4, <1>5, <1>6, <1>7 DEF Next, Proceed

(* Chasing the holders: an open session that waits for a lock waits for an   *)
(* open one, and two steps further on it is the first again.                 *)
LEMMA WaitsAreShort ==
    ASSUME TypeOK, HoldersOpen, NEW w \in Writer, pc[w] # "idle",
           \A v \in Writer : ~Advances(v)
    PROVE  OppositeOrder
<1>1. \A v \in Writer : pc[v] \in {"idle", "lock", "write", "insert"}
  BY DEF TypeOK, Steps, Advances
<1>2. \A v \in Writer : pc[v] = "lock" =>
          /\ flock \in Writer /\ flock # v /\ pc[flock] \in {"write", "insert"}
  BY <1>1 DEF TypeOK, Advances, HoldersOpen
<1>3. \A v \in Writer : pc[v] \in {"write", "insert"} =>
          /\ dblock \in Writer /\ dblock # v /\ pc[dblock] = "lock"
  BY <1>1 DEF TypeOK, Advances, CanWrite, HoldersOpen
<1>4. flock \in Writer /\ dblock \in Writer /\ flock # dblock
      /\ pc[flock] \in {"write", "insert"} /\ pc[dblock] = "lock"
  BY <1>1, <1>2, <1>3
<1>5. QED
  BY <1>4 DEF OppositeOrder

(* Whatever the number of sessions, the two locks lead to one deadlock only: *)
(* a session that wrote before it audits against one that audited before it  *)
(* writes.  There the second waits for the write lock, so SQLite's busy      *)
(* timeout ends it; no circle is made of the file lock alone, which has no   *)
(* timeout.  It is what the lock order owes to SessionsEnd.                  *)
THEOREM OnlyTheBusyTimeoutIsNeeded == Spec => []OnlyOppositeOrderStops
<1>1. Init => HoldersOpen
  BY DEF Init, HoldersOpen
<1>2. TypeOK /\ HoldersOpen /\ [Next]_vars => HoldersOpen'
  BY NextKeepsHoldersOpen
<1>3. TypeOK /\ HoldersOpen => OnlyOppositeOrderStops
  BY WaitsAreShort DEF OnlyOppositeOrderStops
<1>4. QED
  BY <1>1, <1>2, <1>3, TypeCorrect, PTL DEF Spec
===============================================================================
