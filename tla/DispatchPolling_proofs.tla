------------------------ MODULE DispatchPolling_proofs ------------------------
(***************************************************************************)
(* Proofs about DispatchPolling, for any number of workers, repair runs,   *)
(* pages and faults, and however often leases expire under a running cycle.*)
(***************************************************************************)
EXTENDS DispatchPolling, FiniteSetTheorems, TLAPS

LEMMA HealthTypes ==
    ASSUME TypeOK, NEW p \in Process, RecordFailure(p) \/ RecordSuccess(p)
    PROVE  health' \in Health
BY DEF TypeOK, RecordFailure, RecordSuccess, Health, Column, CountFailure, CircuitFor, Threshold

LEMMA CountTypes ==
    ASSUME NEW h \in Health
    PROVE  [failures |-> CountFailure(h.failures),
            circuit |-> CircuitFor(CountFailure(h.failures))] \in Health
BY DEF Health, CountFailure, CircuitFor, Threshold

-----------------------------------------------------------------------------
(* What a worker still owes: retrievals it kept that have no incidents.     *)
Owed(w) == {x \in Pending : keeper[x] = w}

OwesOne ==
    \A w \in Worker : \A x, y \in Owed(w) : x = y

OwesNothingNew ==
    \A w \in Worker :
        /\ pc[w] = "recover" => Owed(w) \subseteq todo[w]
        /\ pc[w] \in {"fetch", "save"} => Owed(w) = {}

\* Whatever is about to be assembled was kept before.
WorksOnKept ==
    \A p \in Process :
        /\ \A x \in todo[p] : x \in Usable /\ Kept(x)
        /\ pc[p] \in {"save", "process", "close"} => page[p] \in Page
        /\ pc[p] \in {"process", "close"} => Kept(page[p])

\* Whoever assembles has the provider's row to itself, ...
OneHolder ==
    \A a, b \in Assembler : target[a] # NoPage /\ target[b] # NoPage => a = b

\* ... and whoever is about to commit incidents has it.
ClosesWithRow ==
    \A p \in Process : pc[p] = "close" /\ page[p] \in Usable => target[p] = page[p]

RowInv ==
    /\ OneHolder
    /\ ClosesWithRow
    /\ AssemblyIsSerial

IInv ==
    /\ TypeOK
    /\ OwesOne
    /\ OwesNothingNew
    /\ WorksOnKept
    /\ RowInv

-----------------------------------------------------------------------------
(* The shape of rows, locks and processes, one step further.                *)
LEMMA RowTypes ==
    ASSUME TypeOK, NEW a \in Assembler,
           \/ UNCHANGED <<target, seen>>
           \/ LetGo(a)
           \/ \E x \in Retrieval : StartAssembly(a, x)
    PROVE  /\ target' \in [Assembler -> Retrieval \cup {NoPage}]
           /\ seen' \in [Assembler -> SUBSET Retrieval]
BY DEF TypeOK, LetGo, StartAssembly

LEMMA AssembledTypes ==
    ASSUME TypeOK, NEW a \in Assembler, target[a] # NoPage, FinishAssembly(a)
    PROVE  assembled' \subseteq Retrieval /\ LetGo(a)
BY DEF TypeOK, FinishAssembly

LEMMA TypeStep ==
    ASSUME IInv, [Next]_vars
    PROVE  TypeOK'
<1>a. TypeOK /\ ClosesWithRow
  BY DEF IInv, RowInv
<1>b. Process \subseteq Assembler /\ Operator \in Assembler
  BY DEF Assembler
<1>c. Usable \subseteq Retrieval /\ NoPage \notin Usable
  BY NamesAssumption
<1>0. Healthy \in Health
  BY DEF Healthy, Health, Threshold
<1> USE <1>a DEF TypeOK, Goto, ReadHealth, ForgetHealth, Steps
<1>1. ASSUME NEW p \in Process, Skip(p) \/ ReadLease(p) PROVE TypeOK'
  BY <1>1 DEF Skip, ReadLease, vars
<1>2. ASSUME NEW p \in Process, Continue(p) PROVE TypeOK'
  <2>1. CASE Claim(p)
    <3>1. Column(sawOwner[p], p, lease.owner) \in Process \cup {Nobody}
      BY DEF Column
    <3>2. \/ lease' = lease
          \/ \E o \in Process \cup {Nobody} : lease' = [owner |-> o, live |-> TRUE]
      BY <2>1, <3>1 DEF Claim
    <3>3. lease' \in [owner : Process \cup {Nobody}, live : BOOLEAN]
      <4>1. TRUE \in BOOLEAN
        OBVIOUS
      <4>2. \A o \in Process \cup {Nobody}, b \in BOOLEAN :
                [owner |-> o, live |-> b] \in [owner : Process \cup {Nobody}, live : BOOLEAN]
        OBVIOUS
      <4>3. QED
        BY <3>2, <4>1, <4>2, Zenon
    <3>4. QED
      BY <2>1, <3>3 DEF Claim
  <2>2. CASE ListPending(p)
    BY <2>2, NamesAssumption DEF ListPending, Pending
  <2>3. CASE RecoverOne(p)
    BY <1>a, <1>b, <2>3, AssembledTypes, RowTypes DEF RecoverOne
  <2>12. ASSUME NEW x \in Retrieval, StartRecovery(p, x) PROVE TypeOK'
    BY <1>a, <1>b, <2>12, RowTypes DEF StartRecovery
  <2>4. CASE EndRecovery(p)
    BY <2>4 DEF EndRecovery
  <2>5. ASSUME NEW x \in Page, Fetch(p, x) PROVE TypeOK'
    BY <2>5 DEF Fetch
  <2>6. CASE FetchFails(p)
    BY <2>6 DEF FetchFails
  <2>7. CASE Save(p)
    <3>1. health' \in Health
      BY <2>7, HealthTypes DEF Save
    <3>2. QED
      BY <2>7, <3>1, <1>0 DEF Save
  <2>8. CASE BeginProcessing(p)
    <3>1. UNCHANGED <<target, seen>> \/ \E x \in Retrieval : StartAssembly(p, x)
      BY <1>c, <2>8 DEF BeginProcessing
    <3>2. QED
      BY <1>a, <1>b, <2>8, <3>1, RowTypes DEF BeginProcessing
  <2>9. CASE Close(p)
    <3>1. health' \in Health
      BY <2>9, HealthTypes DEF Close
    <3>2. QED
      <4>1. page[p] \in Usable => target[p] # NoPage
        BY <1>a, <1>c, <2>9 DEF Close, ClosesWithRow
      <4>2. assembled' \subseteq Retrieval /\ (LetGo(p) \/ UNCHANGED <<target, seen>>)
        BY <1>a, <1>b, <2>9, <4>1, AssembledTypes DEF Close
      <4>3. QED
        BY <1>a, <1>b, <2>9, <3>1, <4>2, <1>0, RowTypes DEF Close
  <2>10. CASE Fail(p)
    <3>1. health' \in Health
      BY <2>10, HealthTypes DEF Fail
    <3>2. QED
      BY <2>10, <3>1, <1>0 DEF Fail
  <2>11. QED
    BY <1>2, <2>1, <2>2, <2>3, <2>4, <2>5, <2>6, <2>7, <2>8, <2>9, <2>10, <2>12 DEF Continue
<1>3. ASSUME NEW p \in Process, Disturb(p) PROVE TypeOK'
  <2>1. LetGo(p) \/ UNCHANGED <<target, seen>>
    BY <1>3 DEF Disturb, StepFails, TaskDies, Crash
  <2>2. QED
    BY <1>a, <1>b, <1>3, <1>0, <2>1, RowTypes, MaxFaultsAssumption
    DEF Disturb, StepFails, TaskDies, Crash, Fault
<1>4. ASSUME NEW p \in Process, Restart(p) PROVE TypeOK'
  BY <1>4 DEF Restart
<1>5. CASE Environment
  <2>1. CASE LeaseExpires \/ Disable
    BY <2>1 DEF LeaseExpires, Disable
  <2>2. ASSUME NEW x \in Upload, UploadSnapshot(x) PROVE TypeOK'
    BY <2>2, <1>0, CountTypes DEF UploadSnapshot
  <2>3. ASSUME NEW x \in Usable, StartByHand(x) PROVE TypeOK'
    BY <1>a, <1>b, <1>c, <2>3, RowTypes DEF StartByHand
  <2>4. CASE EndByHand
    BY <1>a, <1>b, <2>4, AssembledTypes, RowTypes DEF EndByHand
  <2>5. CASE ByHandFails
    BY <1>a, <1>b, <2>5, RowTypes, MaxFaultsAssumption DEF ByHandFails, Fault
  <2>6. QED
    BY <1>5, <2>1, <2>2, <2>3, <2>4, <2>5 DEF Environment
<1>6. CASE UNCHANGED vars
  BY <1>6 DEF vars
<1>7. QED
  BY <1>1, <1>2, <1>3, <1>4, <1>5, <1>6 DEF Next

(* A step of p that keeps nothing new: p's own obligations are to be shown, *)
(* everybody else's only shrink.                                            *)
LEMMA NothingKept ==
    ASSUME IInv, TypeOK', NEW p \in Process,
           UNCHANGED keeper, Pending' \subseteq Pending,
           \A q \in Process \ {p} :
               pc'[q] = pc[q] /\ todo'[q] = todo[q] /\ page'[q] = page[q],
           p \in Worker /\ pc'[p] = "recover" => Owed(p)' \subseteq todo'[p],
           p \in Worker /\ pc'[p] \in {"fetch", "save"} => Owed(p)' = {},
           \A x \in todo'[p] : x \in Usable /\ Kept(x),
           pc'[p] \in {"save", "process", "close"} => page'[p] \in Page,
           pc'[p] \in {"process", "close"} => Kept(page'[p]),
           RowInv'
    PROVE  IInv'
<1>0. Worker \subseteq Process
  BY DEF Process
<1>1. \A w \in Worker : Owed(w)' \subseteq Owed(w)
  BY DEF Owed
<1>2. OwesOne'
  BY <1>1 DEF IInv, OwesOne
<1>3. OwesNothingNew'
  <2>1. ASSUME NEW w \in Worker, w # p
        PROVE  /\ pc'[w] = "recover" => Owed(w)' \subseteq todo'[w]
               /\ pc'[w] \in {"fetch", "save"} => Owed(w)' = {}
    BY <1>0, <1>1, <2>1 DEF IInv, OwesNothingNew
  <2>2. QED
    BY <2>1 DEF OwesNothingNew
<1>4. WorksOnKept'
  <2>1. \A x : Kept(x)' <=> Kept(x)
    BY DEF Kept
  <2>2. QED
    BY <2>1 DEF IInv, WorksOnKept, Kept
<1>5. QED
  BY <1>2, <1>3, <1>4 DEF IInv

(* A step that neither takes nor gives back the row, and brings nobody to    *)
(* the point of committing incidents.                                       *)
LEMMA RowUntouched ==
    ASSUME IInv, UNCHANGED <<assembled, target, seen>>,
           \A p \in Process : pc'[p] = "close" /\ page'[p] \in Usable =>
               pc[p] = "close" /\ page'[p] = page[p]
    PROVE  RowInv'
BY DEF IInv, RowInv, OneHolder, ClosesWithRow, AssemblyIsSerial

(* Taking the row: nobody has it, and what is seen is all there is.         *)
LEMMA RowTaken ==
    ASSUME IInv, NEW a \in Assembler, NEW x \in Retrieval, StartAssembly(a, x),
           UNCHANGED assembled,
           \A p \in Process : pc'[p] = "close" /\ page'[p] \in Usable =>
               \/ p = a /\ page'[p] = x
               \/ p # a /\ pc[p] = "close" /\ page'[p] = page[p]
    PROVE  RowInv'
<1>0. Process \subseteq Assembler
  BY DEF Assembler
<1>1. \A b \in Assembler : /\ target[b] = NoPage
                           /\ target'[b] = IF b = a THEN x ELSE NoPage
                           /\ b = a => seen'[b] = assembled
  BY DEF StartAssembly, RowFree, IInv, TypeOK
<1>2. OneHolder' /\ AssemblyIsSerial'
  BY <1>1 DEF OneHolder, AssemblyIsSerial
<1>3. ClosesWithRow'
  BY <1>0, <1>1, NamesAssumption DEF IInv, RowInv, ClosesWithRow
<1>4. QED
  BY <1>2, <1>3 DEF RowInv

(* Giving it back, with or without incidents committed: nobody else was     *)
(* assembling.                                                              *)
LEMMA RowGiven ==
    ASSUME IInv, NEW a \in Assembler, LetGo(a),
           UNCHANGED assembled \/ target[a] # NoPage,
           \A p \in Process : pc'[p] = "close" /\ page'[p] \in Usable =>
               p # a /\ pc[p] = "close" /\ page'[p] = page[p]
    PROVE  RowInv'
<1>0. Process \subseteq Assembler
  BY DEF Assembler
<1>1. \A b \in Assembler : /\ target'[b] = IF b = a THEN NoPage ELSE target[b]
                           /\ b # a => seen'[b] = seen[b]
  BY DEF LetGo, IInv, TypeOK
<1>2. OneHolder' /\ AssemblyIsSerial'
  BY <1>1 DEF IInv, RowInv, OneHolder, AssemblyIsSerial
<1>3. ClosesWithRow'
  BY <1>0, <1>1 DEF IInv, RowInv, ClosesWithRow
<1>4. QED
  BY <1>2, <1>3 DEF RowInv

(* The commit of an assembly takes a retrieval off the list of what is      *)
(* owed: the row's holder knows which retrievals are assembled.             *)
LEMMA AssemblyCommits ==
    ASSUME IInv, NEW a \in Assembler, target[a] # NoPage, FinishAssembly(a),
           UNCHANGED keeper
    PROVE  Pending' = Pending \ {target[a]}
<1>1. assembled' = assembled \cup {target[a]}
  BY DEF IInv, RowInv, AssemblyIsSerial, FinishAssembly
<1>2. QED
  BY <1>1 DEF Pending, Kept

(* Steps that change neither what is kept nor what is assembled.            *)
LEMMA SameBooks ==
    ASSUME IInv, UNCHANGED <<keeper, assembled>>
    PROVE  /\ Pending' = Pending
           /\ \A w : Owed(w)' = Owed(w)
BY DEF Pending, Owed, Kept

LEMMA ContinueKeepsIInv ==
    ASSUME IInv, TypeOK', NEW p \in Process, Continue(p)
    PROVE  IInv'
<1> USE DEF Goto
<1>0. /\ \A x \in todo[p] : x \in Usable /\ Kept(x)
      /\ pc[p] \in {"save", "process", "close"} => page[p] \in Page
      /\ pc[p] \in {"process", "close"} => Kept(page[p])
      /\ p \in Worker /\ pc[p] = "recover" => Owed(p) \subseteq todo[p]
      /\ p \in Worker /\ pc[p] \in {"fetch", "save"} => Owed(p) = {}
  BY DEF IInv, WorksOnKept, OwesNothingNew
<1>a. p \in Assembler
  BY DEF Assembler
<1>1. CASE Claim(p)
  <2>1. /\ UNCHANGED <<keeper, assembled, target, seen, todo, page>>
        /\ \A q \in Process \ {p} : pc'[q] = pc[q]
        /\ pc'[p] \in {"idle", "list"}
    BY <1>1 DEF Claim, IInv, TypeOK
  <2>2. QED
    BY <1>0, <2>1, SameBooks, RowUntouched, NothingKept
<1>2. CASE ListPending(p)
  <2>1. /\ UNCHANGED <<keeper, assembled, target, seen, page>>
        /\ \A q \in Process \ {p} : pc'[q] = pc[q] /\ todo'[q] = todo[q]
        /\ pc'[p] = "recover" /\ todo'[p] = Pending
    BY <1>2 DEF ListPending, IInv, TypeOK
  <2>2. Owed(p) \subseteq Pending /\ \A x \in Pending : x \in Usable /\ Kept(x)
    BY DEF Owed, Pending
  <2>3. QED
    BY <2>1, <2>2, SameBooks, RowUntouched, NothingKept
<1>3. CASE RecoverOne(p)
  <2> DEFINE x == target[p]
  <2>1. /\ UNCHANGED <<keeper, page, pc>> /\ pc[p] = "recover" /\ x # NoPage
        /\ \A q \in Process \ {p} : todo'[q] = todo[q]
        /\ todo'[p] = todo[p] \ {x} /\ FinishAssembly(p)
    BY <1>3 DEF RecoverOne, IInv, TypeOK
  <2>2. Pending' = Pending \ {x} /\ LetGo(p)
    BY <1>a, <2>1, AssemblyCommits DEF FinishAssembly
  <2>3. Owed(p)' \subseteq Owed(p) \ {x}
    BY <2>1, <2>2 DEF Owed
  <2>4. RowInv'
    BY <1>a, <2>1, <2>2, RowGiven
  <2>5. QED
    BY <1>0, <2>1, <2>2, <2>3, <2>4, NothingKept
<1>11. ASSUME NEW x \in Retrieval, StartRecovery(p, x) PROVE IInv'
  <2>1. /\ UNCHANGED <<keeper, assembled, page, pc, todo>>
        /\ pc[p] = "recover" /\ StartAssembly(p, x)
    BY <1>11 DEF StartRecovery
  <2>2. RowInv'
    BY <1>a, <2>1, RowTaken
  <2>3. QED
    BY <1>0, <2>1, <2>2, SameBooks, NothingKept
<1>4. CASE EndRecovery(p)
  <2>1. /\ UNCHANGED <<keeper, assembled, target, seen, page, todo>>
        /\ \A q \in Process \ {p} : pc'[q] = pc[q]
        /\ pc'[p] = IF p \in Worker THEN "fetch" ELSE "idle"
        /\ pc[p] = "recover" /\ todo[p] = {}
    BY <1>4 DEF EndRecovery, IInv, TypeOK
  <2>2. p \in Worker => Owed(p) = {}
    BY <1>0, <2>1
  <2>3. QED
    BY <1>0, <2>1, <2>2, SameBooks, RowUntouched, NothingKept
<1>5. ASSUME NEW x \in Page, Fetch(p, x) PROVE IInv'
  <2>1. /\ UNCHANGED <<keeper, assembled, target, seen, todo>>
        /\ \A q \in Process \ {p} : pc'[q] = pc[q] /\ page'[q] = page[q]
        /\ pc[p] = "fetch" /\ pc'[p] = "save" /\ page'[p] = x
    BY <1>5 DEF Fetch, IInv, TypeOK
  <2>2. QED
    BY <1>0, <2>1, SameBooks, RowUntouched, NothingKept
<1>6. CASE FetchFails(p)
  <2>1. /\ UNCHANGED <<keeper, assembled, target, seen, todo, page>>
        /\ \A q \in Process \ {p} : pc'[q] = pc[q]
        /\ pc'[p] = "fail"
    BY <1>6 DEF FetchFails, IInv, TypeOK
  <2>2. QED
    BY <1>0, <2>1, SameBooks, RowUntouched, NothingKept
<1>12. CASE BeginProcessing(p)
  <2>1. /\ UNCHANGED <<keeper, assembled, todo, page>>
        /\ \A q \in Process \ {p} : pc'[q] = pc[q]
        /\ pc[p] = "process" /\ pc'[p] = "close"
    BY <1>12 DEF BeginProcessing, IInv, TypeOK
  <2>2. RowInv'
    <3>1. CASE page[p] \in Usable
      <4>1. page[p] \in Retrieval /\ StartAssembly(p, page[p])
        BY <1>12, <3>1, NamesAssumption DEF BeginProcessing
      <4>2. QED
        BY <1>a, <2>1, <4>1, RowTaken
    <3>2. CASE page[p] \notin Usable
      <4>1. UNCHANGED <<target, seen>>
        BY <1>12, <3>2 DEF BeginProcessing
      <4>2. QED
        BY <2>1, <3>2, <4>1, RowUntouched
    <3>3. QED
      BY <3>1, <3>2
  <2>3. QED
    BY <1>0, <2>1, <2>2, SameBooks, NothingKept
<1>7. CASE Save(p)
  <2>1. /\ UNCHANGED <<assembled, target, seen, todo, page>>
        /\ \A q \in Process \ {p} : pc'[q] = pc[q]
        /\ pc[p] = "save" /\ pc'[p] = "process" /\ page[p] \in Page
    BY <1>0, <1>7 DEF Save, IInv, TypeOK
  <2>2. CASE Kept(page[p])
    <3>1. UNCHANGED keeper
      BY <1>7, <2>2 DEF Save
    <3>2. QED
      BY <1>0, <2>1, <2>2, <3>1, SameBooks, RowUntouched, NothingKept
  <2>3. CASE ~Kept(page[p])
    <3> DEFINE new == page[p]
    <3>0. new \in Retrieval /\ p # Nobody /\ \A w \in Worker : w \in Process
      BY <2>1, NamesAssumption DEF Retrieval, Process
    <3>1. \A x \in Retrieval : keeper'[x] = IF x = new THEN p ELSE keeper[x]
      BY <1>7, <2>3, <3>0 DEF Save, IInv, TypeOK
    <3>2. \A x \in Retrieval : Kept(x)' <=> (Kept(x) \/ x = new)
      BY <3>0, <3>1 DEF Kept
    <3>3. Pending' \subseteq Pending \cup {new} /\ Pending' \subseteq Retrieval
      BY <2>1, <3>2, NamesAssumption DEF Pending
    <3>4. \A w \in Worker : w # p => Owed(w)' \subseteq Owed(w)
      BY <3>1, <3>3 DEF Owed
    <3>5. p \in Worker => Owed(p)' \subseteq {new}
      <4>1. p \in Worker => Owed(p) = {}
        BY <1>0, <2>1
      <4>2. Owed(p)' \subseteq Owed(p) \cup {new}
        BY <3>1, <3>3 DEF Owed
      <4>3. QED
        BY <4>1, <4>2
    <3>6. OwesOne'
      BY <3>4, <3>5 DEF IInv, OwesOne
    <3>7. OwesNothingNew'
      <4>1. ASSUME NEW w \in Worker, w # p
            PROVE  /\ pc'[w] = "recover" => Owed(w)' \subseteq todo'[w]
                   /\ pc'[w] \in {"fetch", "save"} => Owed(w)' = {}
        BY <2>1, <3>0, <3>4, <4>1 DEF IInv, OwesNothingNew
      <4>2. QED
        BY <2>1, <4>1 DEF OwesNothingNew
    <3>8. WorksOnKept'
      <4>1. \A q \in Process : \A x \in todo[q] : x \in Usable /\ Kept(x) /\ x \in Retrieval
        BY NamesAssumption DEF IInv, WorksOnKept
      <4>2. \A q \in Process : \A x \in todo'[q] : x \in Usable /\ Kept(x)'
        BY <2>1, <3>2, <4>1 DEF Kept
      <4>3. ASSUME NEW q \in Process, pc'[q] \in {"process", "close"} PROVE Kept(page[q])'
        <5>1. CASE q = p
          BY <5>1, <2>1, <3>0, <3>2 DEF Kept
        <5>2. CASE q # p
          <6>1. Kept(page[q]) /\ page[q] \in Retrieval
            BY <2>1, <4>3, <5>2 DEF IInv, WorksOnKept, Retrieval
          <6>2. QED
            BY <2>1, <3>2, <6>1 DEF Kept
        <5>3. QED
          BY <5>1, <5>2
      <4>4. \A q \in Process : pc'[q] \in {"save", "process", "close"} => page'[q] \in Page
        BY <2>1 DEF IInv, WorksOnKept
      <4>5. QED
        BY <4>2, <4>3, <4>4 DEF WorksOnKept
    <3>9. RowInv'
      BY <2>1, RowUntouched
    <3>10. QED
      BY <3>6, <3>7, <3>8, <3>9 DEF IInv
  <2>4. QED
    BY <2>2, <2>3
<1>8. CASE Close(p)
  <2>1. /\ UNCHANGED <<keeper, todo>>
        /\ \A q \in Process \ {p} : pc'[q] = pc[q] /\ page'[q] = page[q]
        /\ pc[p] = "close" /\ pc'[p] = "idle"
    BY <1>8 DEF Close, IInv, TypeOK
  <2>2. CASE page[p] \in Usable
    <3>1. FinishAssembly(p) /\ target[p] # NoPage
      BY <1>8, <2>1, <2>2, NamesAssumption DEF Close, IInv, RowInv, ClosesWithRow
    <3>2. Pending' \subseteq Pending /\ LetGo(p)
      BY <1>a, <2>1, <3>1, AssemblyCommits DEF FinishAssembly
    <3>3. RowInv'
      BY <1>a, <2>1, <3>1, <3>2, RowGiven
    <3>4. QED
      BY <1>0, <2>1, <3>2, <3>3, NothingKept
  <2>3. CASE page[p] \notin Usable
    <3>1. UNCHANGED <<assembled, target, seen>>
      BY <1>8, <2>3 DEF Close
    <3>2. QED
      BY <1>0, <2>1, <3>1, SameBooks, RowUntouched, NothingKept
  <2>4. QED
    BY <2>2, <2>3
<1>9. CASE Fail(p)
  <2>1. /\ UNCHANGED <<keeper, assembled, target, seen, todo, page>>
        /\ \A q \in Process \ {p} : pc'[q] = pc[q]
        /\ pc'[p] = "idle"
    BY <1>9 DEF Fail, IInv, TypeOK
  <2>2. QED
    BY <1>0, <2>1, SameBooks, RowUntouched, NothingKept
<1>10. QED
  BY <1>1, <1>2, <1>3, <1>4, <1>5, <1>6, <1>7, <1>8, <1>9, <1>11, <1>12 DEF Continue

(* Starting a cycle, failing, dying and restarting: nothing is kept and no  *)
(* process moves to a step that owes anything.                              *)
LEMMA DisturbKeepsIInv ==
    ASSUME IInv, TypeOK', NEW p \in Process, ReadLease(p) \/ Disturb(p) \/ Restart(p)
    PROVE  IInv'
<1>1. /\ UNCHANGED <<keeper, assembled>>
      /\ \A q \in Process \ {p} :
             pc'[q] = pc[q] /\ todo'[q] = todo[q] /\ page'[q] = page[q]
      /\ pc'[p] \in {"claim", "fail", "dead", "idle", "down"}
      /\ todo'[p] \in {{}, todo[p]}
      /\ UNCHANGED <<target, seen>> \/ LetGo(p)
  BY DEF ReadLease, Disturb, StepFails, TaskDies, Crash, Restart, Goto, IInv, TypeOK
<1>2. \A x \in todo'[p] : x \in Usable /\ Kept(x)
  BY <1>1 DEF IInv, WorksOnKept
<1>3. RowInv'
  <2>1. p \in Assembler
    BY DEF Assembler
  <2>2. QED
    BY <1>1, <2>1, RowUntouched, RowGiven
<1>4. QED
  BY <1>1, <1>2, <1>3, SameBooks, NothingKept

LEMMA EnvironmentKeepsIInv ==
    ASSUME IInv, TypeOK', Environment
    PROVE  IInv'
<1>0. UNCHANGED <<pc, todo, page>>
  BY DEF Environment, LeaseExpires, Disable, UploadSnapshot, StartByHand, EndByHand, ByHandFails
<1>a. Operator \in Assembler /\ \A q \in Process : q # Operator
  BY NamesAssumption DEF Assembler
<1>b. ASSUME UNCHANGED keeper, Pending' \subseteq Pending
      PROVE  OwesOne' /\ OwesNothingNew' /\ WorksOnKept'
  <2>1. \A w \in Worker : Owed(w)' \subseteq Owed(w)
    BY <1>b DEF Owed
  <2>2. QED
    BY <1>0, <1>b, <2>1 DEF IInv, OwesOne, OwesNothingNew, WorksOnKept, Kept
<1>1. CASE LeaseExpires \/ Disable
  <2>1. UNCHANGED <<keeper, assembled, target, seen>>
    BY <1>1 DEF LeaseExpires, Disable
  <2>2. RowInv'
    BY <1>0, <2>1, RowUntouched
  <2>3. QED
    BY <1>b, <2>1, <2>2, SameBooks DEF IInv
<1>2. ASSUME NEW x \in Upload, UploadSnapshot(x) PROVE IInv'
  <2>1. x \in Retrieval /\ Operator # Nobody /\ \A w \in Worker : w # Operator /\ w # Nobody
    BY NamesAssumption DEF Retrieval, Process
  <2>2. /\ \A y \in Retrieval : keeper'[y] = IF y = x THEN Operator ELSE keeper[y]
        /\ UNCHANGED <<assembled, target, seen>> /\ ~Kept(x)
    BY <1>2, <2>1 DEF UploadSnapshot, IInv, TypeOK
  <2>3. \A y \in Retrieval : Kept(y)' <=> (Kept(y) \/ y = x)
    BY <2>1, <2>2 DEF Kept
  <2>4. \A w \in Worker : Owed(w)' \subseteq Owed(w)
    BY <2>1, <2>2, <2>3, NamesAssumption DEF Owed, Pending
  <2>5. OwesOne' /\ OwesNothingNew'
    BY <1>0, <2>4 DEF IInv, OwesOne, OwesNothingNew
  <2>6. WorksOnKept'
    <3>1. \A y \in Retrieval : Kept(y) => Kept(y)'
      BY <2>3
    <3>2. \A q \in Process : \A y \in todo[q] : y \in Retrieval /\ y \in Usable /\ Kept(y)
      BY NamesAssumption DEF IInv, WorksOnKept
    <3>3. \A q \in Process : pc[q] \in {"process", "close"} =>
              page[q] \in Retrieval /\ Kept(page[q])
      BY DEF IInv, WorksOnKept, Retrieval
    <3>4. \A q \in Process : pc[q] \in {"save", "process", "close"} => page[q] \in Page
      BY DEF IInv, WorksOnKept
    <3>5. QED
      BY <1>0, <3>1, <3>2, <3>3, <3>4 DEF WorksOnKept, Kept
  <2>7. RowInv'
    BY <1>0, <2>2, RowUntouched
  <2>8. QED
    BY <2>5, <2>6, <2>7 DEF IInv
<1>3. ASSUME NEW x \in Usable, StartByHand(x) PROVE IInv'
  <2>1. /\ UNCHANGED <<keeper, assembled>> /\ StartAssembly(Operator, x) /\ x \in Retrieval
    BY <1>3, NamesAssumption DEF StartByHand
  <2>2. RowInv'
    BY <1>0, <1>a, <2>1, RowTaken
  <2>3. QED
    BY <1>b, <2>1, <2>2, SameBooks DEF IInv
<1>4. CASE EndByHand
  <2>1. UNCHANGED keeper /\ FinishAssembly(Operator) /\ target[Operator] # NoPage
    BY <1>4 DEF EndByHand
  <2>2. Pending' \subseteq Pending /\ LetGo(Operator)
    BY <1>a, <2>1, AssemblyCommits DEF FinishAssembly
  <2>3. RowInv'
    BY <1>0, <1>a, <2>1, <2>2, RowGiven
  <2>4. QED
    BY <1>b, <2>1, <2>2, <2>3 DEF IInv
<1>5. CASE ByHandFails
  <2>1. UNCHANGED <<keeper, assembled>> /\ LetGo(Operator)
    BY <1>5 DEF ByHandFails
  <2>2. RowInv'
    BY <1>0, <1>a, <2>1, RowGiven
  <2>3. QED
    BY <1>b, <2>1, <2>2, SameBooks DEF IInv
<1>6. QED
  BY <1>1, <1>2, <1>3, <1>4, <1>5 DEF Environment

THEOREM InvariantHolds == Spec => []IInv
<1>1. Init => IInv
  <2>1. Init => TypeOK
    BY MaxFaultsAssumption, NamesAssumption DEF Init, TypeOK, Health, Healthy, Steps, Threshold
  <2>2. Init => OwesOne /\ OwesNothingNew /\ WorksOnKept /\ RowInv
    BY NamesAssumption
    DEF Init, OwesOne, OwesNothingNew, WorksOnKept, RowInv, OneHolder, ClosesWithRow,
        AssemblyIsSerial, Owed, Pending, Kept
  <2>3. QED
    BY <2>1, <2>2 DEF IInv
<1>2. ASSUME IInv, [Next]_vars PROVE IInv'
  <2>0. TypeOK'
    BY <1>2, TypeStep
  <2>1. ASSUME UNCHANGED vars PROVE IInv'
    <3>1. UNCHANGED <<keeper, assembled, target, seen, pc, todo, page>>
      BY <2>1 DEF vars
    <3>2. RowInv'
      BY <1>2, <3>1, RowUntouched
    <3>3. QED
      BY <1>2, <2>0, <3>1, <3>2, SameBooks
      DEF IInv, OwesOne, OwesNothingNew, WorksOnKept, Kept
  <2>2. ASSUME NEW p \in Process, Skip(p) PROVE IInv'
    BY <2>1, <2>2 DEF Skip
  <2>3. QED
    BY <1>2, <2>0, <2>1, <2>2, ContinueKeepsIInv, DisturbKeepsIInv, EnvironmentKeepsIInv DEF Next
<1>3. QED
  BY <1>1, <1>2, PTL DEF Spec

-----------------------------------------------------------------------------
(* Rows, locks and processes keep their shape in every step.                *)
THEOREM TypeCorrect == Spec => []TypeOK
<1>1. IInv => TypeOK
  BY DEF IInv
<1>2. QED
  BY <1>1, InvariantHolds, PTL

(* Two pages of one worker are never both waiting for their incidents:      *)
(* whatever fails, the next cycle of that worker finishes the one it left   *)
(* before it collects another (_recover_unprocessed_retrievals).            *)
THEOREM BacklogIsBounded == Spec => []WorkerBacklog
<1>1. IInv => WorkerBacklog
  <2> SUFFICES ASSUME IInv, NEW w \in Worker PROVE Cardinality(Owed(w)) <= 1
    BY DEF WorkerBacklog, Owed
  <2>1. CASE Owed(w) = {}
    BY <2>1, FS_EmptySet
  <2>2. CASE Owed(w) # {}
    <3>1. PICK x \in Owed(w) : Owed(w) = {x}
      BY <2>2 DEF IInv, OwesOne
    <3>2. Cardinality({x}) = 1
      BY FS_Singleton
    <3>3. QED
      BY <3>1, <3>2
  <2>3. QED
    BY <2>1, <2>2
<1>2. QED
  BY <1>1, InvariantHolds, PTL

(* Assemblies of one provider never overlap, whoever runs them and however  *)
(* often leases expire, processes die or requests fail half-way: the row    *)
(* that process_retrieval updates first is held by one of them at a time,   *)
(* so what it found with the row is still all there is when it commits.     *)
THEOREM AssembliesAreSerial == Spec => []AssemblyIsSerial
<1>1. IInv => AssemblyIsSerial
  BY DEF IInv, RowInv
<1>2. QED
  BY <1>1, InvariantHolds, PTL

(* A failure, or the success of a usable page, that is written over the row *)
(* its transaction read leaves count and circuit in agreement, whatever     *)
(* they were: an update lost earlier is repaired by the next writer that    *)
(* loses none.                                                              *)
THEOREM CircuitHeals == Spec => CircuitSelfHeals
<1> DEFINE Agrees ==
      \A p \in Process :
          (Fail(p) \/ (Close(p) /\ page[p] \in Usable)) /\ sawHealth[p] = health
              => (health'.circuit = "open" <=> health'.failures = Threshold)
<1>1. TypeOK /\ [Next]_vars => [Agrees]_vars
  <2> SUFFICES ASSUME TypeOK, NEW p \in Process, sawHealth[p] = health,
                      Fail(p) \/ (Close(p) /\ page[p] \in Usable)
               PROVE  health'.circuit = "open" <=> health'.failures = Threshold
    OBVIOUS
  <2>1. health \in Health
    BY DEF TypeOK
  <2>2. CASE Fail(p)
    <3>1. health' = [failures |-> CountFailure(health.failures),
                     circuit |-> Column(health.circuit,
                                        CircuitFor(CountFailure(health.failures)),
                                        health.circuit)]
      BY <2>2 DEF Fail, RecordFailure
    <3>2. CountFailure(health.failures) \in 0..Threshold
      BY <2>1 DEF CountFailure, Health, Threshold
    <3> QED
      BY <2>1, <3>1, <3>2 DEF Column, CircuitFor, Threshold
  <2>3. CASE Close(p) /\ page[p] \in Usable
    <3>1. health' = [failures |-> 0, circuit |-> "closed"]
      BY <2>1, <2>3 DEF Close, RecordSuccess, Column
    <3> QED
      BY <3>1 DEF Threshold
  <2> QED
    BY <2>2, <2>3
<1> QED
  BY <1>1, TypeCorrect, PTL DEF Spec, CircuitSelfHeals
=============================================================================
