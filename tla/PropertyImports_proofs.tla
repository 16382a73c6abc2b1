------------------------ MODULE PropertyImports_proofs ------------------------
(***************************************************************************)
(* Proofs about PropertyImports, for any parcels, addresses, number of     *)
(* imports and requests.                                                   *)
(***************************************************************************)
EXTENDS PropertyImports, SequenceTheorems, WellFoundedInduction, TLAPS

----------------------------------------------------------------------------
(* The latest import that says something about a parcel *)

LEMMA LeastExists ==
    ASSUME NEW S \in SUBSET Nat, S # {}
    PROVE  \E x \in S : \A y \in S : x <= y
<1>1. PICK x \in S : \A y \in S : ~ (<<y, x>> \in OpToRel(<, Nat))
    BY NatLessThanWellFounded, WFMin
<1>2. \A y \in S : ~ (y < x)
    BY <1>1 DEF OpToRel
<1>3. QED
    BY <1>2

LEMMA MaxOfBounded ==
    ASSUME NEW n \in Nat, NEW S \in SUBSET (1..n), S # {}
    PROVE  Max(S) \in S /\ \A y \in S : y <= Max(S)
<1> DEFINE Mirror == {n - x : x \in S}
<1>1. Mirror \in SUBSET Nat /\ Mirror # {}
    <2>1. \A x \in S : n - x \in Nat
        OBVIOUS
    <2>2. QED
        BY <2>1
<1>2. PICK z \in Mirror : \A y \in Mirror : z <= y
    BY <1>1, LeastExists
<1>3. PICK x \in S : z = n - x
    BY <1>2
<1>4. \A y \in S : x >= y
    <2>1. ASSUME NEW y \in S PROVE x >= y
        <3>1. n - x <= n - y
            BY <1>2, <1>3
        <3>2. QED
            BY <3>1
    <2>2. QED
        BY <2>1
<1>5. \E m \in S : \A y \in S : m >= y
    BY <1>4
<1>6. Max(S) \in S /\ \A y \in S : Max(S) >= y
    BY <1>5 DEF Max
<1>7. QED
    BY <1>6

\* Speaking and SourceOf for the rows of any moment.
Says(rows, line, p) == {i \in line : rows[i].mode = "full" \/ rows[i].payload[p] # None}
Source(rows, line, p) ==
    IF Says(rows, line, p) = {} \/ rows[Max(Says(rows, line, p))].payload[p] = None
    THEN 0 ELSE Max(Says(rows, line, p))

LEMMA SourceIs ==
    ASSUME NEW line, NEW p
    PROVE  SourceOf(line, p) = Source(imports, line, p)
BY DEF SourceOf, Speaking, Source, Says

\* Stands(rows, line, n, p): Standing for the rows of any moment.
Stands(rows, line, n, p) ==
    /\ n \in line /\ rows[n].payload[p] # None
    /\ \A m \in line : rows[m].mode = "full" => m <= n

LEMMA SourceInLine ==
    ASSUME NEW rows, NEW n \in Nat, NEW line \in SUBSET (1..n), NEW p
    PROVE  Source(rows, line, p) # 0 => Source(rows, line, p) \in line
<1>1. Says(rows, line, p) \in SUBSET (1..n) /\ Says(rows, line, p) \subseteq line
    BY DEF Says
<1>2. QED
    BY <1>1, MaxOfBounded DEF Source

LEMMA SourceStands ==
    ASSUME NEW rows, NEW n \in Nat, NEW line \in SUBSET (1..n), NEW p,
           Source(rows, line, p) # 0
    PROVE  Stands(rows, line, Source(rows, line, p), p)
<1> DEFINE says == Says(rows, line, p)
<1>1. says \in SUBSET (1..n) /\ says \subseteq line /\ says # {}
    BY DEF Says, Source
<1>2. Max(says) \in says /\ \A y \in says : y <= Max(says)
    BY <1>1, MaxOfBounded
<1>3. Source(rows, line, p) = Max(says) /\ rows[Max(says)].payload[p] # None
    BY DEF Source
<1>4. \A m \in line : rows[m].mode = "full" => m \in says
    BY DEF Says
<1> HIDE DEF says
<1>5. QED
    BY <1>1, <1>2, <1>3, <1>4 DEF Stands

Bounded(line, n) == n \in Nat /\ line \subseteq 1..n
Alike(rows, others, line) ==
    \A i \in line : rows[i].mode = others[i].mode /\ rows[i].payload = others[i].payload

\* It rests on payloads and modes alone.
LEMMA SourceFrame ==
    ASSUME NEW rows, NEW others, NEW n, NEW line, Bounded(line, n), NEW p,
           Alike(rows, others, line)
    PROVE  Source(rows, line, p) = Source(others, line, p)
<1>0. /\ n \in Nat /\ line \in SUBSET (1..n)
      /\ \A i \in line : rows[i].mode = others[i].mode /\ rows[i].payload = others[i].payload
    BY DEF Bounded, Alike
<1>1. Says(rows, line, p) = Says(others, line, p)
    BY <1>0 DEF Says
<1>2. CASE Says(rows, line, p) = {}
    BY <1>1, <1>2 DEF Source
<1>3. CASE Says(rows, line, p) # {}
    <2>1. Says(rows, line, p) \in SUBSET (1..n) /\ Says(rows, line, p) \subseteq line
        BY <1>0 DEF Says
    <2>2. Max(Says(rows, line, p)) \in line
        BY <1>0, <1>3, <2>1, MaxOfBounded
    <2>3. QED
        BY <1>0, <1>1, <2>2 DEF Source
<1>4. QED
    BY <1>2, <1>3

Extends(whole, line, i) ==
    i \in Nat \ {0} /\ line \subseteq 1..(i - 1) /\ whole = line \cup {i}

Decides(rows, whole, line, i, p) ==
    /\ rows[i].payload[p] # None => Source(rows, whole, p) = i
    /\ rows[i].payload[p] = None /\ rows[i].mode = "full" => Source(rows, whole, p) = 0
    /\ rows[i].payload[p] = None /\ rows[i].mode # "full"
        => Source(rows, whole, p) = Source(rows, line, p)

\* The last import of a line decides, when it says something of the parcel.
LEMMA SourceOfLast ==
    ASSUME NEW rows, NEW i, NEW line, NEW whole, Extends(whole, line, i), NEW p
    PROVE  Decides(rows, whole, line, i, p)
<1> DEFINE says == Says(rows, whole, p)
<1>0. /\ i \in Nat \ {0} /\ line \in SUBSET (1..(i - 1)) /\ whole = line \cup {i}
      /\ 1..(i - 1) \subseteq 1..i /\ i \in 1..i
    BY DEF Extends
<1>1. says \in SUBSET (1..i)
    <2>1. whole \subseteq 1..i
        BY <1>0
    <2>2. QED
        BY <2>1 DEF Says
<1>2. CASE rows[i].payload[p] # None \/ rows[i].mode = "full"
    <2>1. i \in says
        BY <1>0, <1>2 DEF Says
    <2>2. Max(says) \in says /\ \A y \in says : y <= Max(says)
        BY <1>0, <1>1, <2>1, MaxOfBounded
    <2> HIDE DEF says
    <2>3. Max(says) = i
        <3>1. Max(says) \in 1..i /\ i <= Max(says)
            BY <1>1, <2>1, <2>2
        <3>2. \A m : m \in 1..i /\ i <= m => m = i
            BY <1>0
        <3>3. QED
            BY <3>1, <3>2
    <2>4. Source(rows, whole, p) = IF rows[i].payload[p] = None THEN 0 ELSE i
        BY <2>1, <2>3 DEF Source, says
    <2>5. QED
        BY <1>2, <2>4 DEF Decides
<1>3. CASE rows[i].payload[p] = None /\ rows[i].mode # "full"
    <2>1. says = Says(rows, line, p)
        BY <1>0, <1>3 DEF Says
    <2>2. QED
        BY <1>3, <2>1 DEF Source, Decides
<1>4. QED
    BY <1>2, <1>3

----------------------------------------------------------------------------
(* Types *)

\* LineOf for the rows of any moment.
Line(rows, i) == IF i = 0 THEN {} ELSE rows[i].line

\* TypeOK, with lines that lead back and requests that name rows that are there.
TypeInv ==
    /\ TypeOK
    /\ \A i \in 1..Len(imports) :
        /\ imports[i].prev \in 0..(i - 1)
        /\ imports[i].line \subseteq 1..i
        /\ imports[i].line = Line(imports, imports[i].prev) \cup {i}
    /\ \A s \in Session : pending[s] # None =>
        /\ pending[s].op = "import" => pending[s].prev \in 0..Len(imports)
        /\ pending[s].op = "rollback" => pending[s].id \in 1..Len(imports)

LEMMA Rows ==
    ASSUME TypeInv
    PROVE  /\ imports \in Seq(ImportRow) /\ Len(imports) \in Nat /\ MaxImports \in Nat
           /\ Len(imports) <= MaxImports
           /\ \A i \in 1..Len(imports) : imports[i] \in ImportRow
           /\ pending \in [Session -> Request \cup {None}]
           /\ parcels \in [Parcel -> ParcelRow] /\ buildings \subseteq Parcel \X Key \X Id
           /\ current \in 0..Len(imports)
BY LenProperties, ElementOfSeq, BoundAssumption DEF TypeInv, TypeOK

LEMMA LineBound ==
    ASSUME TypeInv, NEW i \in 0..Len(imports)
    PROVE  LineOf(i) \in SUBSET (1..i) /\ LineOf(i) = Line(imports, i)
<1>1. CASE i = 0
    BY <1>1 DEF LineOf, Line
<1>2. CASE i # 0
    <2>1. i \in 1..Len(imports)
        BY <1>2, Rows
    <2>2. QED
        BY <1>2, <2>1 DEF LineOf, Line, TypeInv
<1>3. QED
    BY <1>1, <1>2

\* An import adds a row at the end.
LEMMA Appended ==
    ASSUME TypeInv, NEW request, request \in Request, request.op = "import",
           request.prev \in 0..Len(imports),
           NEW status \in {"imported", "parse_failed"},
           Len(imports) < MaxImports, AppendImport(request, status)
    PROVE  /\ imports' \in Seq(ImportRow) /\ Len(imports') = Len(imports) + 1
           /\ \A i \in 1..Len(imports) : imports'[i] = imports[i]
           /\ imports'[Len(imports) + 1] =
                [payload |-> request.payload, mode |-> request.mode, prev |-> request.prev,
                 line |-> LineOf(request.prev) \cup {Len(imports) + 1}, status |-> status]
           /\ request.payload \in Payload /\ request.mode \in Mode
<1> DEFINE row == [payload |-> request.payload, mode |-> request.mode, prev |-> request.prev,
                   line |-> LineOf(request.prev) \cup {Len(imports) + 1}, status |-> status]
<1>1. request.payload \in Payload /\ request.mode \in Mode
    BY DEF Request
<1>2. LineOf(request.prev) \cup {Len(imports) + 1} \in SUBSET Id
    <2>1. LineOf(request.prev) \in SUBSET (1..request.prev)
        BY LineBound
    <2>2. 1..request.prev \subseteq Id /\ Len(imports) + 1 \in Id
        BY Rows DEF Id
    <2>3. QED
        BY <2>1, <2>2
<1>3. request.prev \in 0..MaxImports
    BY Rows
<1>4. row \in ImportRow
    BY <1>1, <1>2, <1>3 DEF ImportRow
<1>5. imports' = Append(imports, row)
    BY DEF AppendImport
<1> HIDE DEF row
<1>6. /\ imports' \in Seq(ImportRow) /\ Len(imports') = Len(imports) + 1
      /\ \A i \in 1..Len(imports) : imports'[i] = imports[i]
      /\ imports'[Len(imports) + 1] = row
    BY <1>4, <1>5, Rows, AppendProperties
<1>7. QED
    BY <1>1, <1>6 DEF row

\* A rollback marks one row.
LEMMA Marked ==
    ASSUME TypeInv, NEW id \in 1..Len(imports),
           imports' = [imports EXCEPT ![id].status = "rolled_back"]
    PROVE  /\ imports' \in Seq(ImportRow) /\ Len(imports') = Len(imports)
           /\ \A i \in 1..Len(imports) :
                /\ imports'[i].payload = imports[i].payload
                /\ imports'[i].mode = imports[i].mode
                /\ imports'[i].prev = imports[i].prev
                /\ imports'[i].line = imports[i].line
                /\ imports'[i].status = IF i = id THEN "rolled_back" ELSE imports[i].status
<1> DEFINE row == [imports[id] EXCEPT !.status = "rolled_back"]
<1>1. /\ row \in ImportRow /\ row.status = "rolled_back"
      /\ row.payload = imports[id].payload /\ row.mode = imports[id].mode
      /\ row.prev = imports[id].prev /\ row.line = imports[id].line
    BY Rows DEF ImportRow
<1>2. imports' = [imports EXCEPT ![id] = row]
    OBVIOUS
<1> HIDE DEF row
<1>3. imports \in Seq(ImportRow)
    BY Rows
<1>3a. /\ imports' \in Seq(ImportRow) /\ Len(imports') = Len(imports)
      /\ \A i \in 1..Len(imports) : imports'[i] = IF i = id THEN row ELSE imports[i]
    BY <1>1, <1>2, <1>3, ExceptSeq
<1>4. QED
    BY <1>1, <1>3a

LEMMA TypeInitial == Init => TypeInv
<1> SUFFICES ASSUME Init PROVE TypeInv
    OBVIOUS
<1>1. /\ imports \in Seq(ImportRow) /\ Len(imports) = 0 /\ current = 0
      /\ aliases = {} /\ buildings = {} /\ raced = FALSE
      /\ \A s \in Session : pending[s] = None
    BY DEF Init
<1>2. /\ parcels \in [Parcel -> ParcelRow] /\ buildings \subseteq Parcel \X Key \X Id
      /\ pending \in [Session -> Request \cup {None}]
    BY BoundAssumption DEF Init, ParcelRow
<1>3. TypeOK
    <2>1. aliases \subseteq Parcel \X Address \X Id /\ raced \in BOOLEAN
        BY <1>1
    <2>2. Len(imports) <= MaxImports /\ current \in 0..Len(imports)
        BY <1>1, BoundAssumption
    <2>3. QED
        BY <1>1, <1>2, <2>1, <2>2 DEF TypeOK
<1>4. QED
    BY <1>1, <1>3 DEF TypeInv

\* The lines, as rows are added or marked.
LEMMA LinesStay ==
    ASSUME TypeInv, Len(imports') \in Nat,
           1..Len(imports) \subseteq 1..Len(imports'),
           \A i \in 1..Len(imports) :
                imports'[i].prev = imports[i].prev /\ imports'[i].line = imports[i].line
    PROVE  /\ \A i \in 0..Len(imports) : Line(imports', i) = LineOf(i)
           /\ \A i \in 1..Len(imports) :
                /\ imports'[i].prev \in 0..(i - 1)
                /\ imports'[i].line \subseteq 1..i
                /\ imports'[i].line = Line(imports', imports'[i].prev) \cup {i}
<1>1. \A i \in 0..Len(imports) : Line(imports', i) = Line(imports, i)
    BY Rows DEF Line
<1>2. ASSUME NEW i \in 1..Len(imports)
      PROVE  /\ imports'[i].prev \in 0..(i - 1)
             /\ imports'[i].line \subseteq 1..i
             /\ imports'[i].line = Line(imports', imports'[i].prev) \cup {i}
    <2>1. imports[i].prev \in 0..Len(imports) /\ imports[i].prev \in 0..(i - 1)
        BY Rows DEF TypeInv
    <2>2. QED
        BY <1>1, <2>1 DEF TypeInv
<1>3. QED
    BY <1>1, <1>2, LineBound


\* A request that begins, commits or is refused.
LEMMA AskedType ==
    ASSUME TypeInv, NEW s \in Session, NEW request \in Request \cup {None},
           pending' = [pending EXCEPT ![s] = request],
           Len(imports') \in Nat, Len(imports) <= Len(imports'),
           request # None =>
                /\ request.op = "import" => request.prev \in 0..Len(imports)
                /\ request.op = "rollback" => request.id \in 1..Len(imports)
    PROVE  /\ pending' \in [Session -> Request \cup {None}]
           /\ \A t \in Session : pending'[t] # None =>
                /\ pending'[t].op = "import" => pending'[t].prev \in 0..Len(imports')
                /\ pending'[t].op = "rollback" => pending'[t].id \in 1..Len(imports')
<1>1. ASSUME NEW t \in Session, pending'[t] # None
      PROVE  /\ pending'[t].op = "import" => pending'[t].prev \in 0..Len(imports)
             /\ pending'[t].op = "rollback" => pending'[t].id \in 1..Len(imports)
    <2>1. CASE t = s
        BY <1>1, <2>1, Rows
    <2>2. CASE t # s
        <3>1. pending'[t] = pending[t]
            BY <2>2, Rows
        <3>2. QED
            BY <1>1, <3>1 DEF TypeInv
    <2>3. QED
        BY <2>1, <2>2
<1>2. 0..Len(imports) \subseteq 0..Len(imports') /\ 1..Len(imports) \subseteq 1..Len(imports')
    BY Rows
<1>3. pending' \in [Session -> Request \cup {None}]
    BY Rows
<1>4. QED
    BY <1>1, <1>2, <1>3

LEMMA ClearedType ==
    ASSUME TypeInv, NEW s \in Session, pending' = [pending EXCEPT ![s] = None],
           Len(imports') \in Nat, Len(imports) <= Len(imports')
    PROVE  /\ pending' \in [Session -> Request \cup {None}]
           /\ \A t \in Session : pending'[t] # None =>
                /\ pending'[t].op = "import" => pending'[t].prev \in 0..Len(imports')
                /\ pending'[t].op = "rollback" => pending'[t].id \in 1..Len(imports')
<1>1. None \in Request \cup {None}
    OBVIOUS
<1>2. QED
    BY <1>1, AskedType

LEMMA RequestType ==
    ASSUME TypeInv, NEW s \in Session, pending[s] # None
    PROVE  /\ pending[s] \in Request
           /\ pending[s].op = "import" => pending[s].prev \in 0..Len(imports)
           /\ pending[s].op = "rollback" => pending[s].id \in 1..Len(imports)
BY Rows DEF TypeInv

LEMMA ImportStepType ==
    ASSUME TypeInv, NEW s \in Session, CommitImport(s)
    PROVE  TypeInv'
<1> DEFINE id == Len(imports) + 1
<1>1. /\ pending[s] # None /\ pending[s].op = "import"
      /\ Len(imports) < MaxImports /\ AppendImport(pending[s], "imported")
      /\ current' = id /\ pending' = [pending EXCEPT ![s] = None]
    BY DEF CommitImport, ImportFits
<1>2. /\ pending[s] \in Request /\ pending[s].prev \in 0..Len(imports)
    BY <1>1, RequestType
<1>3. /\ imports' \in Seq(ImportRow) /\ Len(imports') = id
      /\ \A i \in 1..Len(imports) : imports'[i] = imports[i]
      /\ imports'[id].prev = pending[s].prev
      /\ imports'[id].line = LineOf(pending[s].prev) \cup {id}
      /\ pending[s].payload \in Payload
    <2>1. "imported" \in {"imported", "parse_failed"}
        OBVIOUS
    <2>2. /\ imports' \in Seq(ImportRow) /\ Len(imports') = Len(imports) + 1
          /\ \A i \in 1..Len(imports) : imports'[i] = imports[i]
          /\ imports'[Len(imports) + 1] =
                [payload |-> pending[s].payload, mode |-> pending[s].mode,
                 prev |-> pending[s].prev,
                 line |-> LineOf(pending[s].prev) \cup {Len(imports) + 1}, status |-> "imported"]
          /\ pending[s].payload \in Payload /\ pending[s].mode \in Mode
        BY <1>1, <1>2, <2>1, Appended
    <2>3. QED
        BY <2>2
<1>4. id \in Id /\ id \in 0..MaxImports /\ id \in Nat
    BY <1>1, Rows DEF Id
<1>5. parcels' \in [Parcel -> ParcelRow]
    <2>1. ASSUME NEW p \in Parcel
          PROVE  ImportedParcel(parcels[p], pending[s].payload[p], pending[s].mode, id) \in ParcelRow
        <3>1. parcels[p] \in ParcelRow /\ pending[s].payload[p] \in Listing \cup {None}
            BY <1>3, Rows, PayloadAssumption
        <3>2. QED
            BY <1>4, <3>1 DEF ImportedParcel, ParcelRow
    <2>2. parcels' = [p \in Parcel |->
            ImportedParcel(parcels[p], pending[s].payload[p], pending[s].mode, id)]
        BY DEF CommitImport
    <2>3. QED
        BY <2>1, <2>2
<1>6. \A p \in Named(pending[s].payload) :
        /\ p \in Parcel
        /\ pending[s].payload[p].address \in Address /\ pending[s].payload[p].key \in Key
    BY <1>3, PayloadAssumption DEF Named, Listing
<1>6a. buildings' \subseteq Parcel \X Key \X Id
    <2>1. buildings' = ImportedBuildings(pending[s], id)
        BY DEF CommitImport
    <2> HIDE DEF id
    <2>2. buildings \subseteq Parcel \X Key \X Id
        BY Rows
    <2>3. {<<p, pending[s].payload[p].key, id>> : p \in Named(pending[s].payload)}
            \subseteq Parcel \X Key \X Id
        BY <1>4, <1>6
    <2>4. QED
        BY <2>1, <2>2, <2>3 DEF ImportedBuildings, Retargeted
<1>7. aliases' \subseteq Parcel \X Address \X Id
    <2>1. aliases' = ImportedAliases(pending[s], id)
        BY DEF CommitImport
    <2> HIDE DEF id
    <2>2. aliases \subseteq Parcel \X Address \X Id
        BY DEF TypeInv, TypeOK
    <2>3. QED
        BY <1>4, <1>6, <2>1, <2>2 DEF ImportedAliases
<1>8. raced' \in BOOLEAN
    BY DEF CommitImport, TypeInv, TypeOK
<1>9. 1..Len(imports) \subseteq 1..Len(imports')
    BY <1>3, Rows
<1>10. /\ \A i \in 0..Len(imports) : Line(imports', i) = LineOf(i)
       /\ \A i \in 1..Len(imports) :
            /\ imports'[i].prev \in 0..(i - 1)
            /\ imports'[i].line \subseteq 1..i
            /\ imports'[i].line = Line(imports', imports'[i].prev) \cup {i}
    BY <1>3, <1>4, <1>9, LinesStay
<1>11. /\ imports'[id].prev \in 0..(id - 1)
       /\ imports'[id].line \subseteq 1..id
       /\ imports'[id].line = Line(imports', imports'[id].prev) \cup {id}
    <2>1. LineOf(pending[s].prev) \in SUBSET (1..pending[s].prev)
        BY <1>2, LineBound
    <2>2. 1..pending[s].prev \subseteq 1..id /\ id \in 1..id
        BY <1>2, Rows
    <2>3. QED
        BY <1>2, <1>3, <1>10, <2>1, <2>2, Rows
<1>12. \A i \in 1..Len(imports') : i \in 1..Len(imports) \/ i = id
    BY <1>3, Rows
<1>13. /\ pending' \in [Session -> Request \cup {None}]
       /\ \A t \in Session : pending'[t] # None =>
            /\ pending'[t].op = "import" => pending'[t].prev \in 0..Len(imports')
            /\ pending'[t].op = "rollback" => pending'[t].id \in 1..Len(imports')
    <2>1. /\ Len(imports') \in Nat /\ Len(imports) <= Len(imports')
          /\ pending' = [pending EXCEPT ![s] = None]
        BY <1>1, <1>3, Rows
    <2>2. QED
        BY <2>1, ClearedType
<1>14. Len(imports') <= MaxImports /\ current' \in 0..Len(imports')
    BY <1>1, <1>3, Rows
<1> HIDE DEF id
<1>15. TypeOK'
    BY <1>3, <1>5, <1>6a, <1>7, <1>8, <1>13, <1>14 DEF TypeOK
<1>16. QED
    BY <1>10, <1>11, <1>12, <1>13, <1>15 DEF TypeInv

LEMMA FailedStepType ==
    ASSUME TypeInv, NEW s \in Session, CommitFailedImport(s)
    PROVE  TypeInv'
<1> DEFINE id == Len(imports) + 1
<1>1. /\ pending[s] # None /\ pending[s].op = "import"
      /\ Len(imports) < MaxImports /\ AppendImport(pending[s], "parse_failed")
      /\ pending' = [pending EXCEPT ![s] = None]
      /\ UNCHANGED <<current, projection, raced>>
    BY DEF CommitFailedImport, ImportFits
<1>2. /\ pending[s] \in Request /\ pending[s].prev \in 0..Len(imports)
    BY <1>1, RequestType
<1>3. /\ imports' \in Seq(ImportRow) /\ Len(imports') = id
      /\ \A i \in 1..Len(imports) : imports'[i] = imports[i]
      /\ imports'[id].prev = pending[s].prev
      /\ imports'[id].line = LineOf(pending[s].prev) \cup {id}
    <2>1. "parse_failed" \in {"imported", "parse_failed"}
        OBVIOUS
    <2>2. /\ imports' \in Seq(ImportRow) /\ Len(imports') = Len(imports) + 1
          /\ \A i \in 1..Len(imports) : imports'[i] = imports[i]
          /\ imports'[Len(imports) + 1] =
                [payload |-> pending[s].payload, mode |-> pending[s].mode,
                 prev |-> pending[s].prev,
                 line |-> LineOf(pending[s].prev) \cup {Len(imports) + 1}, status |-> "parse_failed"]
          /\ pending[s].payload \in Payload /\ pending[s].mode \in Mode
        BY <1>1, <1>2, <2>1, Appended
    <2>3. QED
        BY <2>2
<1>4. id \in Nat /\ 1..Len(imports) \subseteq 1..Len(imports')
    BY <1>3, Rows
<1>5. /\ \A i \in 0..Len(imports) : Line(imports', i) = LineOf(i)
      /\ \A i \in 1..Len(imports) :
            /\ imports'[i].prev \in 0..(i - 1)
            /\ imports'[i].line \subseteq 1..i
            /\ imports'[i].line = Line(imports', imports'[i].prev) \cup {i}
    BY <1>3, <1>4, LinesStay
<1>6. /\ imports'[id].prev \in 0..(id - 1)
      /\ imports'[id].line \subseteq 1..id
      /\ imports'[id].line = Line(imports', imports'[id].prev) \cup {id}
    <2>1. LineOf(pending[s].prev) \in SUBSET (1..pending[s].prev)
        BY <1>2, LineBound
    <2>2. 1..pending[s].prev \subseteq 1..id /\ id \in 1..id
        BY <1>2, Rows
    <2>3. QED
        BY <1>2, <1>3, <1>5, <2>1, <2>2, Rows
<1>7. \A i \in 1..Len(imports') : i \in 1..Len(imports) \/ i = id
    BY <1>3, Rows
<1>8. /\ pending' \in [Session -> Request \cup {None}]
      /\ \A t \in Session : pending'[t] # None =>
            /\ pending'[t].op = "import" => pending'[t].prev \in 0..Len(imports')
            /\ pending'[t].op = "rollback" => pending'[t].id \in 1..Len(imports')
    <2>1. /\ Len(imports') \in Nat /\ Len(imports) <= Len(imports')
          /\ pending' = [pending EXCEPT ![s] = None]
        BY <1>1, <1>3, Rows
    <2>2. QED
        BY <2>1, ClearedType
<1>9. Len(imports') <= MaxImports /\ current' \in 0..Len(imports')
    BY <1>1, <1>3, Rows
<1> HIDE DEF id
<1>10. TypeOK'
    BY <1>1, <1>3, <1>8, <1>9 DEF TypeInv, TypeOK, projection
<1>11. QED
    BY <1>5, <1>6, <1>7, <1>8, <1>10 DEF TypeInv

LEMMA RollbackStepType ==
    ASSUME TypeInv, NEW s \in Session, CommitRollback(s)
    PROVE  TypeInv'
<1> DEFINE id == pending[s].id
           prev == imports[id].prev
           line == LineOf(prev)
<1>1. /\ pending[s] # None /\ pending[s].op = "rollback"
      /\ imports' = [imports EXCEPT ![id].status = "rolled_back"]
      /\ current' = IF prev # 0 THEN prev ELSE IF current = id THEN 0 ELSE current
      /\ pending' = [pending EXCEPT ![s] = None]
    BY DEF CommitRollback
<1>2. id \in 1..Len(imports)
    BY <1>1, RequestType
<1>3. /\ imports' \in Seq(ImportRow) /\ Len(imports') = Len(imports)
      /\ \A i \in 1..Len(imports) :
            imports'[i].prev = imports[i].prev /\ imports'[i].line = imports[i].line
    BY <1>1, <1>2, Marked
<1>4. /\ prev \in 0..Len(imports) /\ prev \in 0..MaxImports
      /\ line \in SUBSET (1..Len(imports)) /\ 1..Len(imports) \subseteq Id
      /\ 0..Len(imports) \subseteq 0..MaxImports
    <2>1. prev \in 0..(id - 1)
        BY <1>2 DEF TypeInv
    <2>2. prev \in 0..Len(imports) /\ 1..prev \subseteq 1..Len(imports)
        BY <1>2, <2>1, Rows
    <2>3. QED
        BY <2>2, LineBound, Rows DEF Id
<1>5. \A p \in Sourced(line) :
            /\ p \in Parcel /\ SourceOf(line, p) \in 1..Len(imports)
            /\ Said(line, p) \in Listing
    <2> HIDE DEF line, id, prev
    <2>1. ASSUME NEW p \in Sourced(line)
          PROVE  /\ p \in Parcel /\ SourceOf(line, p) \in 1..Len(imports)
                 /\ Said(line, p) \in Listing
        <3> DEFINE j == SourceOf(line, p)
        <3>1. p \in Parcel /\ j = Source(imports, line, p) /\ j # 0
            BY SourceIs DEF Sourced
        <3>2. j \in 1..Len(imports)
            BY <1>4, <3>1, SourceInLine, Rows
        <3>3. imports[j].payload[p] # None
            BY <3>1 DEF Source
        <3>4. Said(line, p) = imports[j].payload[p]
            BY DEF Said
        <3> HIDE DEF j
        <3>5. imports[j].payload \in Payload
            BY <3>2, Rows DEF ImportRow
        <3>6. imports[j].payload[p] \in Listing
            BY <3>1, <3>3, <3>5, PayloadAssumption
        <3>7. QED
            BY <3>1, <3>2, <3>4, <3>6 DEF j
    <2>2. QED
        BY <2>1
<1>6. parcels' \in [Parcel -> ParcelRow]
    <2>1. parcels' = [p \in Parcel |-> RestoredParcel(parcels[p], SourceOf(line, p), p, prev)]
        BY DEF CommitRollback
    <2> HIDE DEF line, prev, id
    <2>2. ASSUME NEW p \in Parcel
          PROVE  RestoredParcel(parcels[p], SourceOf(line, p), p, prev) \in ParcelRow
        <3> DEFINE j == SourceOf(line, p)
        <3>1. j # 0 => j \in 0..MaxImports /\ imports[j].payload[p] \in Listing
            BY <1>4, <1>5 DEF Sourced, Said
        <3>2. parcels[p] \in ParcelRow
            BY Rows
        <3> HIDE DEF j
        <3>3. RestoredParcel(parcels[p], j, p, prev) \in ParcelRow
            <4>1. CASE j # 0
                <5>1. RestoredParcel(parcels[p], j, p, prev) =
                        [active |-> TRUE, listing |-> imports[j].payload[p], from |-> j]
                    BY <4>1 DEF RestoredParcel
                <5>2. QED
                    BY <3>1, <4>1, <5>1 DEF ParcelRow
            <4>2. CASE j = 0
                <5> DEFINE from == IF parcels[p].listing = None THEN 0 ELSE prev
                <5>1. from \in 0..MaxImports
                    BY <1>4, BoundAssumption
                <5>2. RestoredParcel(parcels[p], j, p, prev) =
                        [parcels[p] EXCEPT !.active = FALSE, !.from = from]
                    BY <4>2 DEF RestoredParcel
                <5> HIDE DEF from
                <5>3. QED
                    BY <3>2, <5>1, <5>2 DEF ParcelRow
            <4>3. QED
                BY <4>1, <4>2
        <3>4. QED
            BY <3>3 DEF j
    <2>3. QED
        BY <2>1, <2>2
<1>7. buildings' \subseteq Parcel \X Key \X Id
    <2>1. buildings' = RestoredBuildings(id, line)
        BY DEF CommitRollback
    <2> HIDE DEF line, prev, id
    <2>2. buildings \subseteq Parcel \X Key \X Id
        BY Rows
    <2>3. {<<p, Said(line, p).key, SourceOf(line, p)>> : p \in Sourced(line)}
            \subseteq Parcel \X Key \X Id
        BY <1>4, <1>5 DEF Listing
    <2>4. QED
        BY <2>1, <2>2, <2>3 DEF RestoredBuildings, Retargeted
<1>8. aliases' \subseteq Parcel \X Address \X Id
    <2>1. aliases' = RestoredAliases(id, line)
        BY DEF CommitRollback
    <2> HIDE DEF line, prev, id
    <2>2. aliases \subseteq Parcel \X Address \X Id
        BY DEF TypeInv, TypeOK
    <2>3. MissingAliases(line) \subseteq Parcel \X Address \X Id
        BY <1>4, <1>5 DEF MissingAliases, Listing
    <2>4. QED
        BY <2>1, <2>2, <2>3 DEF RestoredAliases
<1>9. raced' \in BOOLEAN
    BY DEF CommitRollback, TypeInv, TypeOK
<1>10. /\ pending' \in [Session -> Request \cup {None}]
       /\ \A t \in Session : pending'[t] # None =>
            /\ pending'[t].op = "import" => pending'[t].prev \in 0..Len(imports')
            /\ pending'[t].op = "rollback" => pending'[t].id \in 1..Len(imports')
    <2>1. /\ Len(imports') \in Nat /\ Len(imports) <= Len(imports')
          /\ pending' = [pending EXCEPT ![s] = None]
        BY <1>1, <1>3, Rows
    <2>2. QED
        BY <2>1, ClearedType
<1>11. current' \in 0..Len(imports') /\ Len(imports') <= MaxImports
    <2> HIDE DEF line, prev, id
    <2>1. QED
        BY <1>1, <1>3, <1>4, Rows
<1>12. \A i \in 1..Len(imports) :
            /\ imports'[i].prev \in 0..(i - 1)
            /\ imports'[i].line \subseteq 1..i
            /\ imports'[i].line = Line(imports', imports'[i].prev) \cup {i}
    BY <1>3, Rows, LinesStay
<1> HIDE DEF id, prev, line
<1>13. TypeOK'
    BY <1>3, <1>6, <1>7, <1>8, <1>9, <1>10, <1>11 DEF TypeOK
<1>14. QED
    BY <1>3, <1>10, <1>12, <1>13 DEF TypeInv

LEMMA TypeStep ==
    ASSUME TypeInv, [Next]_vars
    PROVE  TypeInv'
<1>1. ASSUME UNCHANGED <<imports, current, projection, raced>>,
             NEW s \in Session, NEW q \in Request \cup {None},
             pending' = [pending EXCEPT ![s] = q],
             q # None =>
                /\ q.op = "import" => q.prev \in 0..Len(imports)
                /\ q.op = "rollback" => q.id \in 1..Len(imports)
      PROVE  TypeInv'
    <2>1. /\ pending' \in [Session -> Request \cup {None}]
          /\ \A t \in Session : pending'[t] # None =>
                /\ pending'[t].op = "import" => pending'[t].prev \in 0..Len(imports')
                /\ pending'[t].op = "rollback" => pending'[t].id \in 1..Len(imports')
        <3>1. /\ Len(imports') \in Nat /\ Len(imports) <= Len(imports')
              /\ pending' = [pending EXCEPT ![s] = q]
            BY <1>1, Rows
        <3>2. q # None =>
                /\ q.op = "import" => q.prev \in 0..Len(imports)
                /\ q.op = "rollback" => q.id \in 1..Len(imports)
            BY <1>1
        <3>3. QED
            BY <3>1, <3>2, AskedType
    <2>2. QED
        BY <1>1, <2>1 DEF TypeInv, TypeOK, projection
<1>2. ASSUME NEW s \in Session, BeginImport(s)
      PROVE  TypeInv'
    <2>1. PICK payload \in Payload, mode \in Mode : pending' = [pending EXCEPT ![s] =
            [op |-> "import", payload |-> payload, mode |-> mode, prev |-> current]]
        BY <1>2 DEF BeginImport
    <2> DEFINE q == [op |-> "import", payload |-> payload, mode |-> mode, prev |-> current]
    <2>2. q \in Request /\ q.prev \in 0..Len(imports) /\ q.op = "import"
        BY Rows DEF Request
    <2>3. UNCHANGED <<imports, current, projection, raced>>
        BY <1>2 DEF BeginImport
    <2> HIDE DEF q
    <2>4. pending' = [pending EXCEPT ![s] = q]
        BY <2>1 DEF q
    <2>5. QED
        BY <1>1, <2>2, <2>3, <2>4
<1>3. ASSUME NEW s \in Session, BeginRollback(s)
      PROVE  TypeInv'
    <2> DEFINE q == [op |-> "rollback", id |-> current]
    <2>1. q \in Request /\ q.id \in 1..Len(imports) /\ q.op = "rollback"
        BY <1>3, Rows DEF Request, BeginRollback, Id
    <2>2. /\ UNCHANGED <<imports, current, projection, raced>>
          /\ pending' = [pending EXCEPT ![s] = q]
        BY <1>3 DEF BeginRollback
    <2> HIDE DEF q
    <2>3. QED
        BY <1>1, <2>1, <2>2
<1>4. ASSUME NEW s \in Session, Refuse(s)
      PROVE  TypeInv'
    BY <1>1, <1>4 DEF Refuse
<1>5. CASE UNCHANGED vars
    BY <1>5 DEF vars, projection, TypeInv, TypeOK
<1>6. QED
    BY <1>2, <1>3, <1>4, <1>5, ImportStepType, FailedStepType, RollbackStepType DEF Next

\* Rows, projection and requests keep the shape of their tables.
THEOREM TypeSafety == Spec => []TypeOK
<1>1. TypeInv => TypeOK
    BY DEF TypeInv
<1>2. QED
    BY <1>1, TypeInitial, TypeStep, PTL DEF Spec

----------------------------------------------------------------------------
(* What the steps do to the rows *)

LEMMA ImportRows ==
    ASSUME TypeInv, NEW s \in Session, pending[s] # None, pending[s].op = "import",
           Len(imports) < MaxImports, NEW status \in {"imported", "parse_failed"},
           AppendImport(pending[s], status)
    PROVE  /\ Len(imports') = Len(imports) + 1
           /\ \A i \in 1..Len(imports) : imports'[i] = imports[i]
           /\ \A i \in 1..Len(imports') : i \notin 1..Len(imports) => i = Len(imports) + 1
           /\ imports'[Len(imports) + 1].payload = pending[s].payload
           /\ imports'[Len(imports) + 1].mode = pending[s].mode
           /\ imports'[Len(imports) + 1].prev = pending[s].prev
           /\ imports'[Len(imports) + 1].status = status
           /\ imports'[Len(imports) + 1].line = LineOf(pending[s].prev) \cup {Len(imports) + 1}
           /\ pending[s].prev \in 0..Len(imports)
           /\ \A i \in 0..Len(imports) : Line(imports', i) = LineOf(i)
<1>1. pending[s] \in Request /\ pending[s].prev \in 0..Len(imports)
    BY RequestType
<1>2. /\ Len(imports') = Len(imports) + 1
      /\ \A i \in 1..Len(imports) : imports'[i] = imports[i]
      /\ imports'[Len(imports) + 1] =
            [payload |-> pending[s].payload, mode |-> pending[s].mode, prev |-> pending[s].prev,
             line |-> LineOf(pending[s].prev) \cup {Len(imports) + 1}, status |-> status]
    BY <1>1, Appended
<1>3. \A i \in 1..Len(imports') : i \notin 1..Len(imports) => i = Len(imports) + 1
    BY <1>2, Rows
<1>4. Len(imports') \in Nat /\ 1..Len(imports) \subseteq 1..Len(imports')
    BY <1>2, Rows
<1>5. \A i \in 0..Len(imports) : Line(imports', i) = LineOf(i)
    BY <1>2, <1>4, LinesStay
<1>6. QED
    BY <1>1, <1>2, <1>3, <1>5

LEMMA RollbackRows ==
    ASSUME TypeInv, NEW s \in Session, CommitRollback(s)
    PROVE  /\ pending[s].id \in 1..Len(imports)
           /\ Len(imports') = Len(imports)
           /\ \A i \in 1..Len(imports) :
                /\ imports'[i].payload = imports[i].payload
                /\ imports'[i].mode = imports[i].mode
                /\ imports'[i].prev = imports[i].prev
                /\ imports'[i].status =
                        IF i = pending[s].id THEN "rolled_back" ELSE imports[i].status
           /\ \A i \in 0..Len(imports) : Line(imports', i) = LineOf(i)
           /\ imports[pending[s].id].prev \in 0..(pending[s].id - 1)
           /\ imports[pending[s].id].prev \in 0..Len(imports)
<1>1. pending[s].id \in 1..Len(imports)
    BY RequestType DEF CommitRollback
<1>2. imports' = [imports EXCEPT ![pending[s].id].status = "rolled_back"]
    BY DEF CommitRollback
<1>3. /\ Len(imports') = Len(imports)
      /\ \A i \in 1..Len(imports) :
            /\ imports'[i].payload = imports[i].payload
            /\ imports'[i].mode = imports[i].mode
            /\ imports'[i].prev = imports[i].prev
            /\ imports'[i].line = imports[i].line
            /\ imports'[i].status = IF i = pending[s].id THEN "rolled_back" ELSE imports[i].status
    BY <1>1, <1>2, Marked
<1>4. \A i \in 0..Len(imports) : Line(imports', i) = LineOf(i)
    BY <1>3, Rows, LinesStay
<1>5. /\ imports[pending[s].id].prev \in 0..(pending[s].id - 1)
      /\ imports[pending[s].id].prev \in 0..Len(imports)
    BY <1>1, Rows DEF TypeInv
<1>6. QED
    BY <1>1, <1>3, <1>4, <1>5

----------------------------------------------------------------------------
(* What the unique index on the current import stops *)

Failed(rows, i) == rows[i].status = "parse_failed"
Uprooted(rows) == \E i \in 1..Len(rows) : rows[i].status = "rolled_back" /\ rows[i].prev = 0

\* Nobody builds on a failed import, and none is current while another is there only
\* after an import without a predecessor was rolled back.
Rooted ==
    /\ current # 0 => ~Failed(imports, current)
    /\ \A i \in 1..Len(imports) : imports[i].prev # 0 => ~Failed(imports, imports[i].prev)
    /\ \A s \in Session : pending[s] # None =>
        /\ pending[s].op = "import" /\ pending[s].prev # 0 => ~Failed(imports, pending[s].prev)
        /\ pending[s].op = "rollback" => ~Failed(imports, pending[s].id)
    /\ current = 0 /\ (\E i \in 1..Len(imports) : ~Failed(imports, i)) => Uprooted(imports)
    /\ raced => Uprooted(imports)

LEMMA RootedImport ==
    ASSUME TypeInv, Rooted, NEW s \in Session, pending[s] # None, pending[s].op = "import",
           Len(imports) < MaxImports, NEW status \in {"imported", "parse_failed"},
           AppendImport(pending[s], status), pending' = [pending EXCEPT ![s] = None],
           \/ current' = current /\ status = "parse_failed" /\ raced' = raced
           \/ /\ current' = Len(imports) + 1 /\ status = "imported"
              /\ raced' = (raced \/ current # pending[s].prev)
              /\ current \in {0, pending[s].prev}
    PROVE  Rooted'
<1> DEFINE id == Len(imports) + 1
<1>1. /\ Len(imports') = id
      /\ \A i \in 1..Len(imports) : imports'[i] = imports[i]
      /\ \A i \in 1..Len(imports') : i \notin 1..Len(imports) => i = id
      /\ imports'[id].prev = pending[s].prev
      /\ imports'[id].status = status
      /\ pending[s].prev \in 0..Len(imports)
    BY ImportRows
<1>2. id \in 1..Len(imports') /\ id # 0 /\ 1..Len(imports) \subseteq 1..Len(imports')
    BY <1>1, Rows
<1>3. \A i \in 0..Len(imports) : i # 0 => i \in 1..Len(imports)
    BY Rows
<1> HIDE DEF id
<1>4. \A i \in 1..Len(imports) : Failed(imports', i) <=> Failed(imports, i)
    BY <1>1 DEF Failed
<1>5. Uprooted(imports) => Uprooted(imports')
    BY <1>1, <1>2 DEF Uprooted
<1>6. current' # 0 => ~Failed(imports', current')
    <2>1. CASE current' = current
        BY <1>3, <1>4, <2>1, Rows DEF Rooted
    <2>2. CASE current' = id /\ status = "imported"
        BY <1>1, <2>2 DEF Failed
    <2>3. QED
        BY <2>1, <2>2 DEF id
<1>7. ASSUME NEW i \in 1..Len(imports'), imports'[i].prev # 0
      PROVE  ~Failed(imports', imports'[i].prev)
    <2>1. CASE i \in 1..Len(imports)
        <3>1. imports[i].prev \in 1..Len(imports) /\ imports'[i].prev = imports[i].prev
            BY <1>1, <1>7, <2>1, Rows DEF TypeInv
        <3>2. QED
            BY <1>4, <2>1, <3>1, Rows DEF Rooted
    <2>2. CASE i \notin 1..Len(imports)
        <3>1. imports'[i].prev = pending[s].prev /\ pending[s].prev \in 1..Len(imports)
            BY <1>1, <1>3, <1>7, <2>2
        <3>2. QED
            BY <1>4, <3>1, Rows DEF Rooted
    <2>3. QED
        BY <2>1, <2>2
<1>8. ASSUME NEW t \in Session, pending'[t] # None
      PROVE  /\ pending'[t].op = "import" /\ pending'[t].prev # 0
                    => ~Failed(imports', pending'[t].prev)
             /\ pending'[t].op = "rollback" => ~Failed(imports', pending'[t].id)
    <2>1. pending'[t] = pending[t]
        BY <1>8, Rows
    <2>2. QED
        BY <1>3, <1>4, <1>8, <2>1, RequestType DEF Rooted
<1>9. raced' => Uprooted(imports')
    <2>1. CASE raced
        BY <1>5, <2>1 DEF Rooted
    <2>2. CASE ~raced /\ raced'
        <3>1. current = 0 /\ pending[s].prev \in 1..Len(imports)
            BY <1>1, <1>3, <2>2
        <3>2. ~Failed(imports, pending[s].prev)
            BY <3>1 DEF Rooted
        <3>3. QED
            BY <1>5, <3>1, <3>2 DEF Rooted
    <2>3. QED
        BY <2>1, <2>2
<1>10. ASSUME current' = 0, NEW i \in 1..Len(imports'), ~Failed(imports', i)
       PROVE  Uprooted(imports')
    <2>1. current = 0 /\ status = "parse_failed"
        BY <1>2, <1>10 DEF id
    <2>2. i \in 1..Len(imports)
        BY <1>1, <1>10, <2>1 DEF Failed
    <2>3. QED
        BY <1>4, <1>5, <1>10, <2>1, <2>2 DEF Rooted
<1>11. QED
    BY <1>6, <1>7, <1>8, <1>9, <1>10 DEF Rooted

LEMMA RootedRollback ==
    ASSUME TypeInv, Rooted, NEW s \in Session, CommitRollback(s)
    PROVE  Rooted'
<1> DEFINE id == pending[s].id
           prev == imports[id].prev
<1>1. /\ id \in 1..Len(imports) /\ Len(imports') = Len(imports)
      /\ \A i \in 1..Len(imports) :
            /\ imports'[i].prev = imports[i].prev
            /\ imports'[i].status = IF i = id THEN "rolled_back" ELSE imports[i].status
      /\ prev \in 0..Len(imports)
    BY RollbackRows
<1>2. /\ current' = IF prev # 0 THEN prev ELSE IF current = id THEN 0 ELSE current
      /\ pending' = [pending EXCEPT ![s] = None]
      /\ raced' = (raced \/ current \notin {id} \cup ({prev} \ {0}))
      /\ prev # 0 => current \in {0, id, prev}
    BY DEF CommitRollback, RollbackFits
<1>3. ~Failed(imports, id) /\ (prev # 0 => ~Failed(imports, prev))
    BY <1>1 DEF CommitRollback, Rooted
<1> HIDE DEF id, prev
<1>4. \A i \in 1..Len(imports) : ~Failed(imports, i) => ~Failed(imports', i)
    BY <1>1 DEF Failed
<1>5. Uprooted(imports) => Uprooted(imports')
    BY <1>1 DEF Uprooted
<1>6. prev = 0 => Uprooted(imports')
    BY <1>1 DEF Uprooted, prev
<1>7. \A i \in 0..Len(imports) : i # 0 => i \in 1..Len(imports)
    BY Rows
<1>8. current' # 0 => ~Failed(imports', current')
    BY <1>2, <1>3, <1>4, <1>7, <1>1, Rows DEF Rooted
<1>9. ASSUME NEW i \in 1..Len(imports'), imports'[i].prev # 0
      PROVE  ~Failed(imports', imports'[i].prev)
    <2>1. imports[i].prev \in 1..Len(imports) /\ imports'[i].prev = imports[i].prev
        BY <1>1, <1>9, Rows DEF TypeInv
    <2>2. QED
        BY <1>1, <1>4, <2>1, Rows DEF Rooted
<1>10. ASSUME NEW t \in Session, pending'[t] # None
       PROVE  /\ pending'[t].op = "import" /\ pending'[t].prev # 0
                    => ~Failed(imports', pending'[t].prev)
              /\ pending'[t].op = "rollback" => ~Failed(imports', pending'[t].id)
    <2>1. pending'[t] = pending[t]
        BY <1>2, <1>10, Rows
    <2>2. QED
        BY <1>4, <1>7, <1>10, <2>1, RequestType DEF Rooted
<1>11. raced' => Uprooted(imports')
    <2>1. CASE raced
        BY <1>5, <2>1 DEF Rooted
    <2>2. CASE prev = 0
        BY <1>6, <2>2
    <2>3. CASE ~raced /\ prev # 0 /\ raced'
        <3>1. current = 0
            BY <1>2, <2>3
        <3>2. QED
            BY <1>1, <1>3, <1>5, <3>1 DEF Rooted
    <2>4. QED
        BY <2>1, <2>2, <2>3
<1>12. current' = 0 => Uprooted(imports')
    BY <1>2, <1>6
<1>13. QED
    BY <1>8, <1>9, <1>10, <1>11, <1>12 DEF Rooted

LEMMA RootedStep ==
    ASSUME TypeInv, Rooted, [Next]_vars
    PROVE  Rooted'
<1>1. ASSUME NEW s \in Session, CommitImport(s)
      PROVE  Rooted'
    <2>1. /\ pending[s] # None /\ pending[s].op = "import" /\ Len(imports) < MaxImports
          /\ AppendImport(pending[s], "imported") /\ pending' = [pending EXCEPT ![s] = None]
          /\ current' = Len(imports) + 1
          /\ raced' = (raced \/ current # pending[s].prev)
          /\ current \in {0, pending[s].prev}
        BY <1>1 DEF CommitImport, ImportFits
    <2>2. QED
        BY <2>1, RootedImport
<1>2. ASSUME NEW s \in Session, CommitFailedImport(s)
      PROVE  Rooted'
    <2>1. /\ pending[s] # None /\ pending[s].op = "import" /\ Len(imports) < MaxImports
          /\ AppendImport(pending[s], "parse_failed") /\ pending' = [pending EXCEPT ![s] = None]
          /\ current' = current /\ raced' = raced
        BY <1>2 DEF CommitFailedImport, ImportFits
    <2>2. QED
        BY <2>1, RootedImport
<1>3. ASSUME UNCHANGED <<imports, current, raced>>,
             \A s \in Session : pending'[s] # None =>
                \/ pending'[s] = pending[s]
                \/ pending'[s].op = "import" /\ pending'[s].prev = current
                \/ pending'[s].op = "rollback" /\ pending'[s].id = current /\ current # 0
      PROVE  Rooted'
    <2>1. ASSUME NEW s \in Session, pending'[s] # None
          PROVE  /\ pending'[s].op = "import" /\ pending'[s].prev # 0
                        => ~Failed(imports, pending'[s].prev)
                 /\ pending'[s].op = "rollback" => ~Failed(imports, pending'[s].id)
        BY <1>3, <2>1 DEF Rooted
    <2>2. QED
        BY <1>3, <2>1 DEF Rooted
<1>4. ASSUME NEW s \in Session, BeginImport(s)
      PROVE  Rooted'
    <2>1. UNCHANGED <<imports, current, raced>>
        BY <1>4 DEF BeginImport
    <2>2. PICK payload \in Payload, mode \in Mode : pending' = [pending EXCEPT ![s] =
            [op |-> "import", payload |-> payload, mode |-> mode, prev |-> current]]
        BY <1>4 DEF BeginImport
    <2>3. \A t \in Session : IF t = s THEN pending'[t].op = "import" /\ pending'[t].prev = current
                             ELSE pending'[t] = pending[t]
        BY <2>2, Rows
    <2>4. QED
        BY <1>3, <2>1, <2>3
<1>5. ASSUME NEW s \in Session, BeginRollback(s)
      PROVE  Rooted'
    <2>1. /\ UNCHANGED <<imports, current, raced>> /\ current # 0
          /\ pending' = [pending EXCEPT ![s] = [op |-> "rollback", id |-> current]]
        BY <1>5 DEF BeginRollback
    <2>2. \A t \in Session : IF t = s THEN pending'[t].op = "rollback" /\ pending'[t].id = current
                             ELSE pending'[t] = pending[t]
        BY <2>1, Rows
    <2>3. QED
        BY <1>3, <2>1, <2>2
<1>6. ASSUME NEW s \in Session, Refuse(s)
      PROVE  Rooted'
    <2>1. UNCHANGED <<imports, current, raced>> /\ pending' = [pending EXCEPT ![s] = None]
        BY <1>6 DEF Refuse
    <2>2. \A t \in Session : pending'[t] # None => pending'[t] = pending[t]
        BY <2>1, Rows
    <2>3. QED
        BY <1>3, <2>1, <2>2
<1>7. CASE UNCHANGED vars
    BY <1>3, <1>7 DEF vars
<1>8. QED
    BY <1>1, <1>2, <1>4, <1>5, <1>6, <1>7, RootedRollback DEF Next

\* Whatever imports and rollbacks overlap, a commit rests on a current import that has
\* changed only after an import without a predecessor was rolled back.
THEOREM IndexStops == Spec => []IndexStopsRaces
<1> DEFINE Inv == TypeInv /\ Rooted
<1>1. Init => Inv
    <2>1. ASSUME Init PROVE Rooted
        <3>1. /\ Len(imports) = 0 /\ current = 0 /\ raced = FALSE
              /\ \A s \in Session : pending[s] = None
            BY <2>1 DEF Init
        <3>2. 1..Len(imports) = {}
            BY <3>1
        <3>3. QED
            BY <3>1, <3>2 DEF Rooted
    <2>2. QED
        BY <2>1, TypeInitial
<1>2. Inv /\ [Next]_vars => Inv'
    BY TypeStep, RootedStep
<1>3. Inv => IndexStopsRaces
    BY DEF Rooted, Uprooted, IndexStopsRaces
<1>4. QED
    BY <1>1, <1>2, <1>3, PTL DEF Spec

----------------------------------------------------------------------------
(* The projection *)

\* A parcel is what import j says of it, inactive when j is 0.
Reflects(rows, j, p, row) ==
    /\ j = 0 => ~row.active
    /\ j # 0 => row = [active |-> TRUE, listing |-> rows[j].payload[p], from |-> j]

\* TakenBack for the rows of any moment.
Taken(rows, p, a) ==
    \E i \in 1..Len(rows) :
        /\ rows[i].status = "rolled_back" /\ rows[i].payload[p] # None
        /\ rows[i].payload[p].address = a

\* The alias and the building row of a parcel with a source are there.
Addressed(rows, j, p, alias_rows) ==
    j # 0 => \/ HasAlias(alias_rows, p, rows[j].payload[p].address)
             \/ Taken(rows, p, rows[j].payload[p].address)
Housed(rows, j, p, building_rows) ==
    j # 0 => <<p, rows[j].payload[p].key, j>> \in building_rows

\* Every alias and building row is what a standing import said.
AliasStands(rows, line, alias) ==
    /\ Stands(rows, line, alias[3], alias[1])
    /\ rows[alias[3]].payload[alias[1]].address = alias[2]
BuildingStands(rows, line, row) ==
    /\ Stands(rows, line, row[3], row[1])
    /\ rows[row[3]].payload[row[1]].key = row[2]

\* The projection is what a line says, and rests on nothing that was rolled back.
Matches(rows, line, of, alias_rows, building_rows) ==
    /\ \A p \in Parcel : Reflects(rows, Source(rows, line, p), p, of[p])
    /\ \A p \in Parcel : Addressed(rows, Source(rows, line, p), p, alias_rows)
    /\ \A p \in Parcel : Housed(rows, Source(rows, line, p), p, building_rows)
    /\ \A i \in line : rows[i].status # "rolled_back"
    /\ \A alias \in alias_rows : AliasStands(rows, line, alias)
    /\ \A row \in building_rows : BuildingStands(rows, line, row)

Projected == ~raced => Matches(imports, Line(imports, current), parcels, aliases, buildings)

Grows(rows, others) ==
    /\ Len(rows) \in Nat
    /\ \A i \in 1..Len(rows) : i \in 1..Len(others) /\ others[i] = rows[i]

\* Rows may be added.
LEMMA MatchesFrame ==
    ASSUME NEW rows, NEW others, NEW line, line \subseteq 1..Len(rows), Grows(rows, others),
           NEW of, NEW alias_rows, NEW building_rows,
           Matches(rows, line, of, alias_rows, building_rows)
    PROVE  Matches(others, line, of, alias_rows, building_rows)
<1>1. /\ Len(rows) \in Nat /\ line \in SUBSET (1..Len(rows))
      /\ \A i \in line : others[i] = rows[i]
    BY DEF Grows
<1>2. ASSUME NEW p \in Parcel
      PROVE  /\ Reflects(others, Source(others, line, p), p, of[p])
             /\ Addressed(others, Source(others, line, p), p, alias_rows)
             /\ Housed(others, Source(others, line, p), p, building_rows)
    <2> DEFINE j == Source(rows, line, p)
    <2>1. Source(others, line, p) = j
        <3>1. Alike(others, rows, line) /\ Bounded(line, Len(rows))
            BY <1>1 DEF Alike, Bounded
        <3>2. QED
            BY <3>1, SourceFrame
    <2>2. j # 0 => others[j] = rows[j]
        BY <1>1, SourceInLine
    <2>3. /\ Reflects(rows, j, p, of[p]) /\ Addressed(rows, j, p, alias_rows)
          /\ Housed(rows, j, p, building_rows)
        BY DEF Matches
    <2>4. \A a : Taken(rows, p, a) => Taken(others, p, a)
        BY DEF Taken, Grows
    <2> HIDE DEF j
    <2>5. QED
        BY <2>1, <2>2, <2>3, <2>4 DEF Reflects, Addressed, Housed
<1>3. \A n, p : Stands(rows, line, n, p) => Stands(others, line, n, p)
    BY <1>1 DEF Stands
<1>4. \A n, p : Stands(rows, line, n, p) => others[n] = rows[n]
    BY <1>1 DEF Stands
<1>5. \A alias \in alias_rows : AliasStands(others, line, alias)
    BY <1>3, <1>4 DEF Matches, AliasStands
<1>6. \A row \in building_rows : BuildingStands(others, line, row)
    BY <1>3, <1>4 DEF Matches, BuildingStands
<1>7. QED
    BY <1>1, <1>2, <1>5, <1>6 DEF Matches

LEMMA ProjectedImport ==
    ASSUME TypeInv, Projected, ~raced', NEW s \in Session, CommitImport(s)
    PROVE  Projected'
<1> DEFINE id == Len(imports) + 1
           request == pending[s]
           line == LineOf(current)
           whole == line \cup {id}
<1>1. /\ request # None /\ request.op = "import" /\ Len(imports) < MaxImports
      /\ AppendImport(request, "imported") /\ current' = id
      /\ current = request.prev /\ ~raced
    BY DEF CommitImport, ImportFits
<1>2. /\ Len(imports') = id
      /\ \A i \in 1..Len(imports) : imports'[i] = imports[i]
      /\ imports'[id].payload = request.payload
      /\ imports'[id].mode = request.mode
      /\ imports'[id].status = "imported"
      /\ imports'[id].line = whole
    <2>1. "imported" \in {"imported", "parse_failed"}
        OBVIOUS
    <2>2. QED
        BY <1>1, <2>1, ImportRows
<1>3. /\ id \in Nat \ {0} /\ line \in SUBSET (1..(id - 1)) /\ id \notin line
      /\ line \subseteq 1..Len(imports) /\ line = Line(imports, current)
      /\ Len(imports) \in Nat /\ id - 1 = Len(imports)
    <2>1. /\ line \in SUBSET (1..current) /\ line = Line(imports, current)
          /\ current \in 0..Len(imports) /\ Len(imports) \in Nat
        BY LineBound, Rows
    <2>2. 1..current \subseteq 1..Len(imports)
        BY <2>1
    <2>3. QED
        BY <2>1, <2>2
<1>4. Matches(imports, line, parcels, aliases, buildings)
    BY <1>1, <1>3 DEF Projected
<1>5. /\ parcels' = [p \in Parcel |->
            ImportedParcel(parcels[p], request.payload[p], request.mode, id)]
      /\ aliases' = ImportedAliases(request, id)
      /\ buildings' = ImportedBuildings(request, id)
    BY DEF CommitImport
<1>6. Line(imports', current') = whole
    BY <1>1, <1>2, <1>3 DEF Line
<1>7. \A p \in Parcel : parcels[p] \in ParcelRow
    BY Rows
<1>8. /\ \A i \in whole : i <= id
      /\ \A i \in line : imports'[i] = imports[i]
      /\ Grows(imports, imports')
    <2>1. \A i \in 1..Len(imports) : i \in 1..Len(imports') /\ i <= id
        BY <1>2, <1>3
    <2>2. QED
        BY <1>2, <1>3, <2>1 DEF Grows
\* Who speaks for a parcel now.
<1>9. ASSUME NEW p \in Parcel
      PROVE  LET j == Source(imports, line, p)
                 new == Source(imports', whole, p)
             IN  /\ request.payload[p] # None => new = id
                 /\ request.payload[p] = None /\ request.mode = "full" => new = 0
                 /\ request.payload[p] = None /\ request.mode # "full" => new = j
                 /\ j # 0 => imports'[j] = imports[j]
    <2>1. Source(imports', line, p) = Source(imports, line, p)
        <3>1. Alike(imports', imports, line) /\ Bounded(line, Len(imports))
            BY <1>2, <1>3 DEF Alike, Bounded
        <3>2. QED
            BY <3>1, SourceFrame
    <2>2. Decides(imports', whole, line, id, p)
        <3>1. Extends(whole, line, id)
            BY <1>3 DEF Extends
        <3>2. QED
            BY <3>1, SourceOfLast
    <2>3. Source(imports, line, p) # 0 => Source(imports, line, p) \in line
        BY <1>3, SourceInLine
    <2>4. QED
        BY <1>2, <1>8, <2>1, <2>2, <2>3 DEF Decides
<1> HIDE DEF id, request, line, whole
<1>10. ASSUME NEW p \in Parcel
       PROVE  Reflects(imports', Source(imports', whole, p), p, parcels'[p])
    <2>1. Reflects(imports, Source(imports, line, p), p, parcels[p])
        BY <1>4 DEF Matches
    <2>2. parcels'[p] = ImportedParcel(parcels[p], request.payload[p], request.mode, id)
        BY <1>5
    <2>3. CASE request.payload[p] # None
        BY <1>2, <1>3, <1>9, <2>2, <2>3 DEF Reflects, ImportedParcel
    <2>4. CASE request.payload[p] = None /\ request.mode = "full"
        <3>1. ~parcels'[p].active
            BY <1>7, <2>2, <2>4 DEF ImportedParcel, ParcelRow
        <3>2. QED
            BY <1>9, <2>4, <3>1 DEF Reflects
    <2>5. CASE request.payload[p] = None /\ request.mode # "full"
        BY <1>9, <2>1, <2>2, <2>5 DEF Reflects, ImportedParcel
    <2>6. QED
        BY <2>3, <2>4, <2>5
<1>11. ASSUME NEW p \in Parcel
       PROVE  Addressed(imports', Source(imports', whole, p), p, aliases')
    <2>1. CASE request.payload[p] # None
        <3> DEFINE a == request.payload[p].address
        <3>1. HasAlias(aliases', p, a)
            <4> DEFINE kept == IF request.mode = "full" THEN {} ELSE aliases
            <4>1. CASE HasAlias(kept, p, a)
                BY <1>5, <4>1 DEF ImportedAliases, HasAlias
            <4>2. CASE ~HasAlias(kept, p, a)
                <5>1. p \in Named(request.payload)
                    BY <2>1 DEF Named
                <5>2. <<p, a, id>> \in aliases'
                    BY <1>5, <4>2, <5>1 DEF ImportedAliases
                <5>3. QED
                    BY <5>2 DEF HasAlias
            <4>3. QED
                BY <4>1, <4>2
        <3>2. QED
            BY <1>2, <1>9, <2>1, <3>1 DEF Addressed
    <2>2. CASE request.payload[p] = None /\ request.mode = "full"
        BY <1>9, <2>2 DEF Addressed
    <2>3. CASE request.payload[p] = None /\ request.mode # "full"
        <3>1. aliases \subseteq aliases'
            BY <1>5, <2>3 DEF ImportedAliases
        <3>2. Addressed(imports, Source(imports, line, p), p, aliases)
            BY <1>4 DEF Matches
        <3>3. \A a : HasAlias(aliases, p, a) => HasAlias(aliases', p, a)
            BY <3>1 DEF HasAlias
        <3>4. \A a : Taken(imports, p, a) => Taken(imports', p, a)
            BY <1>8 DEF Taken, Grows
        <3>5. QED
            BY <1>9, <2>3, <3>2, <3>3, <3>4 DEF Addressed
    <2>4. QED
        BY <2>1, <2>2, <2>3
<1>12. ASSUME NEW p \in Parcel
       PROVE  Housed(imports', Source(imports', whole, p), p, buildings')
    <2>1. CASE request.payload[p] # None
        <3>1. p \in Named(request.payload)
            BY <2>1 DEF Named
        <3>2. <<p, request.payload[p].key, id>> \in buildings'
            BY <1>5, <3>1 DEF ImportedBuildings, Retargeted
        <3>3. QED
            BY <1>2, <1>9, <2>1, <3>2 DEF Housed
    <2>2. CASE request.payload[p] = None /\ request.mode = "full"
        BY <1>9, <2>2 DEF Housed
    <2>3. CASE request.payload[p] = None /\ request.mode # "full"
        <3> DEFINE written == {<<q, request.payload[q].key, id>> : q \in Named(request.payload)}
        <3>1. Housed(imports, Source(imports, line, p), p, buildings)
            BY <1>4 DEF Matches
        <3>2. \A w \in written : w[1] # p
            BY <2>3 DEF Named
        <3>3. \A x, n : <<p, x, n>> \in buildings => <<p, x, n>> \in buildings'
            BY <1>5, <2>3, <3>2 DEF ImportedBuildings, Retargeted
        <3>4. QED
            BY <1>9, <2>3, <3>1, <3>3 DEF Housed
    <2>4. QED
        BY <2>1, <2>2, <2>3
\* What stood still stands after an incremental import, and the new row does.
<1>13. \A n, p : request.mode # "full" /\ Stands(imports, line, n, p)
            => Stands(imports', whole, n, p) /\ imports'[n] = imports[n]
    BY <1>2, <1>8 DEF Stands, whole
<1>14. \A p \in Named(request.payload) :
            Stands(imports', whole, id, p) /\ imports'[id].payload[p] = request.payload[p]
    BY <1>2, <1>8 DEF Stands, Named, whole
<1>15. ASSUME NEW alias \in aliases'
       PROVE  AliasStands(imports', whole, alias)
    <2>1. CASE request.mode # "full" /\ alias \in aliases
        BY <1>4, <1>13, <2>1 DEF Matches, AliasStands
    <2>2. CASE \E p \in Named(request.payload) : alias = <<p, request.payload[p].address, id>>
        BY <1>14, <2>2 DEF AliasStands
    <2>3. QED
        BY <1>5, <2>1, <2>2 DEF ImportedAliases
<1>16. ASSUME NEW row \in buildings'
       PROVE  BuildingStands(imports', whole, row)
    <2>1. CASE request.mode # "full" /\ row \in buildings
        BY <1>4, <1>13, <2>1 DEF Matches, BuildingStands
    <2>2. CASE \E p \in Named(request.payload) : row = <<p, request.payload[p].key, id>>
        BY <1>14, <2>2 DEF BuildingStands
    <2>3. QED
        BY <1>5, <2>1, <2>2 DEF ImportedBuildings, Retargeted
<1>17. \A i \in whole : imports'[i].status # "rolled_back"
    BY <1>2, <1>4, <1>8 DEF Matches, whole
<1>18. Matches(imports', whole, parcels', aliases', buildings')
    BY <1>10, <1>11, <1>12, <1>15, <1>16, <1>17 DEF Matches
<1>19. QED
    BY <1>6, <1>18 DEF Projected

LEMMA ProjectedFailed ==
    ASSUME TypeInv, Projected, NEW s \in Session, CommitFailedImport(s)
    PROVE  Projected'
<1>1. /\ pending[s] # None /\ pending[s].op = "import" /\ Len(imports) < MaxImports
      /\ AppendImport(pending[s], "parse_failed")
      /\ UNCHANGED <<current, projection, raced>>
    BY DEF CommitFailedImport, ImportFits
<1>2. "parse_failed" \in {"imported", "parse_failed"}
    OBVIOUS
<1>3. /\ \A i \in 1..Len(imports) : imports'[i] = imports[i]
      /\ \A i \in 0..Len(imports) : Line(imports', i) = LineOf(i)
      /\ Len(imports') = Len(imports) + 1
    BY <1>1, <1>2, ImportRows
<1>4. /\ LineOf(current) \in SUBSET (1..current) /\ LineOf(current) = Line(imports, current)
      /\ current \in 0..Len(imports) /\ 1..current \subseteq 1..Len(imports) /\ current \in Nat
      /\ Len(imports) \in Nat
    BY LineBound, Rows
<1>5. SUFFICES ASSUME ~raced
               PROVE  Matches(imports', LineOf(current), parcels, aliases, buildings)
    BY <1>1, <1>3, <1>4 DEF Projected, projection
<1>6. Matches(imports, LineOf(current), parcels, aliases, buildings)
    BY <1>4, <1>5 DEF Projected
<1>7. Grows(imports, imports') /\ LineOf(current) \subseteq 1..Len(imports)
    <2>1. \A i \in 1..Len(imports) : i \in 1..Len(imports')
        BY <1>3, <1>4
    <2>2. QED
        BY <1>3, <1>4, <2>1 DEF Grows
<1>8. QED
    BY <1>6, <1>7, MatchesFrame

\* What comes back is the line of the predecessor, whether the import that goes is still
\* current or was rolled back already.
LEMMA ProjectedRollback ==
    ASSUME TypeInv, Projected, ~raced', NEW s \in Session, CommitRollback(s)
    PROVE  Projected'
<1> DEFINE id == pending[s].id
           prev == imports[id].prev
           line == LineOf(prev)
           before == Line(imports, current)
<1>1. /\ id \in 1..Len(imports)
      /\ Len(imports') = Len(imports)
      /\ \A i \in 1..Len(imports) :
            /\ imports'[i].payload = imports[i].payload
            /\ imports'[i].mode = imports[i].mode
            /\ imports'[i].status = IF i = id THEN "rolled_back" ELSE imports[i].status
      /\ \A i \in 0..Len(imports) : Line(imports', i) = LineOf(i)
      /\ prev \in 0..(id - 1) /\ prev \in 0..Len(imports)
    BY RollbackRows
<1>2. /\ current' = IF prev # 0 THEN prev ELSE IF current = id THEN 0 ELSE current
      /\ ~raced /\ (current = id \/ (current = prev /\ prev # 0))
      /\ parcels' = [p \in Parcel |-> RestoredParcel(parcels[p], SourceOf(line, p), p, prev)]
      /\ aliases' = RestoredAliases(id, line)
      /\ buildings' = RestoredBuildings(id, line)
    BY DEF CommitRollback
<1>3. /\ line \in SUBSET (1..(id - 1)) /\ line \subseteq 1..Len(imports) /\ id \notin line
      /\ line = Line(imports, prev) /\ id \in Nat \ {0} /\ Len(imports) \in Nat
    <2>1. /\ line \in SUBSET (1..prev) /\ line = Line(imports, prev)
        BY <1>1, LineBound
    <2>2. 1..prev \subseteq 1..(id - 1) /\ 1..prev \subseteq 1..Len(imports) /\ id \notin 1..(id - 1)
        BY <1>1, Rows
    <2>3. QED
        BY <1>1, <2>1, <2>2, Rows
<1>4. Line(imports', current') = line
    BY <1>1, <1>2
\* The line of what was current.
<1>5. before = line \cup {id} \/ before = line
    <2>1. Line(imports, id) = line \cup {id}
        BY <1>1, <1>3 DEF TypeInv, Line
    <2>2. QED
        BY <1>2, <1>3, <2>1
<1>6. Matches(imports, before, parcels, aliases, buildings)
    BY <1>2 DEF Projected
<1>7. \A p \in Parcel : parcels[p] \in ParcelRow
    BY Rows
<1>8. \A i \in line : /\ imports'[i].payload = imports[i].payload
                      /\ imports'[i].mode = imports[i].mode
    BY <1>1, <1>3
<1>9. ASSUME NEW p \in Parcel
      PROVE  /\ Source(imports', line, p) = SourceOf(line, p)
             /\ SourceOf(line, p) # 0 =>
                    /\ Stands(imports, line, SourceOf(line, p), p)
                    /\ p \in Sourced(line)
                    /\ imports'[SourceOf(line, p)].payload[p] = Said(line, p)
                    /\ SourceOf(line, p) \in line
    <2>1. Source(imports', line, p) = Source(imports, line, p)
        <3>1. Alike(imports', imports, line) /\ Bounded(line, Len(imports))
            BY <1>3, <1>8 DEF Alike, Bounded
        <3>2. QED
            BY <3>1, SourceFrame
    <2>2. SourceOf(line, p) = Source(imports, line, p)
        BY SourceIs
    <2>3. Source(imports, line, p) # 0 => Stands(imports, line, Source(imports, line, p), p)
        BY <1>3, SourceStands
    <2>4. Source(imports, line, p) # 0 => Source(imports, line, p) \in line
        BY <1>3, SourceInLine
    <2> HIDE DEF line
    <2>5. QED
        BY <1>8, <2>1, <2>2, <2>3, <2>4 DEF Sourced, Said
<1> HIDE DEF id, prev, line, before
<1>10. ASSUME NEW p \in Parcel
       PROVE  Reflects(imports', Source(imports', line, p), p, parcels'[p])
    <2>1. parcels'[p] = RestoredParcel(parcels[p], SourceOf(line, p), p, prev)
        BY <1>2
    <2>2. CASE SourceOf(line, p) # 0
        BY <1>9, <2>1, <2>2 DEF Reflects, RestoredParcel, Said
    <2>3. CASE SourceOf(line, p) = 0
        BY <1>7, <1>9, <2>1, <2>3 DEF Reflects, RestoredParcel, ParcelRow
    <2>4. QED
        BY <2>2, <2>3
<1>11. ASSUME NEW p \in Parcel
       PROVE  Addressed(imports', Source(imports', line, p), p, aliases')
    <2> DEFINE j == SourceOf(line, p)
               a == Said(line, p).address
    <2>1. SUFFICES ASSUME j # 0
                   PROVE  HasAlias(aliases', p, a) \/ Taken(imports', p, a)
        BY <1>9 DEF Addressed
    <2>2. p \in Sourced(line) /\ j \in line /\ j # id
        BY <1>3, <1>9, <2>1
    <2>3. CASE ~HasAlias(aliases, p, a)
        <3>1. <<p, a, j>> \in MissingAliases(line)
            BY <2>2, <2>3 DEF MissingAliases
        <3>2. <<p, a, j>> \in aliases'
            BY <1>2, <2>2, <3>1 DEF RestoredAliases
        <3>3. QED
            BY <3>2 DEF HasAlias
    <2>4. CASE HasAlias(aliases, p, a)
        <3>1. PICK alias \in aliases : alias[1] = p /\ alias[2] = a
            BY <2>4 DEF HasAlias
        <3>2. CASE alias[3] # id
            <4>1. alias \in aliases'
                BY <1>2, <3>2 DEF RestoredAliases
            <4>2. QED
                BY <3>1, <4>1 DEF HasAlias
        <3>3. CASE alias[3] = id
            <4>1. imports[id].payload[p] # None /\ imports[id].payload[p].address = a
                BY <1>6, <3>1, <3>3 DEF Matches, AliasStands, Stands
            <4>2. Taken(imports', p, a)
                BY <1>1, <4>1 DEF Taken
            <4>3. QED
                BY <4>2
        <3>4. QED
            BY <3>2, <3>3
    <2>5. QED
        BY <2>3, <2>4
<1>12. ASSUME NEW p \in Parcel
       PROVE  Housed(imports', Source(imports', line, p), p, buildings')
    <2>1. SUFFICES ASSUME SourceOf(line, p) # 0
                   PROVE  <<p, Said(line, p).key, SourceOf(line, p)>> \in buildings'
        BY <1>9 DEF Housed
    <2>2. p \in Sourced(line) /\ SourceOf(line, p) # id
        BY <1>3, <1>9, <2>1
    <2>3. QED
        BY <1>2, <2>2 DEF RestoredBuildings, Retargeted
\* What stood and was not of the import that goes still stands.
<1>13. \A n, p : n # id /\ Stands(imports, before, n, p)
            => Stands(imports', line, n, p) /\ imports'[n].payload = imports[n].payload
    BY <1>5, <1>8 DEF Stands
<1>14. \A p \in Sourced(line) :
            /\ Stands(imports', line, SourceOf(line, p), p)
            /\ imports'[SourceOf(line, p)].payload[p] = Said(line, p)
    BY <1>8, <1>9 DEF Stands, Sourced
<1>15. ASSUME NEW alias \in aliases'
       PROVE  AliasStands(imports', line, alias)
    <2>1. alias[3] # id
        BY <1>2 DEF RestoredAliases
    <2>2. CASE alias \in aliases
        BY <1>6, <1>13, <2>1, <2>2 DEF Matches, AliasStands
    <2>3. CASE \E p \in Sourced(line) : alias = <<p, Said(line, p).address, SourceOf(line, p)>>
        BY <1>14, <2>3 DEF AliasStands
    <2>4. QED
        BY <1>2, <2>2, <2>3 DEF RestoredAliases, MissingAliases
<1>16. ASSUME NEW row \in buildings'
       PROVE  BuildingStands(imports', line, row)
    <2>1. row[3] # id
        BY <1>2 DEF RestoredBuildings
    <2>2. CASE row \in buildings
        BY <1>6, <1>13, <2>1, <2>2 DEF Matches, BuildingStands
    <2>3. CASE \E p \in Sourced(line) : row = <<p, Said(line, p).key, SourceOf(line, p)>>
        BY <1>14, <2>3 DEF BuildingStands
    <2>4. QED
        BY <1>2, <2>2, <2>3 DEF RestoredBuildings, Retargeted
<1>17. \A i \in line : imports'[i].status # "rolled_back"
    <2>1. \A i \in line : imports[i].status # "rolled_back"
        BY <1>5, <1>6 DEF Matches
    <2>2. QED
        BY <1>1, <1>3, <2>1
<1>18. Matches(imports', line, parcels', aliases', buildings')
    BY <1>10, <1>11, <1>12, <1>15, <1>16, <1>17 DEF Matches
<1>19. QED
    BY <1>4, <1>18 DEF Projected

LEMMA ProjectedStep ==
    ASSUME TypeInv, Projected, [Next]_vars
    PROVE  Projected'
<1>1. CASE raced'
    BY <1>1 DEF Projected
<1>2. CASE ~raced' /\ \E s \in Session : CommitImport(s)
    BY <1>2, ProjectedImport
<1>3. CASE \E s \in Session : CommitFailedImport(s)
    BY <1>3, ProjectedFailed
<1>4. CASE ~raced' /\ \E s \in Session : CommitRollback(s)
    BY <1>4, ProjectedRollback
<1>5. CASE UNCHANGED <<imports, current, projection, raced>>
    BY <1>5 DEF Projected, projection
<1>6. QED
    BY <1>1, <1>2, <1>3, <1>4, <1>5
    DEF Next, vars, projection, BeginImport, BeginRollback, Refuse

LEMMA ProjectedInitial == Init => Projected
<1> SUFFICES ASSUME Init PROVE Projected
    OBVIOUS
<1>1. Line(imports, current) = {}
    BY DEF Init, Line
<1>2. /\ aliases = {} /\ buildings = {}
      /\ parcels = [p \in Parcel |-> [active |-> FALSE, listing |-> None, from |-> 0]]
    BY DEF Init
<1>3. \A p \in Parcel : Source(imports, {}, p) = 0
    BY DEF Says, Source
<1>4. \A p \in Parcel : Reflects(imports, 0, p, parcels[p])
    BY <1>2 DEF Reflects
<1>5. Matches(imports, {}, parcels, aliases, buildings)
    BY <1>2, <1>3, <1>4 DEF Matches, Addressed, Housed
<1>6. QED
    BY <1>1, <1>5 DEF Projected

LEMMA ProjectedAlways == Spec => [](TypeInv /\ Projected)
<1>1. Init => TypeInv /\ Projected
    BY TypeInitial, ProjectedInitial
<1>2. TypeInv /\ Projected /\ [Next]_vars => (TypeInv /\ Projected)'
    BY TypeStep, ProjectedStep
<1>3. QED
    BY <1>1, <1>2, PTL DEF Spec

LEMMA CurrentLine ==
    ASSUME TypeInv, Projected, ~raced
    PROVE  /\ Matches(imports, LineOf(current), parcels, aliases, buildings)
           /\ LineOf(current) \in SUBSET (1..current) /\ current \in Nat
           /\ current # 0 => current \in LineOf(current)
<1>1. /\ LineOf(current) \in SUBSET (1..current) /\ LineOf(current) = Line(imports, current)
      /\ current \in 0..Len(imports) /\ current \in Nat
    BY LineBound, Rows
<1>2. current # 0 => current \in LineOf(current)
    BY <1>1, Rows DEF TypeInv, Line
<1>3. QED
    BY <1>1, <1>2 DEF Projected

\* However imports and rollbacks are strung together, as long as none rested on a current
\* import that had changed, the projection holds what the current line says of each parcel
\* and nothing that the line has not said or has ended; of what the line says, only an
\* alias whose address an import taken back used may be missing.
THEOREM ProjectionReplays == Spec => []ProjectionIsLineage
<1>1. TypeInv /\ Projected => ProjectionIsLineage
    <2> SUFFICES ASSUME TypeInv, Projected, ~raced
                 PROVE  ProjectionIsLineage
        BY DEF ProjectionIsLineage
    <2> DEFINE line == LineOf(current)
    <2>1. Matches(imports, line, parcels, aliases, buildings)
        BY CurrentLine
    <2>2. \A p \in Parcel : SourceOf(line, p) = Source(imports, line, p)
        BY SourceIs
    <2>3. \A n, p : Stands(imports, line, n, p) => Standing(line, n, p)
        BY DEF Stands, Standing
    <2>4. \A p, a : Taken(imports, p, a) => TakenBack(p, a)
        BY DEF Taken, TakenBack
    <2> HIDE DEF line
    <2>5. ASSUME NEW p \in Parcel
          PROVE  LET j == SourceOf(line, p)
                 IN  /\ j = 0 => ~parcels[p].active
                     /\ j # 0 =>
                        /\ parcels[p] = [active |-> TRUE, listing |-> Said(line, p), from |-> j]
                        /\ <<p, Said(line, p).key, j>> \in buildings
                        /\ \/ HasAlias(aliases, p, Said(line, p).address)
                           \/ TakenBack(p, Said(line, p).address)
        BY <2>1, <2>2, <2>4 DEF Matches, Reflects, Addressed, Housed, Said
    <2>6. \A alias \in aliases :
                /\ Standing(line, alias[3], alias[1])
                /\ imports[alias[3]].payload[alias[1]].address = alias[2]
        BY <2>1, <2>3 DEF Matches, AliasStands
    <2>7. \A row \in buildings :
                /\ Standing(line, row[3], row[1])
                /\ imports[row[3]].payload[row[1]].key = row[2]
        BY <2>1, <2>3 DEF Matches, BuildingStands
    <2>8. QED
        BY <2>5, <2>6, <2>7 DEF ProjectionIsLineage, line
<1>2. QED
    BY <1>1, ProjectedAlways, PTL

\* Under the same condition, a rollback leaves nothing behind of what it takes back.
THEOREM RollbackIsClean == Spec => []RolledBackLeavesNothing
<1>1. TypeInv /\ Projected => RolledBackLeavesNothing
    <2> SUFFICES ASSUME TypeInv, Projected, ~raced,
                        NEW i \in 1..Len(imports), imports[i].status = "rolled_back"
                 PROVE  /\ current # i
                        /\ \A alias \in aliases : alias[3] # i
                        /\ \A row \in buildings : row[3] # i
                        /\ \A p \in Parcel : parcels[p].active => parcels[p].from # i
        BY DEF RolledBackLeavesNothing
    <2>1. i \notin LineOf(current) /\ i # 0
        BY CurrentLine DEF Matches
    <2>2. /\ current # i /\ (\A alias \in aliases : alias[3] # i)
          /\ \A row \in buildings : row[3] # i
        BY <2>1, CurrentLine DEF Matches, AliasStands, BuildingStands, Stands
    <2>3. ASSUME NEW p \in Parcel
          PROVE  parcels[p].active => parcels[p].from # i
        <3> DEFINE j == Source(imports, LineOf(current), p)
        <3>1. Reflects(imports, j, p, parcels[p])
            BY CurrentLine DEF Matches
        <3>2. j # i
            BY <2>1, CurrentLine, SourceInLine
        <3> HIDE DEF j
        <3>3. QED
            BY <2>1, <3>1, <3>2 DEF Reflects
    <2>4. QED
        BY <2>2, <2>3
<1>2. QED
    BY <1>1, ProjectedAlways, PTL
=============================================================================
