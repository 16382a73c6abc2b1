--------------------------- MODULE PropertyImports ---------------------------
(***************************************************************************)
(* The versioned property snapshots of one provider (properties/service.py)*)
(* and the projection built from them: the parcels that are active with    *)
(* what it says of them, their address aliases and their building rows.    *)
(*                                                                         *)
(* An import replaces the projection (full) or changes part of it          *)
(* (incremental), and a rollback of the current import rebuilds what its   *)
(* lineage said.  Both decide on rows they read before their first write,  *)
(* so each is two steps; SQLite ignores the FOR UPDATE of import_file, and *)
(* rollback locks nothing on either database.  What stops them from        *)
(* meeting is the unique index on the current import.                      *)
(*                                                                         *)
(* A payload says for each parcel its address and the key of its building  *)
(* (master_parcel_id, or "primary"), or None; a payload without any usable *)
(* row says None of all.  Importing a payload again, or using an           *)
(* idempotency key again, is answered from the row there is and changes    *)
(* nothing, so only new payloads are imported here.                        *)
(*                                                                         *)
(* An alias is looked up by parcel and address and left alone when there   *)
(* is one; a building by parcel and key, and retargeted when there is one. *)
(* So rows of earlier imports stand beside those of the latest, and a      *)
(* rollback that deletes what the import it takes back owns also deletes   *)
(* what that import took over.                                             *)
(***************************************************************************)
EXTENDS Integers, Sequences, FiniteSetsExt

CONSTANTS
    Parcel,         \* source parcel ids
    Address,        \* normalized addresses
    Key,            \* building keys
    Payload,        \* what an import may say: parcel -> its address and key, or None
    Session,        \* requests that import or roll back
    MaxImports,     \* bound: property_imports rows
    None            \* no listing, no request

ASSUME BoundAssumption == MaxImports \in Nat
Listing == [address : Address, key : Key]

ASSUME PayloadAssumption == Payload \subseteq [Parcel -> Listing \cup {None}]
ASSUME NoneAssumption == None \notin Listing

VARIABLES
    imports,        \* property_imports rows in the order they were inserted
    current,        \* the row with is_current, 0 when there is none
    parcels,        \* parcel -> its active flag, its values and current_import_id
    aliases,        \* source_situs aliases <<parcel, address, import>>
    buildings,      \* building rows <<parcel, key, import>>
    pending,        \* session -> what it is about to write
    raced           \* history: a commit rested on a current row that had changed since
                    \* (rolling back once more what was just rolled back repeats it)

projection == <<parcels, aliases, buildings>>
vars == <<imports, current, parcels, aliases, buildings, pending, raced>>

Mode == {"full", "incremental"}
Named(payload) == {p \in Parcel : payload[p] # None}
Usable(payload) == Named(payload) # {}
Id == 1..MaxImports

ImportRow ==
    [payload : Payload, mode : Mode, prev : 0..MaxImports, line : SUBSET Id,
     status : {"imported", "parse_failed", "rolled_back"}]
\* A parcel without a listing has no row yet.
ParcelRow == [active : BOOLEAN, listing : Listing \cup {None}, from : 0..MaxImports]
Request ==
    [op : {"import"}, payload : Payload, mode : Mode, prev : 0..MaxImports]
        \cup [op : {"rollback"}, id : Id]

Init ==
    /\ imports = <<>>
    /\ current = 0
    /\ parcels = [p \in Parcel |-> [active |-> FALSE, listing |-> None, from |-> 0]]
    /\ aliases = {}
    /\ buildings = {}
    /\ pending = [s \in Session |-> None]
    /\ raced = FALSE

(***************************************************************************)
(* line is what the walk over previous_import_id collects: prev never      *)
(* changes after the insert.                                               *)
(***************************************************************************)
LineOf(i) == IF i = 0 THEN {} ELSE imports[i].line

\* Fault: a full import that leaves a parcel out does not end what came before it.
NamesOnly(line, p) == {i \in line : imports[i].payload[p] # None}

\* The imports of a line that say something about a parcel; a full one always does.
Speaking(line, p) ==
    {i \in line : imports[i].mode = "full" \/ imports[i].payload[p] # None}

\* The import whose row for the parcel is the latest of the line, 0 if it has none.
SourceOf(line, p) ==
    LET says == Speaking(line, p)
    IN  IF says = {} \/ imports[Max(says)].payload[p] = None THEN 0 ELSE Max(says)

HasAlias(set, p, a) == \E alias \in set : alias[1] = p /\ alias[2] = a

\* A row there is for the parcel and key becomes the written one.
Retargeted(rows, written) ==
    written \cup {row \in rows : \A w \in written : w[1] # row[1] \/ w[2] # row[2]}

----------------------------------------------------------------------------
(* import_file *)

BeginImport(s) ==
    /\ pending[s] = None
    /\ Len(imports) < MaxImports
    /\ \E payload \in Payload, mode \in Mode :
        /\ \A i \in 1..Len(imports) : imports[i].payload # payload
        /\ pending' = [pending EXCEPT ![s] =
            [op |-> "import", payload |-> payload, mode |-> mode, prev |-> current]]
    /\ UNCHANGED <<imports, current, projection, raced>>

\* Fault: the current import is not unique.
AnyFits(request) ==
    /\ Len(imports) < MaxImports
    /\ \A i \in 1..Len(imports) : imports[i].payload # request.payload

\* The unique indexes on the content hash and on the current import let it in.
ImportFits(request) ==
    /\ Len(imports) < MaxImports
    /\ \A i \in 1..Len(imports) : imports[i].payload # request.payload
    /\ Usable(request.payload) => current \in {0, request.prev}

AppendImport(request, status) ==
    imports' = Append(imports,
        [payload |-> request.payload, mode |-> request.mode, prev |-> request.prev,
         line |-> LineOf(request.prev) \cup {Len(imports) + 1}, status |-> status])

\* No row was accepted: the envelope stays, the projection does not change.
CommitFailedImport(s) ==
    LET request == pending[s]
    IN  /\ request # None /\ request.op = "import"
        /\ ~Usable(request.payload)
        /\ ImportFits(request)
        /\ AppendImport(request, "parse_failed")
        /\ pending' = [pending EXCEPT ![s] = None]
        /\ UNCHANGED <<current, projection, raced>>

ImportedParcel(row, listing, mode, id) ==
    IF listing # None THEN [active |-> TRUE, listing |-> listing, from |-> id]
    ELSE IF mode = "full" /\ row.active THEN [row EXCEPT !.active = FALSE, !.from = id]
    ELSE row

\* A full import drops every alias first; one that is there already stays as it is.
ImportedAliases(request, id) ==
    LET kept == IF request.mode = "full" THEN {} ELSE aliases
    IN  kept \cup {<<p, request.payload[p].address, id>> : p \in
            {q \in Named(request.payload) : ~HasAlias(kept, q, request.payload[q].address)}}

\* A full import drops every building row first.
ImportedBuildings(request, id) ==
    Retargeted(IF request.mode = "full" THEN {} ELSE buildings,
               {<<p, request.payload[p].key, id>> : p \in Named(request.payload)})

CommitImport(s) ==
    LET request == pending[s]
        id == Len(imports) + 1
    IN  /\ request # None /\ request.op = "import"
        /\ Usable(request.payload)
        /\ ImportFits(request)
        /\ AppendImport(request, "imported")
        /\ current' = id
        /\ parcels' = [p \in Parcel |->
            ImportedParcel(parcels[p], request.payload[p], request.mode, id)]
        /\ aliases' = ImportedAliases(request, id)
        /\ buildings' = ImportedBuildings(request, id)
        /\ pending' = [pending EXCEPT ![s] = None]
        /\ raced' = (raced \/ current # request.prev)

----------------------------------------------------------------------------
(* rollback *)

BeginRollback(s) ==
    /\ pending[s] = None
    /\ current # 0
    /\ pending' = [pending EXCEPT ![s] = [op |-> "rollback", id |-> current]]
    /\ UNCHANGED <<imports, current, projection, raced>>

\* Making the predecessor current again must not meet another current row.
RollbackFits(i) == imports[i].prev # 0 => current \in {0, i, imports[i].prev}

\* Fault: the restored row keeps none of its values.
RestoredBare(row, source, p, prev) ==
    IF source # 0
    THEN [active |-> TRUE, from |-> source]
    ELSE [row EXCEPT !.active = FALSE, !.from = IF row.listing = None THEN 0 ELSE prev]

RestoredParcel(row, source, p, prev) ==
    IF source # 0
    THEN [active |-> TRUE, listing |-> imports[source].payload[p], from |-> source]
    ELSE [row EXCEPT !.active = FALSE, !.from = IF row.listing = None THEN 0 ELSE prev]

\* What the line says of the parcels that have a source in it.
Sourced(line) == {p \in Parcel : SourceOf(line, p) # 0}
Said(line, p) == imports[SourceOf(line, p)].payload[p]

MissingAliases(line) ==
    {<<p, Said(line, p).address, SourceOf(line, p)>> : p \in
        {q \in Sourced(line) : ~HasAlias(aliases, q, Said(line, q).address)}}

\* Fault: the aliases of the rolled-back import stay.
KeptAliases(i, line) == aliases \cup MissingAliases(line)

\* Missing aliases are added, then those of the rolled-back import are deleted.
RestoredAliases(i, line) ==
    {alias \in aliases \cup MissingAliases(line) : alias[3] # i}

\* The rows of the line are put back, then those left to the rolled-back import deleted.
RestoredBuildings(i, line) ==
    {row \in Retargeted(buildings,
                {<<p, Said(line, p).key, SourceOf(line, p)>> : p \in Sourced(line)}) :
        row[3] # i}

CommitRollback(s) ==
    LET i == pending[s].id
        prev == imports[i].prev
        line == LineOf(prev)
    IN  /\ pending[s] # None /\ pending[s].op = "rollback"
        /\ RollbackFits(i)
        /\ imports' = [imports EXCEPT ![i].status = "rolled_back"]
        /\ current' = IF prev # 0 THEN prev ELSE IF current = i THEN 0 ELSE current
        /\ parcels' = [p \in Parcel |->
            RestoredParcel(parcels[p], SourceOf(line, p), p, prev)]
        /\ aliases' = RestoredAliases(i, line)
        /\ buildings' = RestoredBuildings(i, line)
        /\ pending' = [pending EXCEPT ![s] = None]
        /\ raced' = (raced \/ current \notin {i} \cup ({prev} \ {0}))

\* A unique index refuses the write; the request fails and nothing is kept.
Refuse(s) ==
    /\ pending[s] # None
    /\ \/ pending[s].op = "import" /\ ~ImportFits(pending[s])
       \/ pending[s].op = "rollback" /\ ~RollbackFits(pending[s].id)
    /\ pending' = [pending EXCEPT ![s] = None]
    /\ UNCHANGED <<imports, current, projection, raced>>

Next ==
    \E s \in Session :
        \/ BeginImport(s) \/ CommitImport(s) \/ CommitFailedImport(s)
        \/ BeginRollback(s) \/ CommitRollback(s)
        \/ Refuse(s)

Spec == Init /\ [][Next]_vars

----------------------------------------------------------------------------
(* Properties *)

\* Rows, projection and requests have the shape the tables give them.
TypeOK ==
    /\ imports \in Seq(ImportRow) /\ Len(imports) <= MaxImports
    /\ current \in 0..Len(imports)
    /\ parcels \in [Parcel -> ParcelRow]
    /\ aliases \subseteq Parcel \X Address \X Id
    /\ buildings \subseteq Parcel \X Key \X Id
    /\ pending \in [Session -> Request \cup {None}]
    /\ raced \in BOOLEAN

\* What import n said of a parcel and no later full import of the line has ended.
Standing(line, n, p) ==
    /\ n \in line /\ imports[n].payload[p] # None
    /\ \A m \in line : imports[m].mode = "full" => m <= n

\* An import taken back that listed the parcel at an address.
TakenBack(p, a) ==
    \E i \in 1..Len(imports) :
        /\ imports[i].status = "rolled_back" /\ imports[i].payload[p] # None
        /\ imports[i].payload[p].address = a

\* However imports and rollbacks are strung together, a parcel is active exactly when the
\* current lineage has a row for it, with that row's values, its building row, and its
\* alias unless an import taken back used the same address (rollback leaves an alias of
\* that import in place and then deletes it, service.py:609-656).  Nothing else is
\* claimed for the matcher: every other alias and building row is what a standing import
\* of that lineage said of the parcel.
ProjectionIsLineage ==
    ~raced =>
        LET line == LineOf(current)
        IN  /\ \A p \in Parcel :
                LET j == SourceOf(line, p)
                IN  /\ j = 0 => ~parcels[p].active
                    /\ j # 0 =>
                        /\ parcels[p] = [active |-> TRUE, listing |-> Said(line, p), from |-> j]
                        /\ <<p, Said(line, p).key, j>> \in buildings
                        /\ \/ HasAlias(aliases, p, Said(line, p).address)
                           \/ TakenBack(p, Said(line, p).address)
            /\ \A alias \in aliases :
                /\ Standing(line, alias[3], alias[1])
                /\ imports[alias[3]].payload[alias[1]].address = alias[2]
            /\ \A row \in buildings :
                /\ Standing(line, row[3], row[1])
                /\ imports[row[3]].payload[row[1]].key = row[2]

\* Nothing a rolled-back import wrote is left in the projection: no alias, no
\* building and no active parcel points at it, and it is not current.
RolledBackLeavesNothing ==
    ~raced => \A i \in 1..Len(imports) : imports[i].status = "rolled_back" =>
        /\ current # i
        /\ \A alias \in aliases : alias[3] # i
        /\ \A row \in buildings : row[3] # i
        /\ \A p \in Parcel : parcels[p].active => parcels[p].from # i

\* The unique index on the current import stops every request that acts on a
\* current import it read too early, except when an import without a predecessor
\* was rolled back: only then is there no current row to collide with.
IndexStopsRaces ==
    raced => \E i \in 1..Len(imports) : imports[i].status = "rolled_back" /\ imports[i].prev = 0
=============================================================================
