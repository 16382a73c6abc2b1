--------------------------- MODULE IncidentLedger ---------------------------
(***************************************************************************)
(* The canonical incident ledger of one provider (incidents/service.py):   *)
(* which incident each source observation is currently assigned to, the    *)
(* assignments it had before, and which incident absorbed which.           *)
(*                                                                         *)
(* Assembly (process_retrieval) is serialised on the provider row.  The    *)
(* analysts' merges and splits are not: they read the incident and its     *)
(* links, and write later, what they read notwithstanding (READ COMMITTED, *)
(* and SQLite takes no lock before the first write).  So each of them is   *)
(* two steps, and so is an assembly.  A retrieval has one observation      *)
(* here; the classification and the state of an incident are in            *)
(* IncidentLifecycle.                                                      *)
(***************************************************************************)
EXTENDS IncidentLinkage

CONSTANTS
    Record,         \* source_record_ids
    RecordOf,       \* observation -> its source_record_id
    Editor,         \* merge and split requests, repair runs
    MaxIncidents,   \* bound: incident ids handed out
    None            \* no observation, no transaction

Incident == 1..MaxIncidents
NoIncident == 0

ASSUME RecordAssumption == RecordOf \in [Obs -> Record]
ASSUME BoundAssumption == MaxIncidents \in Nat
ASSUME NoneAssumption == None \notin Obs

VARIABLES
    made,           \* ids handed out so far
    active,         \* incidents with is_active
    into,           \* incident -> merged_into_id
    links,          \* current IncidentObservationLink rows <<obs, incident>>
    ended,          \* rows that are no longer current
    alias,          \* record -> incident of its source_record_id alias
    assembly,       \* who holds the provider row, and what it decided
    tx,             \* editor -> the correction it is about to commit
    raced           \* history: a commit rested on reads that were out of date

vars == <<made, active, into, links, ended, alias, assembly, tx, raced>>

Correction == [kind : {"merge", "split"}, from : Incident, to : Incident,
               seen : SUBSET Obs, moved : SUBSET Obs]
NoCorrection == [kind |-> "none"]
NoAssembly == [obs |-> None, to |-> NoIncident]

TypeOK ==
    /\ made \in 0..MaxIncidents
    /\ active \subseteq Incident
    /\ into \in [Incident -> Incident \cup {NoIncident}]
    /\ links \subseteq Obs \X Incident
    /\ ended \subseteq Obs \X Incident
    /\ alias \in [Record -> Incident \cup {NoIncident}]
    /\ assembly \in [obs : Obs, to : Incident] \cup {NoAssembly}
    /\ tx \in [Editor -> Correction \cup {NoCorrection}]
    /\ raced \in BOOLEAN

Init ==
    /\ made = 0
    /\ active = {}
    /\ into = [i \in Incident |-> NoIncident]
    /\ links = {}
    /\ ended = {}
    /\ alias = [r \in Record |-> NoIncident]
    /\ assembly = NoAssembly
    /\ tx = [e \in Editor |-> NoCorrection]
    /\ raced = FALSE

-----------------------------------------------------------------------------
LinksOf(i) == {o \in Obs : <<o, i>> \in links}
Linked(o) == \E i \in Incident : <<o, i>> \in links

Absorbed(i) == into[i] # NoIncident

\* Where the loop over merged_into_id stands after so many rounds: it stops
\* at an active incident and otherwise follows the merges.
Walk(i) ==
    LET round[n \in 0..MaxIncidents] ==
            IF n = 0 THEN i
            ELSE IF round[n - 1] \in active \/ ~Absorbed(round[n - 1])
            THEN round[n - 1]
            ELSE into[round[n - 1]]
    IN  round[MaxIncidents]

\* Fault: every record is taken to have an alias.
AliasTarget(o) == {alias[RecordOf[o]]}

\* The active incidents whose evidence matches best.
BestMatches(o) ==
    {i \in active : \E score \in MatchScores(o, LinksOf(i)) : \A j \in active \ {i} :
        \/ MayNotMatch(o, LinksOf(j))
        \/ \E other \in MatchScores(o, LinksOf(j)) : other <= score}

\* A new incident, where none has to match.
NewIncident(o) ==
    IF \A i \in active : MayNotMatch(o, LinksOf(i)) THEN {made + 1} \cap Incident ELSE {}

\* Fault: an identity whose incident was merged away fits nowhere.
ActiveTarget(o) ==
    IF alias[RecordOf[o]] # NoIncident
    THEN {alias[RecordOf[o]]} \cap active
    ELSE BestMatches(o) \cup NewIncident(o)

\* The incident an observation may be linked to: the one that holds its
\* source record identity, if there is one, else the one that matches best,
\* or a new one.  A circle of merges is walked for ever.
Targets(o) ==
    IF alias[RecordOf[o]] # NoIncident
    THEN {Walk(alias[RecordOf[o]])} \cap active
    ELSE BestMatches(o) \cup NewIncident(o)

\* _link_observation accepts an observation whose row this transaction just
\* ended, or which is in place already; a row for the same incident that was
\* ended earlier leaves no room for another (uq_incident_observation_link_version).
Movable(c) ==
    \A o \in c.moved :
        \/ <<o, c.from>> \in links /\ <<o, c.from>> \notin ended
        \/ <<o, c.to>> \in links

\* What the correction ends, and the rows it leaves current.
EndedBy(c) == {l \in links : l[1] \in c.moved /\ l[2] = c.from}

\* Fault: the rows that are ended are not replaced.
DropLinks(c) ==
    /\ links' = links \ EndedBy(c)
    /\ ended' = ended \cup EndedBy(c)

\* Fault: the observation is linked anew and its old row stays current.
CopyLinks(c) ==
    /\ links' = links \cup {<<o, c.to>> : o \in c.moved}
    /\ ended' = ended \cup EndedBy(c)

MoveLinks(c) ==
    /\ links' = (links \ EndedBy(c)) \cup {<<o, c.to>> : o \in c.moved}
    /\ ended' = ended \cup EndedBy(c)

\* The incidents a correction read are no longer what it read.
Stale(c) ==
    \/ c.from \notin active
    \/ c.kind = "merge" /\ (c.to \notin active \/ ~(LinksOf(c.from) \subseteq c.seen))
    \/ c.kind = "split" /\ ~(c.seen \subseteq LinksOf(c.from))

-----------------------------------------------------------------------------
(* Assembly: process_retrieval. *)

\* The provider row is locked, the observation has no incident yet, and one
\* is chosen for it.
Choose(o) ==
    /\ assembly = NoAssembly
    /\ ~Linked(o)
    /\ \E i \in Targets(o) :
          /\ assembly' = [obs |-> o, to |-> i]
          /\ made' = IF i > made THEN i ELSE made
    /\ UNCHANGED <<active, into, links, ended, alias, tx, raced>>

\* The commit: a new incident appears, the link is written whatever became
\* of a chosen one, and the first link of a record is its alias for good.
CommitLink ==
    /\ assembly # NoAssembly
    /\ LET o == assembly.obs
           i == assembly.to
       IN  /\ links' = links \cup {<<o, i>>}
           /\ active' = IF Absorbed(i) THEN active ELSE active \cup {i}
           /\ alias' = [alias EXCEPT ![RecordOf[o]] = IF @ = NoIncident THEN i ELSE @]
           /\ raced' = (raced \/ Absorbed(i))
    /\ assembly' = NoAssembly
    /\ UNCHANGED <<made, into, ended, tx>>

-----------------------------------------------------------------------------
(* Corrections: merge_incidents and split_incident. *)

\* Both incidents are active, and the absorbed one's links are read.
BeginMerge(e, s, a) ==
    /\ tx[e] = NoCorrection
    /\ s \in active
    /\ a \in active \ {s}
    /\ tx' = [tx EXCEPT ![e] = [kind |-> "merge", from |-> a, to |-> s,
                                seen |-> LinksOf(a), moved |-> LinksOf(a)]]
    /\ UNCHANGED <<made, active, into, links, ended, alias, assembly, raced>>

\* Fault: the absorbed incident is closed and its links are left with it.
CloseOnly(e) ==
    /\ tx[e].kind = "merge"
    /\ Movable(tx[e])
    /\ active' = active \ {tx[e].from}
    /\ into' = [into EXCEPT ![tx[e].from] = tx[e].to]
    /\ raced' = (raced \/ Stale(tx[e]))
    /\ tx' = [tx EXCEPT ![e] = NoCorrection]
    /\ UNCHANGED <<made, links, ended, alias, assembly>>

\* Fault: the absorbed incident is recorded as merged into itself.
IntoItself(e) ==
    /\ tx[e].kind = "merge"
    /\ Movable(tx[e])
    /\ MoveLinks(tx[e])
    /\ active' = active \ {tx[e].from}
    /\ into' = [into EXCEPT ![tx[e].from] = tx[e].from]
    /\ raced' = (raced \/ Stale(tx[e]))
    /\ tx' = [tx EXCEPT ![e] = NoCorrection]
    /\ UNCHANGED <<made, alias, assembly>>

CommitMerge(e) ==
    /\ tx[e].kind = "merge"
    /\ Movable(tx[e])
    /\ MoveLinks(tx[e])
    /\ active' = active \ {tx[e].from}
    /\ into' = [into EXCEPT ![tx[e].from] = tx[e].to]
    /\ raced' = (raced \/ Stale(tx[e]))
    /\ tx' = [tx EXCEPT ![e] = NoCorrection]
    /\ UNCHANGED <<made, alias, assembly>>

\* Fault: a split may take everything.
SplitWhole(e, i, S) ==
    /\ tx[e] = NoCorrection
    /\ i \in active
    /\ S # {} /\ S \subseteq LinksOf(i)
    /\ made + 1 \in Incident
    /\ made' = made + 1
    /\ tx' = [tx EXCEPT ![e] = [kind |-> "split", from |-> i, to |-> made + 1,
                                seen |-> LinksOf(i), moved |-> S]]
    /\ UNCHANGED <<active, into, links, ended, alias, assembly, raced>>

\* A non-empty part of an active incident's observations, but not all.
BeginSplit(e, i, S) ==
    /\ tx[e] = NoCorrection
    /\ i \in active
    /\ S # {} /\ S \subseteq LinksOf(i) /\ S # LinksOf(i)
    /\ made + 1 \in Incident
    /\ made' = made + 1
    /\ tx' = [tx EXCEPT ![e] = [kind |-> "split", from |-> i, to |-> made + 1,
                                seen |-> LinksOf(i), moved |-> S]]
    /\ UNCHANGED <<active, into, links, ended, alias, assembly, raced>>

CommitSplit(e) ==
    /\ tx[e].kind = "split"
    /\ Movable(tx[e])
    /\ MoveLinks(tx[e])
    /\ active' = active \cup {tx[e].to}
    /\ raced' = (raced \/ Stale(tx[e]))
    /\ tx' = [tx EXCEPT ![e] = NoCorrection]
    /\ UNCHANGED <<made, into, alias, assembly>>

\* An observation has gone elsewhere (422), or its old row is in the way of
\* the next one (an error nobody handles): nothing is written.
Refuse(e) ==
    /\ tx[e] # NoCorrection
    /\ ~Movable(tx[e])
    /\ tx' = [tx EXCEPT ![e] = NoCorrection]
    /\ UNCHANGED <<made, active, into, links, ended, alias, assembly, raced>>

-----------------------------------------------------------------------------
Assemble == (\E o \in Obs : Choose(o)) \/ CommitLink

Next ==
    \/ Assemble
    \/ \E e \in Editor :
          \/ \E s, a \in Incident : BeginMerge(e, s, a)
          \/ CommitMerge(e)
          \/ \E i \in Incident, S \in SUBSET Obs : BeginSplit(e, i, S)
          \/ CommitSplit(e)
          \/ Refuse(e)

\* Retained retrievals are assembled by the next polling cycle
\* (DispatchPolling); nobody has to correct anything.
Spec == Init /\ [][Next]_vars /\ WF_vars(Assemble)

-----------------------------------------------------------------------------
(* Assembly, merges and splits that overlap in any order never leave an    *)
(* observation as current evidence of two incidents.                       *)
OneCurrentLink ==
    \A o \in Obs, i, j \in Incident :
        <<o, i>> \in links /\ <<o, j>> \in links => i = j

(* "Merge and split endpoints preserve raw rows, observation IDs, old      *)
(* assignment history": an assignment ends only by being replaced, and it  *)
(* stays on record when it has ended.                                      *)
EvidenceKept ==
    [][/\ \A o \in Obs : Linked(o) => Linked(o)'
       /\ links \ links' \subseteq ended'
       /\ ended \subseteq ended']_vars

(* Unless a commit rested on reads that were out of date, no evidence is   *)
(* hidden behind an incident that was merged away ...                      *)
VisibleEvidence ==
    ~raced => \A l \in links : l[2] \in active

(* ... no active incident is without evidence ...                          *)
NoHollowIncident ==
    ~raced => \A i \in active : LinksOf(i) # {}

(* ... and whoever follows the merges, as assembly does for the identity   *)
(* of a source record, comes to an active incident.                        *)
MergesEnd ==
    ~raced => \A i \in Incident : Absorbed(i) => Walk(i) \in active

\* What cluster_is_consistent forbids between an observation and one the incident has.
Incompatible(o, p) ==
    \/ MinutesApart(o, p) > MAX_CLUSTER_SPAN_HOURS * 60
    \/ Alike[o, p] < 35 /\ MinutesApart(o, p) <= 42
    \/ IdentifierConflict(o, p)

(* Observations that are incompatible, whichever of them comes first, are  *)
(* kept apart while nobody corrects the ledger: linkage asks every         *)
(* observation of an incident (cluster_is_consistent), not only the one    *)
(* that matches best.  One way in is left, a record's alias: a later       *)
(* capture of a record follows it whatever it says by then.                *)
KeptApart ==
    ended = {} => \A i \in Incident : \A o, p \in LinksOf(i) :
        o # p /\ Incompatible(o, p) /\ Incompatible(p, o)
            => \E r \in {o, p} : \E q \in LinksOf(i) \ {r} : RecordOf[q] = RecordOf[r]

(* Every observation gets its incident: assembly does not get stuck on the *)
(* corrections that analysts make to the ledger meanwhile, unless these    *)
(* use up the ids there are (MaxIncidents).                                *)
AllAssembled ==
    \A o \in Obs : <>(Linked(o) \/ raced \/ made = MaxIncidents)

(* "only active incidents can be merged": following the merges from any    *)
(* incident leads to an active one.  Two merges of the same pair in        *)
(* opposite directions absorb each other, and the assembly that then meets *)
(* the source record walks in circles, holding the provider row.           *)
MergesReachActive ==
    \A i \in Incident : Absorbed(i) => Walk(i) \in active

(* "split observations must be non-empty and currently belong to the       *)
(* incident", and no more than that: while they do, the split goes         *)
(* through.  An observation that once left the incident and came back by a *)
(* merge does belong to it, and can never leave it again.                  *)
BelongingSuffices ==
    \A e \in Editor :
        tx[e].kind = "split" /\ tx[e].moved \subseteq LinksOf(tx[e].from)
            => Movable(tx[e])
=============================================================================
