----------------------- MODULE IncidentLedger_proofs -----------------------
(***************************************************************************)
(* Proofs about IncidentLedger, for any number of observations, records,   *)
(* editors and incidents.  Walk, the loop over the merges, is a recursive  *)
(* function: what it computes is argued by a least counterexample.         *)
(***************************************************************************)
EXTENDS IncidentLedger, FiniteSetTheorems, WellFoundedInduction, TLAPS

(* A correction about to be committed moves what it read, to another       *)
(* incident than the one it takes it from, and a split leaves something.   *)
CorrectionShape ==
    \A e \in Editor :
        tx[e] # NoCorrection =>
            /\ tx[e].from # tx[e].to
            /\ tx[e].moved \subseteq tx[e].seen
            /\ tx[e].kind = "merge" => tx[e].moved = tx[e].seen
            /\ tx[e].kind = "split" => tx[e].moved # {} /\ tx[e].moved # tx[e].seen

(* Only ids that were handed out are in use.                               *)
IdsHandedOut ==
    /\ active \subseteq 1..made
    /\ assembly # NoAssembly => assembly.to \in 1..made
    /\ \A e \in Editor :
          tx[e] # NoCorrection => tx[e].from \in 1..made /\ tx[e].to \in 1..made

(* The observation that assembly has chosen an incident for has none yet.  *)
AssemblyUnlinked ==
    assembly # NoAssembly => ~Linked(assembly.obs)

IInv == TypeOK /\ IdsHandedOut /\ CorrectionShape /\ OneCurrentLink /\ AssemblyUnlinked
            /\ VisibleEvidence /\ NoHollowIncident

-----------------------------------------------------------------------------
(* A transaction record is a correction exactly when its kind says so.     *)
LEMMA CorrectionKinds ==
    ASSUME TypeOK, NEW e \in Editor
    PROVE  /\ tx[e] # NoCorrection <=> tx[e] \in Correction
           /\ tx[e].kind \in {"merge", "split"} => tx[e] \in Correction
           /\ tx[e] \in Correction => tx[e].kind \in {"merge", "split"}
<1>1. tx[e] \in Correction \cup {NoCorrection}
  BY DEF TypeOK
<1>2. NoCorrection.kind \notin {"merge", "split"}
  BY DEF NoCorrection
<1>3. \A c \in Correction : c.kind \in {"merge", "split"}
  BY DEF Correction
<1> QED
  BY <1>1, <1>2, <1>3

(* What assembly may choose is an incident id.                             *)
LEMMA TargetsAreIncidents ==
    ASSUME TypeOK, NEW o \in Obs
    PROVE  Targets(o) \subseteq Incident
BY DEF TypeOK, Targets, BestMatches, NewIncident

(* Moving links: who is linked where afterwards.                           *)
LEMMA MovedLinks ==
    ASSUME TypeOK, NEW c \in Correction, MoveLinks(c)
    PROVE  /\ links' \subseteq Obs \X Incident
           /\ ended' \subseteq Obs \X Incident
           /\ \A o \in Obs, i \in Incident :
                 <<o, i>> \in links' <=>
                     \/ <<o, i>> \in links /\ ~(o \in c.moved /\ i = c.from)
                     \/ o \in c.moved /\ i = c.to
           /\ links \ links' \subseteq ended'
           /\ ended \subseteq ended'
<1>1. c.moved \subseteq Obs /\ c.to \in Incident /\ c.from \in Incident
  BY DEF Correction
<1>2. links \subseteq Obs \X Incident /\ ended \subseteq Obs \X Incident
  BY DEF TypeOK
<1>3. \A o \in Obs, i \in Incident :
         <<o, i>> \in EndedBy(c) <=> <<o, i>> \in links /\ o \in c.moved /\ i = c.from
  BY DEF EndedBy
<1>4. EndedBy(c) \subseteq links
  BY DEF EndedBy
<1>5. {<<o, c.to>> : o \in c.moved} \subseteq Obs \X Incident
  BY <1>1
<1>6. \A o \in Obs, i \in Incident :
         <<o, i>> \in {<<x, c.to>> : x \in c.moved} <=> o \in c.moved /\ i = c.to
  OBVIOUS
<1>7. links' = (links \ EndedBy(c)) \cup {<<o, c.to>> : o \in c.moved}
      /\ ended' = ended \cup EndedBy(c)
  BY DEF MoveLinks
<1>8. links' \subseteq Obs \X Incident /\ ended' \subseteq Obs \X Incident
  BY <1>2, <1>4, <1>5, <1>7
<1>9. links \ links' \subseteq ended' /\ ended \subseteq ended'
  BY <1>7
<1>10. \A o \in Obs, i \in Incident :
         <<o, i>> \in links' <=>
             \/ <<o, i>> \in links /\ ~(o \in c.moved /\ i = c.from)
             \/ o \in c.moved /\ i = c.to
  BY <1>3, <1>6, <1>7
<1> QED
  BY <1>8, <1>9, <1>10

(* Links that may move had an incident, and keep exactly one.              *)
LEMMA MovingIsSound ==
    ASSUME TypeOK, OneCurrentLink, NEW c \in Correction, Movable(c), MoveLinks(c)
    PROVE  /\ OneCurrentLink'
           /\ \A o \in Obs : Linked(o)' <=> Linked(o)
<1>1. c.moved \subseteq Obs /\ c.to \in Incident /\ c.from \in Incident
  BY DEF Correction
<1>2. \A o \in Obs, i \in Incident :
         <<o, i>> \in links' <=>
             \/ <<o, i>> \in links /\ ~(o \in c.moved /\ i = c.from)
             \/ o \in c.moved /\ i = c.to
  BY MovedLinks
<1>3. \A o \in c.moved : <<o, c.from>> \in links \/ <<o, c.to>> \in links
  BY DEF Movable
<1>4. OneCurrentLink'
  BY <1>1, <1>2, <1>3 DEF OneCurrentLink
<1>5. \A o \in Obs : Linked(o)' <=> Linked(o)
  BY <1>1, <1>2, <1>3 DEF Linked
<1> QED
  BY <1>4, <1>5

-----------------------------------------------------------------------------
(* Rows, objects, locks and processes keep their shape in every step.      *)
THEOREM TypeCorrect == Spec => []TypeOK
<1>1. Init => TypeOK
  <2> SUFFICES ASSUME Init PROVE TypeOK
    OBVIOUS
  <2>1. made \in 0..MaxIncidents
    BY BoundAssumption DEF Init
  <2>2. raced \in BOOLEAN
    BY DEF Init
  <2> QED
    BY <2>1, <2>2 DEF Init, TypeOK
<1>2. TypeOK /\ [Next]_vars => TypeOK'
  <2> SUFFICES ASSUME TypeOK, [Next]_vars PROVE TypeOK'
    OBVIOUS
  <2> USE DEF TypeOK
  <2>1. ASSUME NEW o \in Obs, Choose(o) PROVE TypeOK'
    <3>1. PICK i \in Targets(o) : /\ assembly' = [obs |-> o, to |-> i]
                                  /\ made' = IF i > made THEN i ELSE made
      BY <2>1 DEF Choose
    <3>2. i \in Incident
      BY <3>1, TargetsAreIncidents
    <3>3. made' \in 0..MaxIncidents
      BY <3>1, <3>2, BoundAssumption DEF Incident
    <3>4. assembly' \in [obs : Obs, to : Incident]
      BY <3>1, <3>2
    <3> QED
      BY <2>1, <3>3, <3>4 DEF Choose
  <2>2. CASE CommitLink
    <3>1. assembly.obs \in Obs /\ assembly.to \in Incident
      BY <2>2 DEF CommitLink
    <3>2. links' \subseteq Obs \X Incident /\ active' \subseteq Incident
      BY <2>2, <3>1 DEF CommitLink
    <3>3. alias' \in [Record -> Incident \cup {NoIncident}]
      BY <2>2, <3>1, RecordAssumption DEF CommitLink
    <3>4. raced' \in BOOLEAN
      BY <2>2, Zenon DEF CommitLink
    <3> QED
      BY <2>2, <3>2, <3>3, <3>4 DEF CommitLink
  <2>3. ASSUME NEW e \in Editor, NEW s \in Incident, NEW a \in Incident, BeginMerge(e, s, a)
        PROVE  TypeOK'
    <3>1. [kind |-> "merge", from |-> a, to |-> s, seen |-> LinksOf(a), moved |-> LinksOf(a)]
              \in Correction
      BY DEF Correction, LinksOf
    <3> QED
      BY <2>3, <3>1 DEF BeginMerge
  <2>4. ASSUME NEW e \in Editor, CommitMerge(e) PROVE TypeOK'
    <3>1. tx[e] \in Correction
      BY <2>4, CorrectionKinds DEF CommitMerge
    <3>2. tx[e].from \in Incident /\ tx[e].to \in Incident
      BY <3>1 DEF Correction
    <3>3. links' \subseteq Obs \X Incident /\ ended' \subseteq Obs \X Incident
      BY <2>4, <3>1, MovedLinks DEF CommitMerge
    <3>4. raced' \in BOOLEAN
      BY <2>4, Zenon DEF CommitMerge
    <3> QED
      BY <2>4, <3>2, <3>3, <3>4 DEF CommitMerge
  <2>5. ASSUME NEW e \in Editor, NEW i \in Incident, NEW S \in SUBSET Obs, BeginSplit(e, i, S)
        PROVE  TypeOK'
    <3>1. made + 1 \in Incident /\ made + 1 \in 0..MaxIncidents
      BY <2>5, BoundAssumption DEF BeginSplit, Incident
    <3>2. [kind |-> "split", from |-> i, to |-> made + 1, seen |-> LinksOf(i), moved |-> S]
              \in Correction
      BY <3>1 DEF Correction, LinksOf
    <3> QED
      BY <2>5, <3>1, <3>2 DEF BeginSplit
  <2>6. ASSUME NEW e \in Editor, CommitSplit(e) PROVE TypeOK'
    <3>1. tx[e] \in Correction
      BY <2>6, CorrectionKinds DEF CommitSplit
    <3>2. tx[e].to \in Incident
      BY <3>1 DEF Correction
    <3>3. links' \subseteq Obs \X Incident /\ ended' \subseteq Obs \X Incident
      BY <2>6, <3>1, MovedLinks DEF CommitSplit
    <3>4. raced' \in BOOLEAN
      BY <2>6, Zenon DEF CommitSplit
    <3> QED
      BY <2>6, <3>2, <3>3, <3>4 DEF CommitSplit
  <2>7. ASSUME NEW e \in Editor, Refuse(e) PROVE TypeOK'
    BY <2>7 DEF Refuse
  <2>8. CASE UNCHANGED vars
    BY <2>8 DEF vars
  <2> QED
    BY <2>1, <2>2, <2>3, <2>4, <2>5, <2>6, <2>7, <2>8 DEF Next, Assemble
<1> QED
  BY <1>1, <1>2, PTL DEF Spec

-----------------------------------------------------------------------------
(* What is about to be committed keeps its shape, and ids are not reused.  *)
LEMMA ShapeStep ==
    ASSUME TypeOK, IdsHandedOut, CorrectionShape, [Next]_vars
    PROVE  IdsHandedOut' /\ CorrectionShape'
<1> USE DEF IdsHandedOut, CorrectionShape
<1>0. made \in Nat /\ made <= MaxIncidents
  BY BoundAssumption DEF TypeOK
<1>1. ASSUME NEW o \in Obs, Choose(o) PROVE IdsHandedOut' /\ CorrectionShape'
  <2>1. PICK i \in Targets(o) : /\ assembly' = [obs |-> o, to |-> i]
                                /\ made' = IF i > made THEN i ELSE made
    BY <1>1 DEF Choose
  <2>2. i \in Nat \ {0}
    BY <2>1, TargetsAreIncidents, BoundAssumption DEF Incident
  <2>3. made' \in Nat /\ made <= made' /\ i <= made'
    BY <1>0, <2>1, <2>2
  <2>4. 1..made \subseteq 1..made'
    BY <1>0, <2>3
  <2>5. assembly'.to \in 1..made'
    BY <2>1, <2>2, <2>3
  <2> QED
    BY <1>1, <2>4, <2>5 DEF Choose
<1>2. CASE CommitLink
  <2>1. active' \subseteq 1..made
    BY <1>2 DEF CommitLink
  <2> QED
    BY <1>2, <2>1 DEF CommitLink
<1>3. ASSUME NEW e \in Editor, NEW s \in Incident, NEW a \in Incident, BeginMerge(e, s, a)
      PROVE  IdsHandedOut' /\ CorrectionShape'
  <2>1. tx \in [Editor -> Correction \cup {NoCorrection}]
    BY DEF TypeOK
  <2>2. tx' = [tx EXCEPT ![e] = [kind |-> "merge", from |-> a, to |-> s,
                                 seen |-> LinksOf(a), moved |-> LinksOf(a)]]
    BY <1>3 DEF BeginMerge
  <2>3. /\ tx'[e].kind = "merge" /\ tx'[e].from = a /\ tx'[e].to = s
        /\ tx'[e].seen = LinksOf(a) /\ tx'[e].moved = LinksOf(a)
    BY <2>1, <2>2
  <2>4. \A f \in Editor \ {e} : tx'[f] = tx[f]
    BY <2>1, <2>2
  <2>5. a # s /\ a \in 1..made /\ s \in 1..made
    BY <1>3 DEF BeginMerge
  <2>6. CorrectionShape'
    BY <2>3, <2>4, <2>5
  <2>7. IdsHandedOut'
    BY <1>3, <2>3, <2>4, <2>5 DEF BeginMerge
  <2> QED
    BY <2>6, <2>7
<1>4. ASSUME NEW e \in Editor, CommitMerge(e) PROVE IdsHandedOut' /\ CorrectionShape'
  BY <1>4 DEF CommitMerge, TypeOK
<1>5. ASSUME NEW e \in Editor, NEW i \in Incident, NEW S \in SUBSET Obs, BeginSplit(e, i, S)
      PROVE  IdsHandedOut' /\ CorrectionShape'
  <2>1. tx \in [Editor -> Correction \cup {NoCorrection}]
    BY DEF TypeOK
  <2>2. tx' = [tx EXCEPT ![e] = [kind |-> "split", from |-> i, to |-> made + 1,
                                 seen |-> LinksOf(i), moved |-> S]]
    BY <1>5 DEF BeginSplit
  <2>3. /\ tx'[e].kind = "split" /\ tx'[e].from = i /\ tx'[e].to = made + 1
        /\ tx'[e].seen = LinksOf(i) /\ tx'[e].moved = S
    BY <2>1, <2>2
  <2>4. \A f \in Editor \ {e} : tx'[f] = tx[f]
    BY <2>1, <2>2
  <2>5. i \in 1..made /\ made' = made + 1
    BY <1>5 DEF BeginSplit
  <2>6. i # made + 1 /\ 1..made \subseteq 1..made' /\ made + 1 \in 1..made'
    BY <1>0, <2>5
  <2>7. S \subseteq LinksOf(i) /\ S # {} /\ S # LinksOf(i)
    BY <1>5 DEF BeginSplit
  <2>8. CorrectionShape'
    BY <2>3, <2>4, <2>6, <2>7
  <2>9. IdsHandedOut'
    BY <1>5, <2>3, <2>4, <2>5, <2>6 DEF BeginSplit
  <2> QED
    BY <2>8, <2>9
<1>6. ASSUME NEW e \in Editor, CommitSplit(e) PROVE IdsHandedOut' /\ CorrectionShape'
  <2>1. tx[e] # NoCorrection
    BY <1>6, CorrectionKinds DEF CommitSplit
  <2>2. active' \subseteq 1..made
    BY <1>6, <2>1 DEF CommitSplit
  <2> QED
    BY <1>6, <2>2 DEF CommitSplit, TypeOK
<1>7. ASSUME NEW e \in Editor, Refuse(e) PROVE IdsHandedOut' /\ CorrectionShape'
  BY <1>7 DEF Refuse, TypeOK
<1>8. CASE UNCHANGED vars
  BY <1>8 DEF vars
<1> QED
  BY <1>1, <1>2, <1>3, <1>4, <1>5, <1>6, <1>7, <1>8 DEF Next, Assemble

(* No step gives an observation a second incident or takes its only one    *)
(* away, and what assembly is about to link stays unlinked.                *)
LEMMA LinkStep ==
    ASSUME TypeOK, OneCurrentLink, AssemblyUnlinked, [Next]_vars
    PROVE  /\ OneCurrentLink'
           /\ AssemblyUnlinked'
           /\ \A o \in Obs : Linked(o) => Linked(o)'
           /\ links \ links' \subseteq ended'
           /\ ended \subseteq ended'
<1> DEFINE Goal == /\ OneCurrentLink'
                   /\ AssemblyUnlinked'
                   /\ \A o \in Obs : Linked(o) => Linked(o)'
                   /\ links \ links' \subseteq ended'
                   /\ ended \subseteq ended'
<1>1. ASSUME NEW o \in Obs, Choose(o) PROVE Goal
  <2>1. links' = links /\ ended' = ended /\ ~Linked(o) /\ assembly'.obs = o
    BY <1>1 DEF Choose
  <2>2. \A i \in Incident : <<o, i>> \notin links'
    BY <2>1 DEF Linked
  <2> QED
    BY <2>1, <2>2 DEF OneCurrentLink, AssemblyUnlinked, Linked
<1>2. CASE CommitLink
  <2>1. assembly.obs \in Obs /\ assembly.to \in Incident /\ ~Linked(assembly.obs)
    BY <1>2 DEF CommitLink, TypeOK, AssemblyUnlinked
  <2>2. /\ links' = links \cup {<<assembly.obs, assembly.to>>}
        /\ ended' = ended
        /\ assembly' = NoAssembly
    BY <1>2 DEF CommitLink
  <2>3. \A o \in Obs, i \in Incident :
           <<o, i>> \in links' <=> <<o, i>> \in links \/ (o = assembly.obs /\ i = assembly.to)
    BY <2>2
  <2>4. OneCurrentLink'
    BY <2>1, <2>3 DEF OneCurrentLink, Linked
  <2> QED
    BY <2>2, <2>3, <2>4 DEF AssemblyUnlinked, Linked
<1>3. ASSUME NEW e \in Editor, CommitMerge(e) \/ CommitSplit(e) PROVE Goal
  <2>1. tx[e] \in Correction /\ Movable(tx[e]) /\ MoveLinks(tx[e]) /\ assembly' = assembly
    BY <1>3, CorrectionKinds DEF CommitMerge, CommitSplit
  <2>2. OneCurrentLink' /\ \A o \in Obs : Linked(o)' <=> Linked(o)
    BY <2>1, MovingIsSound
  <2>3. links \ links' \subseteq ended' /\ ended \subseteq ended'
    BY <2>1, MovedLinks
  <2>4. assembly # NoAssembly => \A i \in Incident : <<assembly.obs, i>> \notin links'
    <3>1. assembly # NoAssembly => assembly.obs \in Obs
      BY DEF TypeOK
    <3> QED
      BY <2>2, <3>1 DEF AssemblyUnlinked, Linked
  <2>5. AssemblyUnlinked'
    BY <2>1, <2>4 DEF AssemblyUnlinked, Linked
  <2> QED
    BY <2>2, <2>3, <2>5
<1>4. CASE UNCHANGED <<links, ended, assembly>>
  BY <1>4 DEF OneCurrentLink, AssemblyUnlinked, Linked
<1>5. \/ \E o \in Obs : Choose(o)
      \/ CommitLink
      \/ \E e \in Editor : CommitMerge(e) \/ CommitSplit(e)
      \/ UNCHANGED <<links, ended, assembly>>
  BY DEF Next, Assemble, vars, BeginMerge, BeginSplit, Refuse
<1> QED
  BY <1>1, <1>2, <1>3, <1>4, <1>5

(* Without stale commits, evidence stays visible and incidents keep some.  *)
LEMMA EvidenceStep ==
    ASSUME TypeOK, IdsHandedOut, CorrectionShape, VisibleEvidence, NoHollowIncident,
           [Next]_vars, ~raced'
    PROVE  /\ \A o \in Obs, i \in Incident : <<o, i>> \in links' => i \in active'
           /\ \A i \in active' : \E o \in Obs : <<o, i>> \in links'
<1> DEFINE Goal == /\ \A o \in Obs, i \in Incident : <<o, i>> \in links' => i \in active'
                   /\ \A i \in active' : \E o \in Obs : <<o, i>> \in links'
<1>1. ~raced
  BY DEF Next, Assemble, Choose, CommitLink, BeginMerge, CommitMerge, BeginSplit, CommitSplit,
         Refuse, vars
<1>2. \A o \in Obs, i \in Incident : <<o, i>> \in links => i \in active
  <2>1. \A l \in links : l[2] \in active
    BY <1>1 DEF VisibleEvidence
  <2> QED
    BY <2>1
<1>3. \A i \in active : \E o \in Obs : <<o, i>> \in links
  BY <1>1 DEF NoHollowIncident, LinksOf
<1>4. active \subseteq Incident
  BY DEF TypeOK
<1>5. CASE CommitLink
  <2>1. assembly.obs \in Obs /\ assembly.to \in Incident
    BY <1>5 DEF CommitLink, TypeOK
  <2>2. ~Absorbed(assembly.to)
    BY <1>5 DEF CommitLink
  <2>3. /\ links' = links \cup {<<assembly.obs, assembly.to>>}
        /\ active' = active \cup {assembly.to}
    BY <1>5, <2>2 DEF CommitLink
  <2> QED
    BY <1>2, <1>3, <2>1, <2>3
<1>6. ASSUME NEW e \in Editor, CommitMerge(e) PROVE Goal
  <2>1. tx[e] \in Correction /\ tx[e] # NoCorrection /\ tx[e].kind = "merge"
    BY <1>6, CorrectionKinds DEF CommitMerge
  <2>2. /\ tx[e].from # tx[e].to /\ tx[e].moved = tx[e].seen
        /\ tx[e].to \in active /\ LinksOf(tx[e].from) \subseteq tx[e].seen
        /\ active' = active \ {tx[e].from}
    BY <1>6, <2>1 DEF CommitMerge, Stale, CorrectionShape
  <2>3. \A o \in Obs : <<o, tx[e].from>> \in links => o \in tx[e].moved
    BY <2>2 DEF LinksOf
  <2>4. \A o \in Obs, i \in Incident :
           <<o, i>> \in links' <=>
               \/ <<o, i>> \in links /\ ~(o \in tx[e].moved /\ i = tx[e].from)
               \/ o \in tx[e].moved /\ i = tx[e].to
    BY <1>6, <2>1, MovedLinks DEF CommitMerge
  <2>5. \A o \in Obs, i \in Incident : <<o, i>> \in links' => i \in active'
    BY <1>2, <2>2, <2>3, <2>4
  <2>6. \A i \in active' : \E o \in Obs : <<o, i>> \in links'
    BY <1>3, <1>4, <2>2, <2>4
  <2> QED
    BY <2>5, <2>6
<1>7. ASSUME NEW e \in Editor, CommitSplit(e) PROVE Goal
  <2>1. tx[e] \in Correction /\ tx[e] # NoCorrection /\ tx[e].kind = "split"
    BY <1>7, CorrectionKinds DEF CommitSplit
  <2>2. /\ tx[e].from # tx[e].to /\ tx[e].moved \subseteq tx[e].seen
        /\ tx[e].moved # {} /\ tx[e].moved # tx[e].seen
        /\ tx[e].seen \subseteq LinksOf(tx[e].from)
        /\ active' = active \cup {tx[e].to}
    BY <1>7, <2>1 DEF CommitSplit, Stale, CorrectionShape
  <2>3. tx[e].to \in Incident /\ tx[e].moved \subseteq Obs
    BY <2>1 DEF Correction
  <2>4. \A o \in Obs, i \in Incident :
           <<o, i>> \in links' <=>
               \/ <<o, i>> \in links /\ ~(o \in tx[e].moved /\ i = tx[e].from)
               \/ o \in tx[e].moved /\ i = tx[e].to
    BY <1>7, <2>1, MovedLinks DEF CommitSplit
  <2>5. \A o \in Obs, i \in Incident : <<o, i>> \in links' => i \in active'
    BY <1>2, <2>2, <2>4
  <2>6. \E o \in Obs : <<o, tx[e].from>> \in links /\ o \notin tx[e].moved
    BY <2>2 DEF LinksOf
  <2>7. \E o \in Obs : <<o, tx[e].to>> \in links'
    BY <2>2, <2>3, <2>4
  <2>8. \A i \in active' : \E o \in Obs : <<o, i>> \in links'
    BY <1>3, <1>4, <2>2, <2>3, <2>4, <2>6, <2>7
  <2> QED
    BY <2>5, <2>8
<1>8. CASE UNCHANGED <<links, active>>
  BY <1>2, <1>3, <1>8
<1>9. \/ CommitLink
      \/ \E e \in Editor : CommitMerge(e) \/ CommitSplit(e)
      \/ UNCHANGED <<links, active>>
  BY DEF Next, Assemble, vars, Choose, BeginMerge, BeginSplit, Refuse
<1> QED
  BY <1>5, <1>6, <1>7, <1>8, <1>9

-----------------------------------------------------------------------------
(* The ledger stays well formed: no observation has two current            *)
(* incidents, and as long as no commit rested on reads that were out of    *)
(* date, evidence is visible and active incidents have some.               *)
THEOREM InvariantHolds == Spec => []IInv
<1>1. Init => IInv
  <2> SUFFICES ASSUME Init PROVE IInv
    OBVIOUS
  <2>1. TypeOK
    <3>1. made \in 0..MaxIncidents
      BY BoundAssumption DEF Init
    <3>2. raced \in BOOLEAN
      BY DEF Init
    <3> QED
      BY <3>1, <3>2 DEF Init, TypeOK
  <2>2. IdsHandedOut /\ CorrectionShape
    BY DEF Init, IdsHandedOut, CorrectionShape
  <2>3. OneCurrentLink /\ AssemblyUnlinked /\ VisibleEvidence /\ NoHollowIncident
    BY DEF Init, OneCurrentLink, AssemblyUnlinked, VisibleEvidence, NoHollowIncident
  <2> QED
    BY <2>1, <2>2, <2>3 DEF IInv
<1>2. IInv /\ TypeOK' /\ [Next]_vars => IInv'
  <2> SUFFICES ASSUME IInv, TypeOK', [Next]_vars PROVE IInv'
    OBVIOUS
  <2>1. IdsHandedOut' /\ CorrectionShape'
    BY ShapeStep DEF IInv
  <2>2. OneCurrentLink' /\ AssemblyUnlinked'
    BY LinkStep DEF IInv
  <2>3. VisibleEvidence' /\ NoHollowIncident'
    <3> SUFFICES ASSUME ~raced'
                 PROVE  /\ \A l \in links' : l[2] \in active'
                        /\ \A i \in active' : LinksOf(i)' # {}
      BY DEF VisibleEvidence, NoHollowIncident
    <3>1. /\ \A o \in Obs, i \in Incident : <<o, i>> \in links' => i \in active'
          /\ \A i \in active' : \E o \in Obs : <<o, i>> \in links'
      BY EvidenceStep DEF IInv
    <3>2. links' \subseteq Obs \X Incident
      BY DEF TypeOK
    <3>3. \A l \in links' : l[2] \in active'
      BY <3>1, <3>2
    <3>4. \A i \in active' : LinksOf(i)' # {}
      BY <3>1 DEF LinksOf
    <3> QED
      BY <3>3, <3>4
  <2> QED
    BY <2>1, <2>2, <2>3 DEF IInv
<1> QED
  BY <1>1, <1>2, TypeCorrect, PTL DEF Spec

(* Assembly, merges and splits in any interleaving leave an observation    *)
(* with at most one current incident.                                      *)
THEOREM EvidenceAssignedOnce == Spec => []OneCurrentLink
<1>1. IInv => OneCurrentLink
  BY DEF IInv
<1> QED
  BY <1>1, InvariantHolds, PTL

(* No step of anybody takes an observation off the ledger or an ended      *)
(* assignment off the record.                                              *)
THEOREM EvidenceIsKept == Spec => EvidenceKept
<1>1. IInv /\ [Next]_vars =>
        [/\ \A o \in Obs : Linked(o) => Linked(o)'
         /\ links \ links' \subseteq ended'
         /\ ended \subseteq ended']_vars
  BY LinkStep DEF IInv
<1> QED
  BY <1>1, InvariantHolds, PTL DEF Spec, EvidenceKept

(* As long as nobody commits on reads that are out of date, evidence is    *)
(* never hidden behind a merged incident, and no incident is an empty one. *)
THEOREM LedgerConsistentUnraced == Spec => [](VisibleEvidence /\ NoHollowIncident)
<1>1. IInv => VisibleEvidence /\ NoHollowIncident
  BY DEF IInv
<1> QED
  BY <1>1, InvariantHolds, PTL

(* The second of these on its own: merges and splits empty no incident that *)
(* goes on, as long as nobody commits on reads that are out of date.        *)
COROLLARY NoIncidentEmptied == Spec => []NoHollowIncident
BY LedgerConsistentUnraced, PTL

-----------------------------------------------------------------------------
(* A set of numbers that is not empty has a least one.                     *)
LEMMA LeastExists ==
    ASSUME NEW S \in SUBSET Nat, S # {}
    PROVE  \E x \in S : \A y \in S : x <= y
<1>1. PICK x \in S : \A y \in S : ~ (<<y, x>> \in OpToRel(<, Nat))
  BY NatLessThanWellFounded, WFMin
<1>2. \A y \in S : ~ (y < x)
  BY <1>1 DEF OpToRel
<1> QED
  BY <1>2

\* Where one round of the loop goes from incident j, and the rounds up to m from i.
Onward(j) == IF j \in active \/ ~Absorbed(j) THEN j ELSE into[j]
Rounds(i, m, f) == f = [n \in 0..m |-> IF n = 0 THEN i ELSE Onward(f[n - 1])]

(* The loop of Walk exists, and stays among the incidents.                 *)
LEMMA RoundsExist ==
    ASSUME NEW i, NEW m \in Nat
    PROVE  \E f : Rounds(i, m, f)
<1> DEFINE Missing == {k \in Nat : ~\E f : Rounds(i, k, f)}
<1>1. SUFFICES ASSUME Missing # {} PROVE FALSE
  OBVIOUS
<1>2. PICK k \in Missing : \A y \in Missing : k <= y
  BY <1>1, LeastExists
<1>3. CASE k = 0
  <2>1. Rounds(i, 0, [n \in 0..0 |-> i])
    BY DEF Rounds
  <2> QED
    BY <1>2, <1>3, <2>1
<1>4. CASE k # 0
  <2>1. k - 1 \in Nat /\ k - 1 \notin Missing
    BY <1>2, <1>4
  <2>2. PICK f : Rounds(i, k - 1, f)
    BY <2>1
  <2>3. \A n \in 0..(k - 1) : f[n] = IF n = 0 THEN i ELSE Onward(f[n - 1])
    BY <2>2, Zenon DEF Rounds
  <2> DEFINE g == [n \in 0..k |-> IF n = k THEN Onward(f[k - 1]) ELSE f[n]]
             G == [n \in 0..k |-> IF n = 0 THEN i ELSE Onward(g[n - 1])]
  <2>4. \A n \in 0..k : g[n] = G[n]
    <3>1. ASSUME NEW n \in 0..k, n = k PROVE g[n] = G[n]
      <4>1. g[n - 1] = f[n - 1] /\ n # 0
        BY <1>4, <3>1
      <4> QED
        BY <3>1, <4>1
    <3>2. ASSUME NEW n \in 0..k, n # k PROVE g[n] = G[n]
      <4>1. n \in 0..(k - 1) /\ g[n] = f[n]
        BY <3>2
      <4>2. n # 0 => g[n - 1] = f[n - 1]
        BY <3>2
      <4> QED
        BY <2>3, <4>1, <4>2
    <3> QED
      BY <3>1, <3>2
  <2>5. g = G
    BY <2>4
  <2>6. Rounds(i, k, g)
    BY <2>5, Zenon DEF Rounds
  <2> QED
    BY <1>2, <2>6
<1> QED
  BY <1>3, <1>4

(* Walk is where the last of its rounds stands.                             *)
LEMMA WalkIs ==
    ASSUME TypeOK, NEW i \in Incident
    PROVE  \E f \in [0..MaxIncidents -> Incident] :
              /\ f[0] = i
              /\ \A n \in 1..MaxIncidents : f[n] = Onward(f[n - 1])
              /\ Walk(i) = f[MaxIncidents]
<1>0. MaxIncidents \in Nat
  BY BoundAssumption
<1> DEFINE f == CHOOSE f : Rounds(i, MaxIncidents, f)
<1>1. Rounds(i, MaxIncidents, f)
  BY <1>0, RoundsExist
<1>2. Walk(i) = f[MaxIncidents]
  BY Zenon DEF Walk, Rounds, Onward
<1>3. f = [n \in 0..MaxIncidents |-> IF n = 0 THEN i ELSE Onward(f[n - 1])]
  BY <1>1, Zenon DEF Rounds
<1> HIDE DEF f
<1>4. \A n \in 0..MaxIncidents : f[n] = IF n = 0 THEN i ELSE Onward(f[n - 1])
  BY <1>3, Zenon
<1>5. f[0] = i /\ \A n \in 1..MaxIncidents : f[n] = Onward(f[n - 1])
  <2>1. f[0] = i
    BY <1>0, <1>4
  <2>2. ASSUME NEW n \in 1..MaxIncidents PROVE f[n] = Onward(f[n - 1])
    <3>1. n \in 0..MaxIncidents /\ n # 0
      BY <1>0
    <3> QED
      BY <1>4, <3>1
  <2> QED
    BY <2>1, <2>2
<1>6. \A n \in 0..MaxIncidents : f[n] \in Incident
  <2> DEFINE Out == {n \in 0..MaxIncidents : f[n] \notin Incident}
  <2>1. SUFFICES ASSUME Out # {} PROVE FALSE
    OBVIOUS
  <2>2. PICK n \in Out : \A k \in Out : n <= k
    <3>1. Out \in SUBSET Nat
      OBVIOUS
    <3> QED
      BY <2>1, <3>1, LeastExists
  <2>3. n # 0
    BY <1>5, <2>2
  <2>4. f[n - 1] \in Incident /\ f[n] = Onward(f[n - 1])
    BY <1>0, <1>5, <2>2, <2>3
  <2> QED
    BY <2>2, <2>4 DEF Onward, Absorbed, TypeOK
<1>7. f \in [0..MaxIncidents -> Incident]
  BY <1>3, <1>6
<1> QED
  BY <1>2, <1>5, <1>7

(* Who was not absorbed is where the walk from it ends.                    *)
LEMMA WalkHome ==
    ASSUME TypeOK, NEW i \in Incident, i \in active \/ ~Absorbed(i)
    PROVE  Walk(i) = i
<1>0. MaxIncidents \in Nat
  BY BoundAssumption
<1>1. PICK f \in [0..MaxIncidents -> Incident] :
              /\ f[0] = i
              /\ \A n \in 1..MaxIncidents : f[n] = Onward(f[n - 1])
              /\ Walk(i) = f[MaxIncidents]
  BY WalkIs
<1> DEFINE Away == {n \in 0..MaxIncidents : f[n] # i}
<1>2. SUFFICES ASSUME Away # {} PROVE FALSE
  BY <1>0, <1>1
<1>3. PICK n \in Away : \A k \in Away : n <= k
  <2>1. Away \in SUBSET Nat
    OBVIOUS
  <2> QED
    BY <1>2, <2>1, LeastExists
<1>4. n # 0
  BY <1>1, <1>3
<1>5. f[n - 1] = i /\ f[n] = Onward(f[n - 1])
  BY <1>0, <1>1, <1>3, <1>4
<1> QED
  BY <1>3, <1>5 DEF Onward

-----------------------------------------------------------------------------
(* An incident that was absorbed is not active, and the id that a split is *)
(* about to use is nobody else's.                                          *)
SplitsFresh ==
    \A e \in Editor : tx[e].kind = "split" =>
        /\ tx[e].to \notin active /\ ~Absorbed(tx[e].to)
        /\ assembly # NoAssembly => assembly.to # tx[e].to
        /\ \A f \in Editor : tx[f] # NoCorrection => tx[f].from # tx[e].to
        /\ \A f \in Editor \ {e} : tx[f].kind = "split" => tx[f].to # tx[e].to

AbsorbedIsInactive ==
    \A i \in Incident : Absorbed(i) => i \notin active /\ i \in 1..made

(* The identity of a source record never leads to an incident that is not  *)
(* there.                                                                  *)
AliasLeads ==
    \A r \in Record : alias[r] # NoIncident => alias[r] \in active \/ Absorbed(alias[r])

(* No merge leads to nowhere, and incidents never absorbed each other in a *)
(* circle, or all of a set those within it.                                *)
ChainsLead ==
    ~raced =>
        /\ \A i \in Incident : Absorbed(i) => into[i] \in active \/ Absorbed(into[i])
        /\ \A S \in SUBSET Incident :
              S # {} /\ (\A i \in S : Absorbed(i)) => \E i \in S : into[i] \notin S

MergeInv == SplitsFresh /\ AbsorbedIsInactive /\ AliasLeads /\ ChainsLead

(* While nobody has corrected anything, everything is where assembly put   *)
(* it: with its record, or with nothing it is incompatible with.           *)
Uncorrected ==
    ended = {} =>
        /\ \A i \in Incident : ~Absorbed(i)
        /\ \A i \in active : LinksOf(i) # {}
        /\ \A e \in Editor : tx[e] # NoCorrection =>
              tx[e].moved # {} /\ tx[e].moved \subseteq LinksOf(tx[e].from)
        /\ \A r \in Record : alias[r] # NoIncident =>
              \E q \in LinksOf(alias[r]) : RecordOf[q] = r
        /\ assembly # NoAssembly =>
              \/ assembly.to = alias[RecordOf[assembly.obs]]
              \/ \A p \in LinksOf(assembly.to) : ~Incompatible(assembly.obs, p)

(* Only ids that were handed out have evidence.                            *)
LinksHandedOut ==
    \A i \in Incident : LinksOf(i) # {} => i \in 1..made

ApartInv == Uncorrected /\ LinksHandedOut /\ KeptApart


-----------------------------------------------------------------------------
(* No other step touches the id a pending split is about to use.           *)
LEMMA SplitsFreshStep ==
    ASSUME TypeOK, IdsHandedOut, CorrectionShape, MergeInv, [Next]_vars
    PROVE  SplitsFresh'
<1> USE DEF SplitsFresh, Absorbed
<1>0. made \in Nat /\ tx \in [Editor -> Correction \cup {NoCorrection}] /\ SplitsFresh
  BY BoundAssumption DEF TypeOK, MergeInv
<1>a. \A e \in Editor : tx[e].kind = "split" \/ tx[e].kind = "merge" => tx[e] # NoCorrection
  BY CorrectionKinds
<1>b. \A e \in Editor : tx[e].kind = "split" => tx[e].to \in 1..made
  BY <1>a DEF IdsHandedOut
<1>1. ASSUME NEW o \in Obs, Choose(o) PROVE SplitsFresh'
  <2>1. PICK i \in Targets(o) : assembly' = [obs |-> o, to |-> i]
    BY <1>1 DEF Choose
  <2>2. i \in active \/ i = made + 1
    BY <2>1 DEF Targets, BestMatches, NewIncident
  <2>3. \A e \in Editor : tx[e].kind = "split" => i # tx[e].to
    BY <1>0, <1>b, <2>2
  <2>4. tx' = tx /\ active' = active /\ into' = into /\ assembly'.to = i
    BY <1>1, <2>1 DEF Choose
  <2> QED
    BY <1>0, <2>3, <2>4
<1>2. CASE CommitLink
  <2>1. tx' = tx /\ into' = into /\ active' \subseteq active \cup {assembly.to}
        /\ assembly # NoAssembly /\ assembly' = NoAssembly
    BY <1>2 DEF CommitLink
  <2> QED
    BY <1>0, <2>1 DEF NoAssembly
<1>3. ASSUME NEW e \in Editor, NEW s \in Incident, NEW a \in Incident, BeginMerge(e, s, a)
      PROVE  SplitsFresh'
  <2>1. tx'[e].kind = "merge" /\ tx'[e].from = a /\ \A f \in Editor \ {e} : tx'[f] = tx[f]
    BY <1>0, <1>3 DEF BeginMerge
  <2>2. active' = active /\ into' = into /\ assembly' = assembly /\ a \in active
    BY <1>3 DEF BeginMerge
  <2> QED
    BY <1>0, <2>1, <2>2
<1>4. ASSUME NEW e \in Editor, CommitMerge(e) PROVE SplitsFresh'
  <2>1. tx' = [tx EXCEPT ![e] = NoCorrection] /\ active' = active \ {tx[e].from}
        /\ into' = [into EXCEPT ![tx[e].from] = tx[e].to] /\ assembly' = assembly
        /\ tx[e] # NoCorrection
    BY <1>4, <1>a DEF CommitMerge
  <2>2. tx'[e] = NoCorrection /\ \A f \in Editor \ {e} : tx'[f] = tx[f]
    BY <1>0, <2>1
  <2>3. \A f \in Editor : tx'[f].kind = "split" => f # e /\ tx[f].kind = "split"
    BY <2>2 DEF NoCorrection
  <2>4. \A f \in Editor : tx[f].kind = "split" => tx[f].to \in Incident /\ into'[tx[f].to] = into[tx[f].to]
    <3>1. \A f \in Editor : tx[f].kind = "split" => tx[f].to # tx[e].from /\ tx[f].to \in Incident
      BY <1>0, <1>a, <2>1, CorrectionKinds DEF Correction
    <3> QED
      BY <2>1, <3>1 DEF TypeOK
  <2> QED
    BY <1>0, <2>1, <2>2, <2>3, <2>4
<1>5. ASSUME NEW e \in Editor, NEW i \in Incident, NEW S \in SUBSET Obs, BeginSplit(e, i, S)
      PROVE  SplitsFresh'
  <2>1. /\ tx'[e].kind = "split" /\ tx'[e].from = i /\ tx'[e].to = made + 1
        /\ \A f \in Editor \ {e} : tx'[f] = tx[f]
        /\ tx'[e] # NoCorrection
    BY <1>0, <1>5 DEF BeginSplit, NoCorrection
  <2>2. active' = active /\ into' = into /\ assembly' = assembly /\ i \in active /\ made + 1 \in Incident
    BY <1>5 DEF BeginSplit
  <2>3. made + 1 \notin 1..made
    BY <1>0
  <2>4. made + 1 \notin active /\ ~Absorbed(made + 1)
        /\ (assembly # NoAssembly => assembly.to # made + 1)
        /\ \A f \in Editor : tx[f] # NoCorrection => tx[f].from # made + 1 /\ tx[f].to # made + 1
    BY <2>2, <2>3 DEF IdsHandedOut, MergeInv, AbsorbedIsInactive
  <2> QED
    BY <1>0, <1>a, <2>1, <2>2, <2>4
<1>6. ASSUME NEW e \in Editor, CommitSplit(e) PROVE SplitsFresh'
  <2>1. tx' = [tx EXCEPT ![e] = NoCorrection] /\ active' = active \cup {tx[e].to}
        /\ into' = into /\ assembly' = assembly /\ tx[e].kind = "split"
    BY <1>6 DEF CommitSplit
  <2>2. tx'[e] = NoCorrection /\ \A f \in Editor \ {e} : tx'[f] = tx[f]
    BY <1>0, <2>1
  <2>3. \A f \in Editor : tx'[f].kind = "split" => f # e /\ tx[f].kind = "split"
    BY <2>2 DEF NoCorrection
  <2>4. \A f \in Editor \ {e} : tx[f].kind = "split" => tx[f].to # tx[e].to
    BY <1>0, <2>1
  <2> QED
    BY <1>0, <2>1, <2>2, <2>3, <2>4
<1>7. ASSUME NEW e \in Editor, Refuse(e) PROVE SplitsFresh'
  <2>1. tx' = [tx EXCEPT ![e] = NoCorrection] /\ UNCHANGED <<active, into, assembly>>
    BY <1>7 DEF Refuse
  <2>2. tx'[e] = NoCorrection /\ \A f \in Editor \ {e} : tx'[f] = tx[f]
    BY <1>0, <2>1
  <2> QED
    BY <1>0, <2>1, <2>2 DEF NoCorrection
<1>8. CASE UNCHANGED vars
  BY <1>0, <1>8 DEF vars
<1> QED
  BY <1>1, <1>2, <1>3, <1>4, <1>5, <1>6, <1>7, <1>8 DEF Next, Assemble

(* A merge hangs one chain on an active incident that is not in it.        *)
LEMMA ChainStep ==
    ASSUME TypeOK, IdsHandedOut, CorrectionShape, MergeInv, [Next]_vars
    PROVE  AbsorbedIsInactive' /\ AliasLeads' /\ ChainsLead'
<1> DEFINE Goal == AbsorbedIsInactive' /\ AliasLeads' /\ ChainsLead'
<1>0. AbsorbedIsInactive /\ AliasLeads /\ ChainsLead /\ SplitsFresh
  BY DEF MergeInv
<1>1. CASE CommitLink
  <2>1. assembly.to \in 1..made /\ assembly.obs \in Obs /\ assembly.to \in Incident
    BY <1>1 DEF CommitLink, IdsHandedOut, TypeOK
  <2>2. /\ into' = into /\ made' = made /\ (raced' <=> (raced \/ Absorbed(assembly.to)))
        /\ active' = IF Absorbed(assembly.to) THEN active ELSE active \cup {assembly.to}
        /\ alias' = [alias EXCEPT ![RecordOf[assembly.obs]] =
                         IF @ = NoIncident THEN assembly.to ELSE @]
    BY <1>1 DEF CommitLink
  <2>3. \A i \in Incident : Absorbed(i)' <=> Absorbed(i)
    BY <2>2 DEF Absorbed
  <2>4. AbsorbedIsInactive'
    BY <1>0, <2>2, <2>3 DEF AbsorbedIsInactive
  <2>5. AliasLeads'
    <3>1. \A r \in Record : alias'[r] = alias[r] \/ alias'[r] = assembly.to
      BY <2>2, RecordAssumption DEF TypeOK
    <3>2. \A r \in Record : alias[r] \in Incident \cup {NoIncident}
      BY DEF TypeOK
    <3> QED
      BY <1>0, <2>1, <2>2, <2>3, <3>1, <3>2 DEF AliasLeads
  <2>6. ChainsLead'
    BY <1>0, <2>2, <2>3 DEF ChainsLead, Absorbed, TypeOK
  <2> QED
    BY <2>4, <2>5, <2>6
<1>2. ASSUME NEW e \in Editor, CommitMerge(e) PROVE Goal
  <2>1. tx[e] \in Correction /\ tx[e] # NoCorrection /\ tx[e].kind = "merge"
    BY <1>2, CorrectionKinds DEF CommitMerge
  <2>a. PICK a \in Incident, s \in Incident : a = tx[e].from /\ s = tx[e].to
    BY <2>1 DEF Correction
  <2>2. a # s /\ a \in 1..made
    BY <2>1, <2>a DEF CorrectionShape, IdsHandedOut
  <2>3. /\ active' = active \ {a} /\ into' = [into EXCEPT ![a] = s]
        /\ made' = made /\ alias' = alias /\ raced' = (raced \/ Stale(tx[e]))
    BY <1>2, <2>a DEF CommitMerge
  <2>4. into'[a] = s /\ \A i \in Incident \ {a} : into'[i] = into[i]
    BY <2>2, <2>3 DEF TypeOK
  <2>5. s # NoIncident
    BY <2>2, BoundAssumption DEF Incident, NoIncident
  <2>6. Absorbed(a)' /\ \A i \in Incident \ {a} : Absorbed(i)' <=> Absorbed(i)
    BY <2>2, <2>4, <2>5 DEF Absorbed
  <2>7. AbsorbedIsInactive'
    BY <1>0, <2>2, <2>3, <2>6 DEF AbsorbedIsInactive
  <2>8. AliasLeads'
    <3>1. \A r \in Record : alias[r] \in Incident \cup {NoIncident}
      BY DEF TypeOK
    <3> QED
      BY <1>0, <2>3, <2>6, <3>1 DEF AliasLeads
  <2>9. ChainsLead'
    <3>1. SUFFICES ASSUME ~raced'
                   PROVE  /\ \A i \in Incident : Absorbed(i)' => into'[i] \in active' \/ Absorbed(into[i])'
                          /\ \A S \in SUBSET Incident :
                                S # {} /\ (\A i \in S : Absorbed(i)') => \E i \in S : into'[i] \notin S
      BY DEF ChainsLead, Absorbed
    <3>2. ~raced /\ s \in active
      BY <2>1, <2>3, <2>a, <3>1 DEF Stale
    <3>3. \A i \in Incident : Absorbed(i)' => into'[i] \in active' \/ Absorbed(into[i])'
      <4>1. ASSUME NEW i \in Incident, Absorbed(i)', i # a
            PROVE  into'[i] \in active' \/ Absorbed(into[i])'
        <5>1. Absorbed(i) /\ into'[i] = into[i] /\ into[i] \in Incident
          BY <2>4, <2>6, <4>1 DEF Absorbed, TypeOK
        <5>2. into[i] \in active \/ Absorbed(into[i])
          BY <1>0, <3>2, <5>1 DEF ChainsLead
        <5>3. PICK j \in Incident : into[i] = j /\ into'[i] = j
          BY <5>1
        <5>4. CASE j = a
          BY <2>4, <2>5, <5>3, <5>4 DEF Absorbed
        <5>5. CASE j # a
          BY <2>3, <2>4, <5>2, <5>3, <5>5 DEF Absorbed
        <5> QED
          BY <5>4, <5>5
      <4> QED
        BY <2>2, <2>3, <2>4, <3>2, <4>1
    <3>4. ASSUME NEW S \in SUBSET Incident, S # {}, \A i \in S : Absorbed(i)'
          PROVE  \E i \in S : into'[i] \notin S
      <4>1. CASE a \in S
        <5>1. ~Absorbed(s)'
          BY <1>0, <2>2, <2>6, <3>2 DEF AbsorbedIsInactive
        <5> QED
          BY <2>4, <3>4, <4>1, <5>1
      <4>2. CASE a \notin S
        <5>1. \A i \in S : Absorbed(i) /\ into'[i] = into[i]
          BY <2>4, <2>6, <3>4, <4>2
        <5> QED
          BY <1>0, <3>2, <3>4, <5>1 DEF ChainsLead
      <4> QED
        BY <4>1, <4>2
    <3> QED
      BY <3>3, <3>4
  <2> QED
    BY <2>7, <2>8, <2>9
<1>3. ASSUME NEW e \in Editor, CommitSplit(e) PROVE Goal
  <2>1. tx[e] \in Correction /\ tx[e].kind = "split"
    BY <1>3, CorrectionKinds DEF CommitSplit
  <2>2. tx[e].to \in Incident /\ ~Absorbed(tx[e].to)
    BY <1>0, <2>1 DEF Correction, SplitsFresh
  <2>3. /\ active' = active \cup {tx[e].to} /\ into' = into /\ made' = made /\ alias' = alias
        /\ (~raced' => ~raced)
    BY <1>3 DEF CommitSplit
  <2>4. AbsorbedIsInactive' /\ AliasLeads'
    BY <1>0, <2>2, <2>3 DEF AbsorbedIsInactive, AliasLeads, Absorbed
  <2>5. ChainsLead'
    BY <1>0, <2>3 DEF ChainsLead, Absorbed
  <2> QED
    BY <2>4, <2>5
<1>4. CASE /\ UNCHANGED <<active, into, alias, raced>>
           /\ made' \in Nat /\ made <= made'
  <2>1. made \in Nat
    BY BoundAssumption DEF TypeOK
  <2>2. AbsorbedIsInactive'
    BY <1>0, <1>4, <2>1 DEF AbsorbedIsInactive, Absorbed, Incident
  <2> QED
    BY <1>0, <1>4, <2>2 DEF AliasLeads, ChainsLead, Absorbed
<1>5. \/ CommitLink
      \/ \E e \in Editor : CommitMerge(e) \/ CommitSplit(e)
      \/ UNCHANGED <<active, into, alias, raced>> /\ made' \in Nat /\ made <= made'
  <2>0. made \in Nat
    BY BoundAssumption DEF TypeOK
  <2>1. ASSUME NEW o \in Obs, Choose(o)
        PROVE  UNCHANGED <<active, into, alias, raced>> /\ made' \in Nat /\ made <= made'
    <3>1. PICK i \in Targets(o) : made' = IF i > made THEN i ELSE made
      BY <2>1 DEF Choose
    <3>2. i \in Nat
      BY TargetsAreIncidents, BoundAssumption DEF Incident
    <3> QED
      BY <2>0, <2>1, <3>1, <3>2 DEF Choose
  <2> QED
    BY <2>0, <2>1 DEF Next, Assemble, vars, BeginMerge, BeginSplit, Refuse
<1> QED
  BY <1>1, <1>2, <1>3, <1>4, <1>5

-----------------------------------------------------------------------------
(* A walk that did not end would pass more incidents than there are.       *)
LEMMA WalkEnds ==
    ASSUME TypeOK, AbsorbedIsInactive, ChainsLead, ~raced, NEW i \in Incident, Absorbed(i)
    PROVE  Walk(i) \in active
<1>0. MaxIncidents \in Nat
  BY BoundAssumption
<1>1. PICK f \in [0..MaxIncidents -> Incident] :
              /\ f[0] = i
              /\ \A n \in 1..MaxIncidents : f[n] = Onward(f[n - 1])
              /\ Walk(i) = f[MaxIncidents]
  BY WalkIs
<1>2. SUFFICES ASSUME f[MaxIncidents] \notin active PROVE FALSE
  BY <1>1
<1>3. \A n \in 0..(MaxIncidents - 1) : f[n + 1] = Onward(f[n])
  <2>1. ASSUME NEW n \in 0..(MaxIncidents - 1) PROVE f[n + 1] = Onward(f[n])
    <3>1. n + 1 \in 1..MaxIncidents /\ (n + 1) - 1 = n
      BY <1>0
    <3> QED
      BY <1>1, <3>1
  <2> QED
    BY <2>1
<1>4. \A n \in 0..MaxIncidents : f[n] \in active \/ Absorbed(f[n])
  <2> DEFINE Lost == {n \in 0..MaxIncidents : ~(f[n] \in active \/ Absorbed(f[n]))}
  <2>1. SUFFICES ASSUME Lost # {} PROVE FALSE
    OBVIOUS
  <2>2. PICK n \in Lost : \A k \in Lost : n <= k
    <3>1. Lost \in SUBSET Nat
      OBVIOUS
    <3> QED
      BY <2>1, <3>1, LeastExists
  <2>3. n # 0
    BY <1>1, <2>2
  <2>4. n - 1 \in 0..MaxIncidents /\ f[n] = Onward(f[n - 1])
    BY <1>0, <1>1, <2>2, <2>3
  <2>5. f[n - 1] \in active \/ Absorbed(f[n - 1])
    BY <1>0, <2>2, <2>3, <2>4
  <2> QED
    BY <2>2, <2>4, <2>5 DEF Onward, ChainsLead
<1>5. \A n \in 0..MaxIncidents : f[n] \notin active
  <2> DEFINE Back == {m \in 0..MaxIncidents : f[MaxIncidents - m] \in active}
  <2>1. Back = {}
    <3>1. SUFFICES ASSUME Back # {} PROVE FALSE
      OBVIOUS
    <3>2. PICK m \in Back : \A k \in Back : m <= k
      <4>1. Back \in SUBSET Nat
        OBVIOUS
      <4> QED
        BY <3>1, <4>1, LeastExists
    <3>3. m # 0
      BY <1>0, <1>2, <3>2
    <3>4. /\ MaxIncidents - m \in 0..(MaxIncidents - 1)
          /\ (MaxIncidents - m) + 1 = MaxIncidents - (m - 1)
          /\ m - 1 \in 0..MaxIncidents
      BY <1>0, <3>2, <3>3
    <3>5. f[MaxIncidents - (m - 1)] \in active
      BY <1>3, <3>2, <3>4 DEF Onward
    <3> QED
      BY <3>2, <3>4, <3>5
  <2>2. ASSUME NEW n \in 0..MaxIncidents, f[n] \in active PROVE FALSE
    <3>1. MaxIncidents - n \in 0..MaxIncidents /\ MaxIncidents - (MaxIncidents - n) = n
      BY <1>0
    <3> QED
      BY <2>1, <2>2, <3>1
  <2> QED
    BY <2>2
<1>6. \A n \in 0..MaxIncidents : Absorbed(f[n])
  BY <1>4, <1>5
<1>7. \A n \in 0..(MaxIncidents - 1) : f[n + 1] = into[f[n]]
  <2>1. \A n \in 0..(MaxIncidents - 1) : n \in 0..MaxIncidents
    BY <1>0
  <2> QED
    BY <1>3, <1>5, <1>6, <2>1 DEF Onward
<1>8. ASSUME NEW k \in 0..MaxIncidents, NEW n \in 0..MaxIncidents, k < n, f[k] = f[n]
      PROVE  FALSE
  <2> DEFINE S == {f[m] : m \in k..(n - 1)}
  <2>1. k..(n - 1) \subseteq 0..(MaxIncidents - 1) /\ k \in k..(n - 1)
    BY <1>0, <1>8
  <2>2. S \in SUBSET Incident /\ S # {} /\ \A j \in S : Absorbed(j)
    <3>1. \A m \in k..(n - 1) : m \in 0..MaxIncidents
      BY <1>0, <1>8
    <3> QED
      BY <1>6, <2>1, <3>1
  <2>3. PICK m \in k..(n - 1) : into[f[m]] \notin S
    BY <2>2, Zenon DEF ChainsLead
  <2>4. f[m + 1] = into[f[m]]
    BY <1>7, <2>1
  <2>5. CASE m + 1 = n
    BY <1>8, <2>1, <2>3, <2>4, <2>5
  <2>6. CASE m + 1 # n
    <3>1. m + 1 \in k..(n - 1)
      BY <2>6
    <3> QED
      BY <2>3, <2>4, <3>1
  <2> QED
    BY <2>5, <2>6
<1>9. \E k, n \in 0..MaxIncidents : k # n /\ f[k] = f[n]
  <2>1. /\ IsFiniteSet(0..MaxIncidents) /\ IsFiniteSet(Incident)
        /\ Cardinality(0..MaxIncidents) = MaxIncidents + 1
        /\ Cardinality(Incident) = MaxIncidents
    BY <1>0, FS_Interval DEF Incident
  <2>2. Cardinality(Incident) < Cardinality(0..MaxIncidents)
    BY <1>0, <2>1
  <2> QED
    BY <2>1, <2>2, FS_PigeonHole, Zenon
<1> QED
  <2>1. PICK k \in 0..MaxIncidents, n \in 0..MaxIncidents : k # n /\ f[k] = f[n]
    BY <1>9
  <2>2. k < n \/ n < k
    BY <2>1
  <2> QED
    BY <1>8, <2>1, <2>2

-----------------------------------------------------------------------------
(* Evidence goes to incidents that have their id.                          *)
LEMMA LinksHandedOutStep ==
    ASSUME TypeOK, IdsHandedOut, LinksHandedOut, [Next]_vars
    PROVE  LinksHandedOut'
<1> DEFINE Has(rows, i) == \E o \in Obs : <<o, i>> \in rows
<1>1. SUFFICES \A i \in Incident : Has(links', i) => i \in 1..made'
  BY DEF LinksHandedOut, LinksOf
<1>2. \A i \in Incident : Has(links, i) => i \in 1..made
  BY DEF LinksHandedOut, LinksOf
<1>0. made \in Nat
  BY BoundAssumption DEF TypeOK
<1>3. CASE CommitLink
  <2>1. links' = links \cup {<<assembly.obs, assembly.to>>} /\ made' = made
    BY <1>3 DEF CommitLink
  <2>2. assembly.to \in 1..made
    BY <1>3 DEF CommitLink, IdsHandedOut
  <2> QED
    BY <1>2, <2>1, <2>2
<1>4. ASSUME NEW e \in Editor, CommitMerge(e) \/ CommitSplit(e)
      PROVE  \A i \in Incident : Has(links', i) => i \in 1..made'
  <2>1. tx[e] \in Correction /\ tx[e] # NoCorrection /\ MoveLinks(tx[e]) /\ made' = made
    BY <1>4, CorrectionKinds DEF CommitMerge, CommitSplit
  <2>2. tx[e].to \in 1..made
    BY <2>1 DEF IdsHandedOut
  <2>3. \A o \in Obs, i \in Incident : <<o, i>> \in links' => <<o, i>> \in links \/ i = tx[e].to
    BY <2>1, MovedLinks
  <2> QED
    BY <1>2, <2>1, <2>2, <2>3
<1>5. CASE links' = links /\ made' \in Nat /\ made <= made'
  BY <1>0, <1>2, <1>5 DEF Incident
<1>6. \/ CommitLink
      \/ \E e \in Editor : CommitMerge(e) \/ CommitSplit(e)
      \/ links' = links /\ made' \in Nat /\ made <= made'
  <2>1. ASSUME NEW o \in Obs, Choose(o) PROVE links' = links /\ made' \in Nat /\ made <= made'
    <3>1. PICK i \in Targets(o) : made' = IF i > made THEN i ELSE made
      BY <2>1 DEF Choose
    <3>2. i \in Nat
      BY TargetsAreIncidents, BoundAssumption DEF Incident
    <3> QED
      BY <1>0, <2>1, <3>1, <3>2 DEF Choose
  <2> QED
    BY <1>0, <2>1 DEF Next, Assemble, vars, BeginMerge, BeginSplit, Refuse
<1> QED
  BY <1>3, <1>4, <1>5, <1>6

(* An incident that is chosen by its evidence has nothing that is          *)
(* incompatible with the observation.                                      *)
LEMMA ChosenIsCompatible ==
    ASSUME TypeOK, IdsHandedOut, LinksHandedOut, NEW o \in Obs,
           NEW i \in BestMatches(o) \cup NewIncident(o), NEW p \in LinksOf(i)
    PROVE  ~Incompatible(o, p)
<1>0. made \in Nat /\ p \in Obs
  BY BoundAssumption DEF TypeOK, LinksOf
<1>1. CASE i \in BestMatches(o)
  <2>1. MatchScores(o, LinksOf(i)) # {}
    BY <1>1 DEF BestMatches
  <2>2. ClusterIsConsistent(o, LinksOf(i))
    BY <2>1 DEF MatchScores, Guarded
  <2>3. MinutesApart(o, p) <= MAX_CLUSTER_SPAN_HOURS * 60
    BY <2>2 DEF ClusterIsConsistent
  <2>4. MinutesApart(o, p) \in Int
    BY <1>0, FactsAssumption DEF MinutesApart
  <2>5. ~(MinutesApart(o, p) > MAX_CLUSTER_SPAN_HOURS * 60)
    BY <2>3, <2>4 DEF MAX_CLUSTER_SPAN_HOURS
  <2>6. ~(Alike[o, p] < 35 /\ MinutesApart(o, p) <= 42) /\ ~IdentifierConflict(o, p)
    BY <2>2, Zenon DEF ClusterIsConsistent
  <2> QED
    BY <2>5, <2>6, Zenon DEF Incompatible
<1>2. CASE i \in NewIncident(o)
  <2>1. i = made + 1 /\ i \in Incident
    BY <1>2 DEF NewIncident
  <2> QED
    BY <1>0, <2>1 DEF LinksHandedOut
<1> QED
  BY <1>1, <1>2

(* While nothing is ended every walk stays where it is, and assembly adds  *)
(* an observation where its record is or where nothing is incompatible.    *)
LEMMA UncorrectedStep ==
    ASSUME TypeOK, IdsHandedOut, AssemblyUnlinked, LinksHandedOut, Uncorrected,
           KeptApart, [Next]_vars, ended' = {}
    PROVE  /\ ended = {}
           /\ Uncorrected'
           /\ KeptApart'
<1> DEFINE Goal == ended = {} /\ Uncorrected' /\ KeptApart'
           On(i) == {o \in Obs : <<o, i>> \in links'}
<1>0. /\ tx \in [Editor -> Correction \cup {NoCorrection}]
      /\ alias \in [Record -> Incident \cup {NoIncident}]
      /\ active \subseteq Incident
  BY DEF TypeOK
<1>1. ended = {} => /\ \A i \in Incident : ~Absorbed(i)
                    /\ \A i \in active : LinksOf(i) # {}
                    /\ \A e \in Editor : tx[e] # NoCorrection =>
                          tx[e].moved # {} /\ tx[e].moved \subseteq LinksOf(tx[e].from)
                    /\ \A r \in Record : alias[r] # NoIncident =>
                          \E q \in LinksOf(alias[r]) : RecordOf[q] = r
                    /\ assembly # NoAssembly =>
                          \/ assembly.to = alias[RecordOf[assembly.obs]]
                          \/ \A p \in LinksOf(assembly.to) : ~Incompatible(assembly.obs, p)
  BY Zenon DEF Uncorrected
<1>2. ASSUME NEW o \in Obs, Choose(o) PROVE Goal
  <2>1. UNCHANGED <<active, into, links, ended, alias, tx>>
    BY <1>2 DEF Choose
  <2>2. PICK i \in Targets(o) : assembly' = [obs |-> o, to |-> i]
    BY <1>2 DEF Choose
  <2>3. \/ i = alias[RecordOf[o]]
        \/ \A p \in LinksOf(i) : ~Incompatible(o, p)
    <3>1. CASE alias[RecordOf[o]] # NoIncident
      <4>1. alias[RecordOf[o]] \in Incident
        BY <1>0, <3>1, RecordAssumption
      <4>2. Walk(alias[RecordOf[o]]) = alias[RecordOf[o]]
        BY <1>1, <2>1, <4>1, WalkHome
      <4> QED
        BY <2>2, <3>1, <4>2 DEF Targets
    <3>2. CASE alias[RecordOf[o]] = NoIncident
      <4>1. i \in BestMatches(o) \cup NewIncident(o)
        BY <2>2, <3>2 DEF Targets
      <4> QED
        BY <4>1, ChosenIsCompatible
    <3> QED
      BY <3>1, <3>2
  <2>4. assembly'.obs = o /\ assembly'.to = i
    BY <2>2
  <2>5. \A j : LinksOf(j)' = LinksOf(j)
    BY <2>1 DEF LinksOf
  <2>6. Uncorrected'
    BY <1>1, <2>1, <2>3, <2>4, <2>5 DEF Uncorrected, Absorbed
  <2>7. KeptApart'
    BY <2>1, <2>5 DEF KeptApart
  <2> QED
    BY <2>1, <2>6, <2>7
<1>3. CASE CommitLink
  <2>1. PICK o \in Obs, i \in Incident : assembly = [obs |-> o, to |-> i]
    BY <1>3 DEF CommitLink, TypeOK
  <2>2. /\ UNCHANGED <<into, ended, tx>> /\ assembly' = NoAssembly /\ ended = {}
        /\ links' = links \cup {<<o, i>>}
        /\ active' = IF Absorbed(i) THEN active ELSE active \cup {i}
        /\ alias' = [alias EXCEPT ![RecordOf[o]] = IF @ = NoIncident THEN i ELSE @]
    BY <1>3, <2>1 DEF CommitLink
  <2>3. o \notin LinksOf(i)
    BY <1>3, <2>1 DEF CommitLink, AssemblyUnlinked, Linked, LinksOf
  <2>4. On(i) = LinksOf(i) \cup {o} /\ \A j \in Incident \ {i} : On(j) = LinksOf(j)
    BY <2>2 DEF LinksOf
  <2>5. RecordOf[o] \in Record
    BY RecordAssumption
  <2>6. alias'[RecordOf[o]] = IF alias[RecordOf[o]] = NoIncident THEN i ELSE alias[RecordOf[o]]
    BY <1>0, <2>2, <2>5
  <2>7. \A r \in Record \ {RecordOf[o]} : alias'[r] = alias[r]
    BY <1>0, <2>2
  <2>8. \A j \in Incident : LinksOf(j) \subseteq On(j)
    BY <2>4
  <2>9. /\ \A j \in Incident : ~Absorbed(j)'
        /\ \A j \in active' : On(j) # {}
        /\ \A e \in Editor : tx'[e] # NoCorrection =>
              tx'[e].moved # {} /\ tx'[e].moved \subseteq On(tx'[e].from)
    <3>1. \A j \in active' : On(j) # {}
      BY <1>0, <1>1, <2>2, <2>4, <2>8
    <3>2. \A e \in Editor : tx[e] # NoCorrection => tx[e].from \in Incident
      BY CorrectionKinds DEF Correction
    <3> QED
      BY <1>1, <2>2, <2>8, <3>1, <3>2 DEF Absorbed
  <2>10. ASSUME NEW r \in Record, alias'[r] # NoIncident
         PROVE  \E q \in On(alias'[r]) : RecordOf[q] = r
    <3>1. CASE alias[r] # NoIncident
      <4>1. alias'[r] = alias[r] /\ alias[r] \in Incident
        BY <1>0, <2>6, <2>7, <3>1
      <4> QED
        BY <1>1, <2>2, <2>8, <3>1, <4>1
    <3>2. CASE alias[r] = NoIncident
      <4>1. r = RecordOf[o] /\ alias'[r] = i
        BY <2>6, <2>7, <2>10, <3>2
      <4> QED
        BY <2>4, <4>1
    <3> QED
      BY <3>1, <3>2
  <2>11. \A j : LinksOf(j)' = On(j)
    BY DEF LinksOf
  <2>12. Uncorrected'
    BY <2>2, <2>9, <2>10, <2>11 DEF Uncorrected
  <2>13. \A j \in Incident : \A x, y \in LinksOf(j) :
           x # y /\ Incompatible(x, y) /\ Incompatible(y, x)
               => \E r \in {x, y} : \E q \in LinksOf(j) \ {r} : RecordOf[q] = RecordOf[r]
    BY <2>2, Zenon DEF KeptApart
  <2>14. \A p \in LinksOf(i) : Incompatible(o, p) =>
            \E q \in On(i) \ {o} : RecordOf[q] = RecordOf[o]
    <3>1. CASE i = alias[RecordOf[o]]
      <4>1. alias[RecordOf[o]] # NoIncident
        BY <3>1, BoundAssumption DEF Incident, NoIncident
      <4>2. PICK q \in LinksOf(i) : RecordOf[q] = RecordOf[o]
        BY <1>1, <2>2, <2>5, <3>1, <4>1
      <4> QED
        BY <2>3, <2>4, <4>2
    <3>2. CASE \A p \in LinksOf(i) : ~Incompatible(o, p)
      BY <3>2
    <3>3. assembly # NoAssembly /\ assembly.to = i /\ assembly.obs = o
      BY <1>3, <2>1 DEF CommitLink
    <3> QED
      BY <1>1, <2>2, <3>1, <3>2, <3>3
  <2>15. ASSUME NEW j \in Incident, NEW x \in On(j), NEW y \in On(j),
                x # y, Incompatible(x, y), Incompatible(y, x)
         PROVE  \E r \in {x, y} : \E q \in On(j) \ {r} : RecordOf[q] = RecordOf[r]
    <3>1. CASE x \in LinksOf(j) /\ y \in LinksOf(j)
      BY <2>8, <2>13, <2>15, <3>1
    <3>2. CASE j = i /\ x = o
      BY <2>4, <2>14, <2>15, <3>2
    <3>3. CASE j = i /\ y = o
      BY <2>4, <2>14, <2>15, <3>3
    <3> QED
      BY <2>4, <3>1, <3>2, <3>3
  <2>16. KeptApart'
    <3>1. SUFFICES ASSUME NEW j \in Incident, NEW x \in LinksOf(j)', NEW y \in LinksOf(j)',
                          x # y, Incompatible(x, y), Incompatible(y, x)
                   PROVE  \E r \in {x, y} : \E q \in LinksOf(j)' \ {r} : RecordOf[q] = RecordOf[r]
      BY DEF KeptApart
    <3>2. LinksOf(j)' = On(j)
      BY <2>11
    <3> HIDE DEF On
    <3> QED
      BY <2>15, <3>1, <3>2
  <2> QED
    BY <2>2, <2>12, <2>16
<1>4. ASSUME NEW e \in Editor, CommitMerge(e) \/ CommitSplit(e) PROVE FALSE
  <2>1. tx[e] \in Correction /\ tx[e] # NoCorrection /\ ended' = ended \cup EndedBy(tx[e])
    BY <1>4, CorrectionKinds DEF CommitMerge, CommitSplit, MoveLinks
  <2>2. ended = {} /\ EndedBy(tx[e]) = {}
    BY <2>1
  <2>3. PICK o \in tx[e].moved : o \in LinksOf(tx[e].from)
    BY <1>1, <2>1, <2>2
  <2> QED
    BY <2>2, <2>3 DEF EndedBy, LinksOf
<1>5. ASSUME UNCHANGED <<active, into, links, ended, alias, assembly>>,
             \A e \in Editor : tx'[e] # tx[e] /\ tx'[e] # NoCorrection =>
                 tx'[e].moved # {} /\ tx'[e].moved \subseteq LinksOf(tx'[e].from)
      PROVE  Goal
  <2>1. \A j : LinksOf(j)' = LinksOf(j)
    BY <1>5 DEF LinksOf
  <2>2. Uncorrected'
    BY <1>1, <1>5, <2>1 DEF Uncorrected, Absorbed
  <2> QED
    BY <1>5, <2>1, <2>2 DEF KeptApart
<1>6. ASSUME NEW e \in Editor, NEW s \in Incident, NEW a \in Incident, BeginMerge(e, s, a)
      PROVE  Goal
  <2>1. UNCHANGED <<active, into, links, ended, alias, assembly>> /\ a \in active
    BY <1>6 DEF BeginMerge
  <2>2. /\ tx'[e].moved = LinksOf(a) /\ tx'[e].from = a
        /\ \A f \in Editor \ {e} : tx'[f] = tx[f]
    BY <1>0, <1>6 DEF BeginMerge
  <2>3. LinksOf(a) # {}
    BY <1>1, <2>1
  <2> QED
    BY <1>5, <2>1, <2>2, <2>3
<1>7. ASSUME NEW e \in Editor, NEW i \in Incident, NEW S \in SUBSET Obs, BeginSplit(e, i, S)
      PROVE  Goal
  <2>1. UNCHANGED <<active, into, links, ended, alias, assembly>> /\ S # {} /\ S \subseteq LinksOf(i)
    BY <1>7 DEF BeginSplit
  <2>2. /\ tx'[e].moved = S /\ tx'[e].from = i
        /\ \A f \in Editor \ {e} : tx'[f] = tx[f]
    BY <1>0, <1>7 DEF BeginSplit
  <2> QED
    BY <1>5, <2>1, <2>2
<1>8. ASSUME NEW e \in Editor, Refuse(e) PROVE Goal
  <2>1. UNCHANGED <<active, into, links, ended, alias, assembly>>
        /\ \A f \in Editor : tx'[f] = tx[f] \/ tx'[f] = NoCorrection
    BY <1>0, <1>8 DEF Refuse
  <2> QED
    BY <1>5, <2>1
<1>9. CASE UNCHANGED vars
  BY <1>5, <1>9 DEF vars
<1> QED
  BY <1>2, <1>3, <1>4, <1>6, <1>7, <1>8, <1>9 DEF Next, Assemble

-----------------------------------------------------------------------------
(* Scores are hundredths.                                                  *)
LEMMA ScoresAreBounded ==
    ASSUME NEW o \in Obs, NEW evidence \in SUBSET Obs
    PROVE  /\ \A p \in evidence : PairScore(o, p) \in 0..100
           /\ MatchScores(o, evidence) \subseteq 0..100
<1>1. \A p \in evidence : PairScore(o, p) \in 0..100
  <2>1. ASSUME NEW p \in evidence PROVE PairScore(o, p) \in 0..100
    <3>1. Rated[<<o, p>>] \in 0..100
      BY RatedAssumption
    <3>2. PairScore(o, p) = 94 \/ PairScore(o, p) = Rated[<<o, p>>]
      BY Zenon DEF PairScore
    <3> QED
      BY <3>1, <3>2
  <2> QED
    BY <2>1
<1>2. References(o, evidence) \subseteq evidence
  BY DEF References
<1>3. MatchScores(o, evidence) \subseteq 0..100
  BY <1>1, <1>2 DEF MatchScores
<1> QED
  BY <1>1, <1>3

(* Of some scores one is the greatest, however many there are.             *)
LEMMA GreatestScore ==
    ASSUME NEW S \in SUBSET (0..100), S # {}
    PROVE  \E x \in S : \A y \in S : y <= x
<1> DEFINE Below == {100 - x : x \in S}
<1>1. \A x \in S : 100 - x \in Nat
  OBVIOUS
<1>2. PICK z \in Below : \A w \in Below : z <= w
  <2>1. Below \in SUBSET Nat /\ Below # {}
    BY <1>1
  <2> HIDE DEF Below
  <2> QED
    BY <2>1, LeastExists
<1>3. PICK x \in S : z = 100 - x
  BY <1>2
<1>4. ASSUME NEW y \in S PROVE y <= x
  <2>1. 100 - x <= 100 - y
    BY <1>2, <1>3
  <2> QED
    BY <2>1
<1> QED
  BY <1>4

(* Evidence has a best pair with any observation.                          *)
LEMMA BestPairExists ==
    ASSUME NEW o \in Obs, NEW evidence \in SUBSET Obs, evidence # {}
    PROVE  References(o, evidence) # {}
<1> DEFINE S == {PairScore(o, p) : p \in evidence}
<1>1. S \in SUBSET (0..100) /\ S # {}
  BY ScoresAreBounded
<1>2. PICK x \in S : \A y \in S : y <= x
  BY <1>1, GreatestScore
<1>3. PICK p \in evidence : x = PairScore(o, p)
  BY <1>2
<1>4. \A q \in evidence : PairScore(o, q) <= PairScore(o, p)
  BY <1>2, <1>3
<1> QED
  BY <1>4 DEF References

(* An incident that has to match is matched with some score.               *)
LEMMA MustMatch ==
    ASSUME NEW o \in Obs, NEW evidence \in SUBSET Obs, ~MayNotMatch(o, evidence)
    PROVE  MatchScores(o, evidence) # {}
<1>1. PICK p \in References(o, evidence) : TRUE
  BY BestPairExists DEF MayNotMatch
<1>2. ~Guarded(o, evidence, p) /\ (Deterministic(o, p) \/ ~(PairScore(o, p) < MATCH_THRESHOLD))
  BY <1>1 DEF MayNotMatch
<1>3. PairScore(o, p) \in 0..100
  BY <1>1, ScoresAreBounded DEF References
<1>4. Deterministic(o, p) \/ PairScore(o, p) >= MATCH_THRESHOLD
  BY <1>2, <1>3 DEF MATCH_THRESHOLD
<1> QED
  BY <1>1, <1>2, <1>4 DEF MatchScores

(* What every incident may refuse gets an incident of its own, as long as  *)
(* there are ids, and anything else has a best match.                      *)
LEMMA MatchOrNew ==
    ASSUME TypeOK, NEW o \in Obs, made < MaxIncidents
    PROVE  BestMatches(o) \cup NewIncident(o) # {}
<1>0. \A i \in active : LinksOf(i) \in SUBSET Obs
  BY DEF LinksOf
<1>1. CASE \A i \in active : MayNotMatch(o, LinksOf(i))
  <2>1. made + 1 \in Incident
    BY BoundAssumption DEF TypeOK, Incident
  <2> QED
    BY <1>1, <2>1 DEF NewIncident
<1>2. CASE \E i \in active : ~MayNotMatch(o, LinksOf(i))
  <2> DEFINE S == UNION {MatchScores(o, LinksOf(i)) : i \in active}
  <2>1. PICK i \in active : ~MayNotMatch(o, LinksOf(i))
    BY <1>2
  <2>2. S # {}
    BY <1>0, <2>1, MustMatch
  <2>3. S \in SUBSET (0..100)
    BY <1>0, ScoresAreBounded
  <2>4. PICK score \in S : \A other \in S : other <= score
    BY <2>2, <2>3, GreatestScore
  <2>5. PICK j \in active : score \in MatchScores(o, LinksOf(j))
    BY <2>4
  <2>6. ASSUME NEW k \in active
        PROVE  \/ MayNotMatch(o, LinksOf(k))
               \/ \E other \in MatchScores(o, LinksOf(k)) : other <= score
    <3>1. CASE ~MayNotMatch(o, LinksOf(k))
      <4>1. PICK other \in MatchScores(o, LinksOf(k)) : TRUE
        BY <1>0, <3>1, MustMatch
      <4> QED
        BY <2>4, <4>1
    <3> QED
      BY <3>1
  <2>7. j \in BestMatches(o)
    BY <2>5, <2>6 DEF BestMatches
  <2> QED
    BY <2>7
<1> QED
  BY <1>1, <1>2

(* An alias leads to an active incident, and without one there is a match  *)
(* or a new incident.                                                      *)
LEMMA TargetExists ==
    ASSUME TypeOK, MergeInv, ~raced, made < MaxIncidents, NEW o \in Obs
    PROVE  Targets(o) # {}
<1>1. CASE alias[RecordOf[o]] # NoIncident
  <2>1. alias[RecordOf[o]] \in Incident /\ RecordOf[o] \in Record
    BY <1>1, RecordAssumption DEF TypeOK
  <2>2. alias[RecordOf[o]] \in active \/ Absorbed(alias[RecordOf[o]])
    BY <1>1, <2>1 DEF MergeInv, AliasLeads
  <2>3. Walk(alias[RecordOf[o]]) \in active
    BY <2>1, <2>2, WalkHome, WalkEnds DEF MergeInv
  <2> QED
    BY <1>1, <2>3 DEF Targets
<1>2. CASE alias[RecordOf[o]] = NoIncident
  BY <1>2, MatchOrNew DEF Targets
<1> QED
  BY <1>1, <1>2

-----------------------------------------------------------------------------
(* Aliases and merges lead somewhere in every reachable ledger.            *)
LEMMA MergeInvHolds == Spec => []MergeInv
<1>1. Init => MergeInv
  <2> SUFFICES ASSUME Init PROVE MergeInv
    OBVIOUS
  <2>1. \A i \in Incident : ~Absorbed(i)
    BY DEF Init, Absorbed
  <2>2. \A e \in Editor : tx[e] = NoCorrection
    BY DEF Init
  <2>3. SplitsFresh
    BY <2>2 DEF SplitsFresh, NoCorrection
  <2>4. AliasLeads
    BY DEF Init, AliasLeads
  <2> QED
    BY <2>1, <2>3, <2>4 DEF MergeInv, AbsorbedIsInactive, ChainsLead
<1>2. IInv /\ MergeInv /\ [Next]_vars => MergeInv'
  BY SplitsFreshStep, ChainStep DEF IInv, MergeInv
<1> QED
  BY <1>1, <1>2, InvariantHolds, PTL DEF Spec

(* As long as nobody commits on reads that are out of date, whoever        *)
(* follows the merges from an absorbed incident comes to an active one:    *)
(* no chain of merges ends in nothing, and none is a circle.               *)
THEOREM MergesLeadToActive == Spec => []MergesEnd
<1>1. IInv /\ MergeInv => MergesEnd
  BY WalkEnds DEF IInv, MergeInv, MergesEnd
<1> QED
  BY <1>1, InvariantHolds, MergeInvHolds, PTL

(* And as long as there are ids, assembly finds every observation an       *)
(* incident to be linked to, whatever corrections are under way: the step  *)
(* AllAssembled waits for can always be taken.                             *)
THEOREM AssemblyFindsAnIncident ==
    Spec => [](~raced /\ made < MaxIncidents => \A o \in Obs : Targets(o) # {})
<1>1. IInv /\ MergeInv => (~raced /\ made < MaxIncidents => \A o \in Obs : Targets(o) # {})
  BY TargetExists DEF IInv
<1> QED
  BY <1>1, InvariantHolds, MergeInvHolds, PTL

(* While nobody corrects the ledger, observations that are incompatible    *)
(* are in one incident only when the alias of a record brought them there. *)
THEOREM IncompatibleKeptApart == Spec => []KeptApart
<1>1. Init => ApartInv
  <2> SUFFICES ASSUME Init PROVE ApartInv
    OBVIOUS
  <2>1. \A i : LinksOf(i) = {}
    BY DEF Init, LinksOf
  <2>2. Uncorrected
    BY DEF Init, Uncorrected, Absorbed
  <2> QED
    BY <2>1, <2>2 DEF ApartInv, LinksHandedOut, KeptApart
<1>2. IInv /\ ApartInv /\ [Next]_vars => ApartInv'
  <2> SUFFICES ASSUME IInv, ApartInv, [Next]_vars PROVE ApartInv'
    OBVIOUS
  <2>1. LinksHandedOut'
    BY LinksHandedOutStep DEF IInv, ApartInv
  <2>2. CASE ended' = {}
    BY <2>1, <2>2, UncorrectedStep DEF IInv, ApartInv
  <2>3. CASE ended' # {}
    BY <2>1, <2>3 DEF ApartInv, Uncorrected, KeptApart
  <2> QED
    BY <2>2, <2>3
<1>3. ApartInv => KeptApart
  BY DEF ApartInv
<1> QED
  BY <1>1, <1>2, <1>3, InvariantHolds, PTL DEF Spec
=============================================================================
