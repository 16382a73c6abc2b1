-------------------------- MODULE IncidentLifecycle --------------------------
(***************************************************************************)
(* What one canonical incident says of itself: its state, its contradiction*)
(* count and its review signal, recomputed from its linked observations    *)
(* (incidents/service.py: recompute_incident, rescore_incident) and changed*)
(* by operators (transition_state) and by the merge that absorbs it.       *)
(*                                                                         *)
(* The linked observations are a Situation: the event families of their    *)
(* groups of unchanged captures, the family most of them have, what the    *)
(* parser's confidence amounts to when they agree, and whether a source    *)
(* identifier is reused at another time or place.  The acquisition modes   *)
(* of their snapshots are read by the scoring of ScoreLedger.              *)
(*                                                                         *)
(* No request locks the incident's row: each reads it, computes, and at    *)
(* its commit writes the columns it gave another value, whatever they hold *)
(* by then.  So every change is two steps, with what was read in between   *)
(* kept in the request.                                                    *)
(***************************************************************************)
EXTENDS Integers, FiniteSets

CONSTANTS
    Situation,      \* the sets of observations the incident goes through
    Nothing,        \* no observation: all were moved away
    Session,        \* requests that may overlap
    None            \* no pending request

Family == {"structure_fire", "brush_fire", "alarm"}
STRUCTURE_FAMILIES == {"structure_fire"}
Confidence == {"high", "likely", "low"}

ASSUME SituationAssumption ==
    /\ Nothing \notin Situation
    /\ Situation \subseteq
        [families : (SUBSET Family) \ {{}}, most : Family, parser : Confidence,
         reused : BOOLEAN, modes : SUBSET {"manual_snapshot", "synthetic_fixture", "live_poll"}]
    /\ \A e \in Situation : e.most \in e.families

VARIABLES
    evidence,       \* the observations that are linked now
    incident,       \* the row: state, contradictions, signal, is_active
    pending         \* session -> what it read and is about to do

lifecycleVars == <<evidence, incident>>

VALID_STATES ==
    {"Newly observed", "Awaiting corroboration", "Property unresolved",
     "Likely structure-related", "High-confidence structure-related",
     "Disposition pending", "Confirmed meaningful incident", "Downgraded",
     "False alarm", "Closed", "Suppressed"}
TERMINAL_STATES == {"Closed", "Suppressed", "False alarm", "Downgraded"}

Incident ==
    [state : VALID_STATES, contradictions : BOOLEAN,
     signal : {"not_issued", "active", "revoked"}, is_active : BOOLEAN]

Linked == Situation \cup {Nothing}
LifecycleRequest ==
    [op : {"recompute"}, row : Incident, from : Linked, to : Linked]
        \cup [op : {"transition"}, row : Incident, to : VALID_STATES]
        \cup [op : {"absorb"}, row : Incident, from : Linked]

Dispositions == {"Downgraded", "False alarm", "Closed", "Suppressed", "Confirmed meaningful incident"}
Reviewed ==
    Dispositions \cup {"Awaiting corroboration", "Likely structure-related",
                       "High-confidence structure-related", "Disposition pending"}

\* What an operator may make of an incident in a state.
ALLOWED_TRANSITIONS ==
    [s \in VALID_STATES |->
        CASE s = "Newly observed" ->
                {"Awaiting corroboration", "Property unresolved", "Likely structure-related",
                 "High-confidence structure-related", "Closed", "Suppressed"}
          [] s = "Awaiting corroboration" -> Reviewed \cup {"Property unresolved"}
          [] s \in {"Property unresolved", "Likely structure-related",
                    "High-confidence structure-related"} -> Reviewed \ {s}
          [] s = "Disposition pending" -> Dispositions
          [] s = "Confirmed meaningful incident" ->
                {"Awaiting corroboration", "Downgraded", "Closed", "Suppressed"}
          [] s \in {"Downgraded", "False alarm"} -> {"Closed", "Suppressed"}
          [] s = "Closed" -> {"Suppressed"}
          [] s = "Suppressed" -> {}]

----------------------------------------------------------------------------
(* The classification *)

\* The family most observations have, but a structure family before any other.
ClassifiedAs(e) ==
    IF e.families \cap STRUCTURE_FAMILIES # {} THEN "structure_fire" ELSE e.most

\* Families that disagree cap the confidence below the review threshold.
ConfidenceIn(e) == IF Cardinality(e.families) > 1 THEN "low" ELSE e.parser

\* Contradictions among the grouped observations there are now.
Contradictory(e) == Cardinality(e.families) > 1 \/ e.reused

\* Fault: a disposition is recomputed like any state.
StateAlways(state, e) ==
    IF Contradictory(e)
    THEN IF state = "Suppressed" THEN state ELSE "Awaiting corroboration"
    ELSE IF ClassifiedAs(e) \in STRUCTURE_FAMILIES /\ ConfidenceIn(e) # "low"
         THEN IF ConfidenceIn(e) = "high" THEN "High-confidence structure-related"
              ELSE "Likely structure-related"
    ELSE IF state = "Newly observed" THEN state
    ELSE "Awaiting corroboration"

StateFor(state, e) ==
    IF Contradictory(e)
    THEN IF state = "Suppressed" THEN state ELSE "Awaiting corroboration"
    ELSE IF state \in TERMINAL_STATES THEN state
    ELSE IF ClassifiedAs(e) \in STRUCTURE_FAMILIES /\ ConfidenceIn(e) # "low"
         THEN IF ConfidenceIn(e) = "high" THEN "High-confidence structure-related"
              ELSE "Likely structure-related"
    ELSE IF state = "Newly observed" THEN state
    ELSE "Awaiting corroboration"

\* Issued once, on high confidence; revoked when a contradiction meets it.
SignalFor(signal, e) ==
    LET issued == IF signal = "not_issued" /\ ClassifiedAs(e) \in STRUCTURE_FAMILIES
                       /\ ConfidenceIn(e) = "high"
                  THEN "active" ELSE signal
    IN  IF Contradictory(e) /\ issued = "active" THEN "revoked" ELSE issued

\* Without observations only the contradiction count is reset.
Recomputed(row, e) ==
    IF e = Nothing THEN [row EXCEPT !.contradictions = FALSE]
    ELSE [row EXCEPT !.state = StateFor(@, e),
                     !.contradictions = Contradictory(e),
                     !.signal = SignalFor(@, e)]

----------------------------------------------------------------------------

LifecycleInit ==
    /\ evidence \in Situation
    /\ Cardinality(evidence.families) = 1 /\ ~evidence.reused
    /\ incident = Recomputed([state |-> "Newly observed", contradictions |-> FALSE,
                              signal |-> "not_issued", is_active |-> TRUE], evidence)

Asks(s, request) == pending[s] = None /\ pending' = [pending EXCEPT ![s] = request]
Answers(s, op) ==
    /\ pending[s] # None /\ pending[s].op = op
    /\ pending' = [pending EXCEPT ![s] = None]

\* The row after an UPDATE of the columns that are not as they were read.
Column(saw, new, now) == IF new # saw THEN new ELSE now
Written(saw, new) ==
    [column \in DOMAIN new |-> Column(saw[column], new[column], incident[column])]

\* Assembly, a merge into this incident or a split changes the links of an active
\* incident; a rescore recomputes from those there are, even of one that was absorbed.
BeginRecompute(s, e) ==
    /\ e = evidence \/ incident.is_active
    /\ Asks(s, [op |-> "recompute", row |-> incident, from |-> evidence, to |-> e])
    /\ UNCHANGED lifecycleVars

\* The links it leaves: what others moved since adds to what it moved itself.
LinksAfter(request) ==
    IF request.to = request.from THEN {evidence}
    ELSE IF evidence = request.from THEN {request.to} ELSE Situation

\* The row was read first and the links somewhere in between.
CommitRecompute(s) ==
    LET request == pending[s]
    IN  /\ Answers(s, "recompute")
        /\ evidence' \in LinksAfter(request)
        /\ \E e \in {request.to, evidence'} :
            incident' = Written(request.row, Recomputed(request.row, e))

\* transition_state does not ask whether the incident is active, and looks the state
\* it read up in the table, not the one it overwrites.
BeginTransition(s, state) ==
    /\ state # incident.state
    /\ state \in ALLOWED_TRANSITIONS[incident.state]
    /\ Asks(s, [op |-> "transition", row |-> incident, to |-> state])
    /\ UNCHANGED lifecycleVars

CommitTransition(s) ==
    LET request == pending[s]
    IN  /\ Answers(s, "transition")
        /\ incident' = Written(request.row, [request.row EXCEPT !.state = request.to])
        /\ UNCHANGED evidence

\* Another incident absorbs this one: the links it saw move and it is closed.
BeginAbsorption(s) ==
    /\ incident.is_active
    /\ Asks(s, [op |-> "absorb", row |-> incident, from |-> evidence])
    /\ UNCHANGED lifecycleVars

CommitAbsorption(s) ==
    LET request == pending[s]
    IN  /\ Answers(s, "absorb")
        /\ evidence' \in IF evidence = request.from THEN {Nothing} ELSE Linked
        /\ incident' = Written(request.row,
                               [request.row EXCEPT !.is_active = FALSE, !.state = "Closed"])

LifecycleTypeOK ==
    /\ evidence \in Linked
    /\ incident \in Incident
=============================================================================
