---------------------------- MODULE AlertWorkflow ----------------------------
(***************************************************************************)
(* One incident from its evidence to the reviewer's alert: the lifecycle,  *)
(* the score ledger, and over them the internal alert, its in-app notice   *)
(* and the client list (workflow/service.py, api/routes/workflow.py).      *)
(*                                                                         *)
(* Generating, changing and dispatching each read the rows they need and   *)
(* write them at the commit without a lock, and only the columns they gave *)
(* another value: two steps, with what was read in the request.  What only *)
(* labels an alert is left out: acknowledged, snoozed and escalated are    *)
(* "handled", resolved and revoked are "ended".                            *)
(***************************************************************************)
EXTENDS ScoreLedger

CONSTANTS
    Disposition,    \* bound: the states operators ask for
    MaxEvents       \* bound: what happens from outside, and overlaps of requests

ASSUME EventBoundAssumption == MaxEvents \in Nat

VARIABLES
    alert,          \* the incident's internal alert and the score run it rests on
    job,            \* its in-app notification job
    client,         \* a do-not-contact client has the incident's address
    events,         \* how many of these there were
    alertRaced      \* history: a commit rested on an alert or job that had changed since it was read

workflowVars == <<alert, job, client, alertRaced>>
others == <<events, workflowVars>>
vars == <<lifecycleVars, propertyVars, scoreVars, pending, scoreRaced, events, workflowVars>>

ActiveStatus == {"open", "handled"}
TERMINAL_ALERT_STATES == {"ended", "suppressed"}
AlertStatus == ActiveStatus \cup TERMINAL_ALERT_STATES
Action == {"acknowledge", "resolve", "suppress", "unsuppress"}
JobStatus == {"none", "pending", "delivered", "suppressed"}
Alert == [status : AlertStatus \cup {"none"}, score : 0..MaxScores]

Request ==
    LifecycleRequest \cup [op : {"score", "rollback"}, read : 0..MaxScores]
        \cup [op : {"generate"}, score : 1..MaxScores, alert : Alert,
              verdict : {"eligible", "suppress", "leave"}]
        \cup [op : {"change"}, to : AlertStatus, alert : Alert, job : JobStatus]
        \cup [op : {"dispatch"}, alert : Alert]

Init ==
    /\ LifecycleInit
    /\ ScoreInit
    /\ alert = [status |-> "none", score |-> 0]
    /\ job = "none"
    /\ client = FALSE
    /\ events = 0
    /\ alertRaced = FALSE

unrelated == <<lifecycleVars, propertyVars, scoreVars, scoreRaced, client>>

----------------------------------------------------------------------------
(* Eligibility *)

\* The constant is spelled in another case than the states, and matches none of them.
BLOCKED_INCIDENT_STATES == {"closed", "false_alarm", "suppressed", "downgraded"}

\* The score rests on a clear match in the live property import.
ResolvedProperty(i) ==
    LET m == scores[i].match
    IN  m # 0 /\ matches[m].found.status = "matched" /\ matches[m].import = live

\* The reasons that begin with "suppressed" come first and take an active alert down.
Suppressing(i) ==
    \/ client
    \/ incident.state \in BLOCKED_INCIDENT_STATES
    \/ current # i \/ scores[i].status # "scored"
    \/ ~ResolvedProperty(i)
    \/ override

\* The two other reasons leave an alert that is there alone.
Verdict(i) ==
    IF Suppressing(i) THEN "suppress"
    ELSE IF scores[i].alert_eligibility /\ Authorized(evidence) THEN "eligible"
    ELSE "leave"

----------------------------------------------------------------------------
(* generate_alerts visits only current score runs *)

BeginGenerate(s) ==
    /\ current # 0
    /\ Asks(s, [op |-> "generate", score |-> current, alert |-> alert, verdict |-> Verdict(current)])
    /\ UNCHANGED <<unrelated, alert, job, alertRaced>>

CreateAlert(request) ==
    /\ request.alert.status = "none" /\ request.verdict = "eligible"
    /\ alert' = [status |-> "open", score |-> request.score]
    /\ job' = "pending"

SuppressAlert(request) ==
    /\ request.alert.status \in ActiveStatus /\ request.verdict = "suppress"
    /\ alert' = [alert EXCEPT !.status = "suppressed"]
    /\ UNCHANGED job

\* The alert moves to the current score run; it has its job since it was created.
RefreshAlert(request) ==
    /\ request.alert.status \in ActiveStatus /\ request.verdict = "eligible"
    /\ alert' = [alert EXCEPT !.score =
                    IF request.score # request.alert.score THEN request.score ELSE @]
    /\ UNCHANGED job

LeaveAlert(request) ==
    /\ \/ request.verdict = "leave"
       \/ request.verdict = "suppress" /\ request.alert.status \notin ActiveStatus
       \/ request.verdict = "eligible" /\ request.alert.status \in TERMINAL_ALERT_STATES
    /\ UNCHANGED <<alert, job>>

Inserts(request) == request.alert.status = "none" /\ request.verdict = "eligible"

CommitGenerate(s) ==
    LET request == pending[s]
    IN  /\ Answers(s, "generate")
        /\ Inserts(request) => alert.status = "none"
        /\ \/ CreateAlert(request)
           \/ SuppressAlert(request)
           \/ RefreshAlert(request)
           \/ LeaveAlert(request)
        /\ alertRaced' = (alertRaced \/ alert # request.alert)
        /\ UNCHANGED unrelated

\* Another request inserted the alert first: the unique key fails this one, whole,
\* because the alert is flushed before the savepoint that should catch the failure.
RefuseGenerate(s) ==
    /\ Answers(s, "generate")
    /\ Inserts(pending[s]) /\ alert.status # "none"
    /\ UNCHANGED <<unrelated, alert, job, alertRaced>>

----------------------------------------------------------------------------
(* change_alert *)

\* Fault: the first guard is gone.
ChangesEnded(action) ==
    CASE alert.status = "none" -> {}
      [] alert.status = "suppressed" ->
            IF action = "unsuppress" /\ Verdict(alert.score) = "eligible" THEN {"open"} ELSE {}
      [] OTHER -> CASE action = "acknowledge" -> {"handled"}
                    [] action = "resolve" -> {"ended"}
                    [] action = "suppress" -> {"suppressed"}
                    [] OTHER -> {}

\* What an action makes of an alert, {} where the code refuses it.
ChangesTo(action) ==
    CASE alert.status = "none" \/ alert.status = "ended" -> {}
      [] alert.status = "suppressed" ->
            IF action = "unsuppress" /\ Verdict(alert.score) = "eligible" THEN {"open"} ELSE {}
      [] OTHER -> CASE action = "acknowledge" -> {"handled"}
                    [] action = "resolve" -> {"ended"}
                    [] action = "suppress" -> {"suppressed"}
                    [] OTHER -> {}

BeginChange(s, action) ==
    /\ \E to \in ChangesTo(action) :
        Asks(s, [op |-> "change", to |-> to, alert |-> alert, job |-> job])
    /\ UNCHANGED <<unrelated, alert, job, alertRaced>>

\* Fault: the notice that was held back stays so.
ForgetNotice(s) ==
    LET request == pending[s]
    IN  /\ Answers(s, "change")
        /\ alert' = [alert EXCEPT !.status =
                        IF request.to # request.alert.status THEN request.to ELSE @]
        /\ alertRaced' = (alertRaced \/ <<alert, job>> # <<request.alert, request.job>>)
        /\ UNCHANGED <<unrelated, job>>

\* Opening a suppressed alert again gives back the notice it lost.
CommitChange(s) ==
    LET request == pending[s]
    IN  /\ Answers(s, "change")
        /\ alert' = [alert EXCEPT !.status =
                        IF request.to # request.alert.status THEN request.to ELSE @]
        /\ job' = IF request.to = "open" /\ request.job = "suppressed" THEN "pending" ELSE job
        /\ alertRaced' = (alertRaced \/ <<alert, job>> # <<request.alert, request.job>>)
        /\ UNCHANGED unrelated

----------------------------------------------------------------------------
(* dispatch_notifications and the client list *)

BeginDispatch(s) ==
    /\ job = "pending"
    /\ Asks(s, [op |-> "dispatch", alert |-> alert])
    /\ UNCHANGED <<unrelated, alert, job, alertRaced>>

CommitDispatch(s) ==
    /\ Answers(s, "dispatch")
    /\ job' = IF pending[s].alert.status \in TERMINAL_ALERT_STATES
              THEN "suppressed" ELSE "delivered"
    /\ alertRaced' = (alertRaced \/ <<alert, job>> # <<pending[s].alert, "pending">>)
    /\ UNCHANGED <<unrelated, alert>>

\* A record stays; a later import only adds records.
ImportClients ==
    /\ ~client
    /\ client' = TRUE
    /\ UNCHANGED <<lifecycleVars, propertyVars, scoreVars, pending, scoreRaced,
                   alert, job, alertRaced>>

----------------------------------------------------------------------------

\* Requests that change the observations or the state of the incident, as they begin ...
EvidenceChange ==
    /\ \E s \in Session :
        \/ \E e \in Linked : BeginRecompute(s, e)
        \/ \E state \in Disposition : BeginTransition(s, state)
        \/ BeginAbsorption(s)
    /\ UNCHANGED <<propertyVars, scoreVars, scoreRaced, workflowVars>>

\* ... and as they commit.
EvidenceCommit ==
    /\ \E s \in Session : CommitRecompute(s) \/ CommitTransition(s) \/ CommitAbsorption(s)
    /\ UNCHANGED <<propertyVars, scoreVars, scoreRaced, workflowVars>>

Event ==
    \/ EvidenceChange
    \/ (PropertyChange \/ Review \/ Matching) /\ UNCHANGED workflowVars
    \/ ImportClients

\* What the alert requests do.
Reviewing ==
    \E s \in Session :
        \/ BeginGenerate(s) \/ CommitGenerate(s) \/ RefuseGenerate(s)
        \/ \E action \in Action : BeginChange(s, action)
        \/ CommitChange(s)
        \/ BeginDispatch(s) \/ CommitDispatch(s)

\* A request begins while another is under way.
Overlap ==
    \E s, t \in Session :
        pending[s] = None /\ pending'[s] # None /\ pending[t] # None

Service ==
    \/ EvidenceCommit
    \/ Scoring /\ UNCHANGED workflowVars
    \/ Reviewing

\* What happens counts, and that it begins while another request is under way does too.
Counted(n) ==
    /\ events' = events + n + (IF Overlap THEN 1 ELSE 0)
    /\ events' <= MaxEvents

Next ==
    \/ Event /\ Counted(1)
    \/ Service /\ Counted(0)

Spec == Init /\ [][Next]_vars

----------------------------------------------------------------------------
(* Properties *)

\* The rows and the requests have the shape the tables and handlers give them.
TypeOK ==
    /\ LifecycleTypeOK
    /\ ScoreTypeOK
    /\ pending \in [Session -> Request \cup {None}]
    /\ alert \in Alert
    /\ job \in JobStatus
    /\ {client, alertRaced} \subseteq BOOLEAN
    /\ events \in 0..MaxEvents

RolledBack(i) == scores[i].status = "rolled_back"

\* A score run that was rolled back stays out: it is not current again, and no run that
\* is not rolled back itself builds on it, however scorings, refreshes, withdrawals
\* and rollbacks of the one current run follow each other (evaluation plan: "rollback to
\* the previous run").
RolledBackStaysOut ==
    ~scoreRaced => \A i \in 1..Len(scores) : RolledBack(i) =>
        /\ current # i
        /\ \A j \in 1..Len(scores) : scores[j].prev = i => RolledBack(j)

\* A refresh settles what it found incomplete, so that the next one skips the incident
\* (routes/opportunities.py: "unchanged incidents are skipped").  It does not where the
\* newest match is of an import that is no longer live: each refresh scores again.
RefreshSettles ==
    [][Refresh => \/ Complete'
                  \/ matches' # <<>> /\ live' # 0 /\ matches'[Len(matches')].import # live']_vars

\* The notice of an alert a reviewer still has to handle is on its way or delivered,
\* whatever suppressions, openings and dispatches came before; only a dispatch or a change
\* that overlaps another loses it.
NoticeFollowsAlert ==
    ~alertRaced /\ alert.status \in ActiveStatus => job \in {"pending", "delivered"}

\* Whatever overlaps, an alert rests on a score that passed every gate: fire evidence
\* without contradiction or negative relevance, all of it from manual snapshots, and
\* a match that stood out, of a parcel with a published segment.  That parcel is at the
\* incident's own address, unless a reviewer confirmed another candidate of that match.
AlertsRestOnGates ==
    alert.status # "none" =>
        LET score == scores[alert.score]
        IN  /\ Authorized(score.evidence)
            /\ ~Negative(score.evidence) /\ ~Conflicting(score.evidence)
            /\ score.match # 0
            /\ LET found == matches[score.match].found
               IN  /\ <<score.evidence, found, score.on>> \in EightyPoints
                   /\ found.status = "matched" /\ score.on.segment
                   /\ IF score.confirmed THEN score.on \in found.candidates ELSE score.on.exact

\* A resolved or revoked alert is never opened, suppressed or moved to another score
\* by a request that read it as it is.
EndedAlertsStay == [][alert.status = "ended" /\ ~alertRaced' => alert' = alert]_vars

\* A disposition that a request read is changed by it only as an operator may, by a merge
\* that absorbs the incident, or because observations contradict each other; a suppression
\* not even then.  So nothing brings a settled incident back but a request that began
\* before it was settled: that one overwrites the disposition without having seen it.
DispositionHolds ==
    [][incident.state \in TERMINAL_STATES /\ incident'.state # incident.state =>
        \E s \in Session :
            LET request == pending[s]
            IN  /\ request # None /\ pending'[s] = None
                /\ request.op \in {"recompute", "transition", "absorb"}
                /\ \/ request.row.state # incident.state
                   \/ /\ request.op = "transition"
                      /\ incident'.state \in ALLOWED_TRANSITIONS[incident.state]
                   \/ request.op = "absorb" /\ incident'.state = "Closed"
                   \/ /\ request.op = "recompute" /\ incident.state # "Suppressed"
                      /\ Conflicting(request.to) \/ Conflicting(evidence')]_vars
=============================================================================
