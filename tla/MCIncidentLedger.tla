--------------------------- MODULE MCIncidentLedger ---------------------------
(* Three observations of two source records for TLC. *)
EXTENDS IncidentLedger, TLC

CONSTANTS o1, o2, o3, ra, rb, e7, fire

MCRecordOf == (o1 :> ra) @@ (o2 :> rb) @@ (o3 :> ra)

Row(event, minute) ==
    [event |-> event, case |-> Unstated, agency |-> Unstated, minute |-> minute, family |-> fire]

\* o2 reports the event of o1 an hour later, as an event id that is used again, and that
\* of o3, the later capture of o1's record, which has no event id any more.
MCFacts == (o1 :> Row(e7, 0)) @@ (o2 :> Row(e7, 60)) @@ (o3 :> Row(Unstated, 30))
MCAlike == [pair \in Obs \X Obs |-> 100]
MCRated == [pair \in Obs \X Obs |-> 80]
=============================================================================
