--------------------------- MODULE MCAlertWorkflow ---------------------------
(* A small instance of AlertWorkflow for TLC. *)
EXTENDS AlertWorkflow, TLC

Observed(families, most, reused, modes) ==
    [families |-> families, most |-> most, parser |-> "high", reused |-> reused, modes |-> modes]

\* A fire from manual snapshots, the same with an observation that disagrees, an alarm
\* whose source identifier is reused.
Fire == Observed({"structure_fire"}, "structure_fire", FALSE, {"manual_snapshot"})
Disputed == Observed({"structure_fire", "brush_fire"}, "structure_fire", FALSE, {"manual_snapshot"})
NoFire == Observed({"alarm"}, "alarm", TRUE, {"manual_snapshot"})
\* A fire of which one observation was polled.
Polled == [Fire EXCEPT !.modes = {"manual_snapshot", "live_poll"}]
Situations == {Fire, Disputed, NoFire, Polled}
\* All of them can reach 80 points, on any match and parcel.
Strong == Situations \X Found \X Facts

\* A parcel at the very address.
House ==
    [id |-> 1, reach |-> "indexed", house |-> "agrees", name |-> "agrees", type |-> "agrees",
     prefix |-> "open", suffix |-> "open", unit |-> "open", normal |-> TRUE,
     municipality |-> "open", postal_code |-> "open", grid |-> "agrees",
     street |-> 100, near |-> 95, use |-> 100,
     is_unit |-> FALSE, units |-> 1, master |-> NoParcel,
     doubtful |-> FALSE, sourced |-> TRUE, segment |-> TRUE]
\* The same number on the other half of the street: all that is weighed agrees.
OtherEnd ==
    [House EXCEPT !.suffix = "differs", !.normal = FALSE,
                  !.prefix = "agrees", !.unit = "agrees", !.municipality = "agrees",
                  !.postal_code = "agrees"]
\* A unit at the address, and the parcel of the whole site, which has no house number.
Flat == [House EXCEPT !.master = 3]
Site == [House EXCEPT !.id = 3, !.reach = "none", !.house = "open", !.normal = FALSE, !.grid = "open"]

PoolOf(parcels) ==
    [parsed |-> "exact_address", label |-> "none", unit |-> FALSE, parcels |-> parcels]
Candidates == {PoolOf({Flat, Site}), PoolOf({OtherEnd})}

Symmetry == Permutations(Session)
=============================================================================
