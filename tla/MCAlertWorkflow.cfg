\* Four situations of the evidence, two imports with two pools of parcels, two overlapping requests,
\* three changes, reviews or overlaps in any order.
CONSTANTS
    Situation <- Situations
    Nothing = Nothing
    Session = {s1, s2}
    Pools <- Candidates
    EightyPoints <- Strong
    None = None
    MaxImports = 2
    MaxMatches = 2
    Disposition = {"Suppressed"}
    MaxScores = 2
    MaxEvents = 3
SPECIFICATION Spec
SYMMETRY Symmetry
INVARIANTS
    TypeOK
    RolledBackStaysOut
    NoticeFollowsAlert
    AlertsRestOnGates
PROPERTIES
    RefreshSettles
    EndedAlertsStay
    DispositionHolds
CHECK_DEADLOCK FALSE
