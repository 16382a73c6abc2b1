\* Records of four incidents, one report at any time, three releases, two overlapping
\* control requests under four keys.
CONSTANTS
    Incident = {1, 2, 3, 4}
    MaxTime = 5
    History <- Histories
    Key = {k1, k2, k3, k4}
    Session = {s1, s2}
    None = None
    MaxManifests = 1
    MaxReleases = 3
SPECIFICATION Spec
SYMMETRY Symmetry
INVARIANTS
    TypeOK
    HeldOutIsLater
    OnlyRealServes
    RetiredCanReturn
CHECK_DEADLOCK FALSE
