\* Two parcels, two addresses, two building keys, three snapshots, two overlapping requests.
CONSTANTS
    Parcel = {p, q}
    p = p
    q = q
    a = a
    b = b
    k = k
    m = m
    Address = {a, b}
    Key = {k, m}
    Payload <- Payloads
    Session = {s1, s2}
    MaxImports = 3
    None = None
SPECIFICATION Spec
SYMMETRY Symmetry
INVARIANTS
    TypeOK
    ProjectionIsLineage
    RolledBackLeavesNothing
    IndexStopsRaces
CHECK_DEADLOCK FALSE
