\* Can incidents absorb each other?
CONSTANTS
    o1 = o1
    o2 = o2
    o3 = o3
    ra = ra
    rb = rb
    e7 = e7
    fire = fire
    Identifier = {e7, fire}
    Unstated = Unstated
    Facts <- MCFacts
    Alike <- MCAlike
    Rated <- MCRated
    Obs = {o1, o2, o3}
    Record = {ra, rb}
    RecordOf <- MCRecordOf
    Editor = {e1, e2}
    MaxIncidents = 4
    None = None
SPECIFICATION Spec
INVARIANT MergesReachActive
\* The ids of MaxIncidents are used up.
CHECK_DEADLOCK FALSE
