\* w1 generates alerts in a loop, w2 only writes and audits.
SPECIFICATION Spec
CONSTANTS
    Writer = {w1, w2}
    Nested = {w1}
    Nobody = Nobody
    MaxEvents = 5
INVARIANTS
    TypeOK
    ChainIntact
PROPERTY
    SessionsEnd
