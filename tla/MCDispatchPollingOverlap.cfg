\* Can two workers be inside a cycle at once?
CONSTANTS
    Worker = {w1, w2}
    Repairer = {}
    Page = {a, b}
    Upload = {u}
    Usable = {a, b}
    Nobody = Nobody
    Operator = Operator
    NoPage = NoPage
    MaxFaults = 1
SPECIFICATION Spec
INVARIANT NoOverlap
