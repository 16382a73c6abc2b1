\* A worker and a run of the repair command that overlap, crash and restart, two
\* pages and an upload, and an operator who processes by hand.
CONSTANTS
    Worker = {w1}
    Repairer = {rep}
    Page = {a, b}
    Upload = {u}
    Usable = {a, b, u}
    Nobody = Nobody
    Operator = Operator
    NoPage = NoPage
    MaxFaults = 1
SPECIFICATION Spec
INVARIANTS
    TypeOK
    WorkerBacklog
    AssemblyIsSerial
PROPERTIES
    CircuitSelfHeals
    KeptIsAssembled
    EveryCycleEnds
