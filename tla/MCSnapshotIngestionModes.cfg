\* The same bytes polled live and uploaded by hand: two records, one object.
CONSTANTS
    Request = {r1, r2}
    Key = {k1, k2}
    Content = {c1}
    Mode = {live, manual}
    NoRequest = NoRequest
    NoJob = NoJob
    MaxAborts = 0
SPECIFICATION Spec
INVARIANT PayloadPresent
