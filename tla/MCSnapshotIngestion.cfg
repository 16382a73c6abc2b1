\* Two concurrent uploads, two keys, two payloads of one acquisition mode.
CONSTANTS
    Request = {r1, r2}
    Key = {k1, k2}
    Content = {c1, c2}
    Mode = {live}
    NoRequest = NoRequest
    NoJob = NoJob
    MaxAborts = 1
SPECIFICATION Spec
INVARIANTS
    TypeOK
    OneRetrievalPerSnapshot
    JobsResolve
    AnswersMatchKey
    PayloadPresent
    TombstoneMeansGone
PROPERTIES
    EveryUploadEnds
    ImplementsLedger
