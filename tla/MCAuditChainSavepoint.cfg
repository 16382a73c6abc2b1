\* A savepoint gives the file lock up in the middle of a transaction.
SPECIFICATION Spec
CONSTANTS
    Writer = {w1, w2}
    Nested = {w1}
    Nobody = Nobody
    MaxEvents = 5
INVARIANT NoDuplicateSequence
