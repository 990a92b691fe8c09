\* Two threads, and an artifact file that is replaced under them: always
\* there, complete or not.
SPECIFICATION FairSpec
CONSTANTS
    NoInstance = NoInstance
    t1 = t1
    t2 = t2
    Threads = {t1, t2}
    DiskStates <- Replaced
    MaxChanges = 2
INVARIANTS
    PredictsWithArtifact
    LoadsBounded
PROPERTIES
    RetryFindsArtifact
