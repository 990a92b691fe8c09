\* One thread that first looks before the artifact has arrived.
SPECIFICATION FairSpec
CONSTANTS
    NoInstance = NoInstance
    t1 = t1
    Threads = {t1}
    DiskStates <- Late
    MaxChanges = 0
PROPERTIES
    RetryFindsArtifact
