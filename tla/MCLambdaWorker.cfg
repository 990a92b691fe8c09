\* Two messages, received twice, in batches of up to two; every failure.  A
\* request that cannot be saved or published is not the worker's business.
SPECIFICATION LambdaFairSpec
CONSTANTS
    r1 = r1
    r2 = r2
    i1 = i1
    Requests = {r1, r2}
    MaxReceive = 2
    Submissions <- Neighbours
    Invocations = {i1}
    BatchSize = 2
\* The queue may have been emptied.
CHECK_DEADLOCK FALSE
INVARIANTS
    LambdaTypeOK
    ParkedIsExplained
PROPERTIES
    ImplementsService
    EndsWhereItShould
