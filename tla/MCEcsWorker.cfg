\* One task, two messages, every failure; its threads may hang.
SPECIFICATION EcsFairSpec
CONSTANTS
    r1 = r1
    r2 = r2
    w1 = w1
    Requests = {r1, r2}
    MaxReceive = 1
    Submissions <- Poisoned
    Workers = {w1}
    BatchSize = 2
    MaxWorkers = 1
    MaxStops = 1
INVARIANTS
    EcsTypeOK
PROPERTIES
    ImplementsService
    EveryMessageSettles
