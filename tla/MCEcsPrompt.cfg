\* Two tasks, no failures, a visibility timeout longer than a batch.
SPECIFICATION PromptSpec
CONSTANTS
    r1 = r1
    r2 = r2
    w1 = w1
    w2 = w2
    Requests = {r1, r2}
    MaxReceive = 2
    Submissions <- Mixed
    Workers = {w1, w2}
    BatchSize = 2
    MaxWorkers = 1
    MaxStops = 1
INVARIANTS
    CompletedIsNotParked
PROPERTIES
    DrainFinishes
