\* One request of every kind, with every crash and failing call.
SPECIFICATION Spec
CONSTANTS
    r1 = r1
    Requests = {r1}
    MaxReceive = 3
    Submissions <- AllKinds
INVARIANTS
    AcceptedIsTracked
    DeletedIsAnswered
    QueuedIsUntouched
    AttemptsCounted
PROPERTIES
    OutcomeKept
    KeepsPromise
\* A message that was settled, or a request that was refused, is the end.
CHECK_DEADLOCK FALSE
