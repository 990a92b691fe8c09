\* Every body next to a limit of the validation, and every shape of a path.
SPECIFICATION Spec
CONSTANTS
    NumFeatures = 1
    MaxSteps = 2
    Backends = {"lambda", "ecs-fargate"}
    Configured = {"lambda"}
    KnownIds = {"known"}
    Events <- MCEvents
INVARIANTS
    RouterTypeOK
    RevalidationStable
    AnswerTellsTrace
    PredictableInput
\* An event that was answered, and its message processed, is the end.
CHECK_DEADLOCK FALSE
