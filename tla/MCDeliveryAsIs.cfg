\* One execution, with the artifact that the stack gives to PublishMetrics.
SPECIFICATION NotifiedSpec
CONSTANTS
    Cases <- EcsOnly
    Pushes = 1
    Executions = 1
    MetricsInput = "SastOutput"
\* The execution may have ended.
CHECK_DEADLOCK FALSE
PROPERTIES
    ApproverIsAsked
