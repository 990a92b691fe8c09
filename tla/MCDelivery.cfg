\* Three executions over two images; one test case.  PublishMetrics is given
\* the bundle its script is in; with what the stack gives it, SastOutput,
\* nothing would come to the last two stages (MCDeliveryAsIs.cfg).
SPECIFICATION FairSpec
CONSTANTS
    Cases <- EcsOnly
    Pushes = 2
    Executions = 3
    MetricsInput = "SourceOutput"
\* All executions may have ended.
CHECK_DEADLOCK FALSE
INVARIANTS
    TypeOK
    NoOvertaking
    ReleaseIsTested
    SucceededIsLive
    PassIsSound
PROPERTIES
    EveryExecutionEnds
