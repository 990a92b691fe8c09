\* One step back or restart, so two tasks and two trainings.
CONSTANTS
    None = None
    Tasks = {t1, t2}
    MaxRuns = 2
    MaxBacks = 1
    Grid = 2
SPECIFICATION FairSpec
\* The notebook may be finished, or stuck.
CHECK_DEADLOCK FALSE
INVARIANTS
    TypeOK
    SearchFindsLeast
    InvokesOwnTask
    TrainsOnOneScale
    GoodAnswer
    FinishedIsClean
PROPERTIES
    EndsOrIsStuck
