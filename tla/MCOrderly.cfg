\* No crash and no failing call; the workers go on.
SPECIFICATION OrderlySpec
CONSTANTS
    r1 = r1
    Requests = {r1}
    MaxReceive = 3
    Submissions <- DistinctKinds
PROPERTIES
    ValidEndsTerminal
    InvalidIsNotRequeued
CHECK_DEADLOCK FALSE
