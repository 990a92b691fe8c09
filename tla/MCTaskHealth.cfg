\* Two tasks, one of which may fail to touch its heartbeat, and a message,
\* which may be received twice; the clocks of the templates, but for Retries
\* and Visibility.  ECS reacts within seconds.
SPECIFICATION FairSpec
CONSTANTS
    r1 = r1
    t1 = t1
    t2 = t2
    Requests = {r1}
    MaxReceive = 2
    Submissions = {}
    Tasks = {t1, t2}
    Unwritable = {t1}
    Wait <- MCWait
    Backoff <- MCBackoff
    MaxAge <- MCMaxAge
    Interval <- MCInterval
    Timeout <- MCTimeout
    Retries = 2
    StartPeriod <- MCStartPeriod
    Reaction = 0
    StopTimeout <- MCStopTimeout
    Visibility <- MCVisibility
INVARIANTS
    HeldAlone
PROPERTIES
    ReplacedOnlyWhenSilent
    TasksPoll
