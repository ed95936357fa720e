\* Three workers, two clients, three tasks for a queue of two places.
SPECIFICATION FairSpec
CONSTANTS
    Worker = {w1, w2, w3}
    Client = {c1, c2}
    Owner = Owner
    Task = {t1, t2, t3}
    MaxTasks = 2
    Nobody = Nobody
    NoTask = NoTask
INVARIANTS TypeOK NobodyOversleeps NobodyLeftWaiting DrainedWhenGone
PROPERTIES ImplementsTaskQueue DestructorReturns
CHECK_DEADLOCK FALSE
