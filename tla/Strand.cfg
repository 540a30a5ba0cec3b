SPECIFICATION FairSpec
CONSTANTS
    Threads = {t1, t2, t3}
    MaxTasks = 5
INVARIANTS
    TypeOK
    OneOwner
PROPERTIES
    RunsInOrder
    TasksRun
\* The tasks are bounded.
CHECK_DEADLOCK FALSE
