\* One worker, one task with a deadline the clock can pass: free calls
\* ret_cleanup for a task whose function never ran.
CONSTANTS
    Tasks = {t1}
    NoTask = NoTask
    NbThreads = 1
    Timeouts = {0, 1}
    MaxTime = 2
    CreateMayFail = FALSE
    StopFirst = FALSE
SPECIFICATION Spec
INVARIANT RetCleanupOnlyAfterRun
