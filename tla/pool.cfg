\* Two workers, three tasks with and without a deadline, any pthread_create may
\* fail, stop_and_join before free: safety, liveness under fair threads, and the
\* refinement of TaskPool.
CONSTANTS
    Tasks = {t1, t2, t3}
    NoTask = NoTask
    NbThreads = 2
    Timeouts = {0, 1}
    MaxTime = 2
    CreateMayFail = TRUE
    StopFirst = TRUE
SPECIFICATION FairSpec
INVARIANTS
    OnePlace
    EmptyMeansCollected
    OutcomeExact
    NoLostWakeup
    FreedClean
    BoundedReordering
PROPERTIES
    PublishedIsFrozen
    QueuedIsServed
    FreeTerminates
    ImplementsTaskPool
