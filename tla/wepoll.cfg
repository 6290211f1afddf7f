\* Two threads, two sockets of which one may be closed, two objects in groups
\* of one: a socket can be deleted and added again while its poll is pending.
CONSTANTS
    t1 = t1
    t2 = t2
    Threads = {t1, t2}
    Sockets = {1, 2}
    MayBeClosed = {1}
    Objects = {1, 2}
    MaxGroupSize = 1
    MaxEvents = 2
    Masks = {{"in"}, {"out", "oneshot"}}
    AfdMayFail = TRUE
SPECIFICATION Spec
SYMMETRY Symmetry
INVARIANTS
    Watched
    ObjectsLive
    GroupsPacked
