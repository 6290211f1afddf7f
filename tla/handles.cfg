\* Three threads, two ports one after the other or at once, two handle values.
CONSTANTS
    t1 = t1
    t2 = t2
    t3 = t3
    p1 = p1
    p2 = p2
    h1 = h1
    h2 = h2
    Threads = {t1, t2, t3}
    Ports = {p1, p2}
    Handles = {h1, h2}
    None = None
SPECIFICATION Spec
INVARIANTS
    RefsProtect
    HandleNotInTree
PROPERTIES
    CloseReturns
