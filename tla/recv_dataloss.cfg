\* A complete message reported as data loss.
CONSTANTS
    s1 = s1
    s2 = s2
    None = None
    Streams = {s1}
    Base = 3
    Window = 14
    Wires <- MCWires
    CopyOrders = {"up"}
    Trailers = FALSE
SPECIFICATION Spec
INVARIANTS
    DatalossMeansTruncated
