\* Two streams; every cut of every wire; memcpy in either direction; trailers.
CONSTANTS
    s1 = s1
    s2 = s2
    None = None
    Streams = {s1, s2}
    Base = 3
    Window = 14
    Wires <- MCWires
    CopyOrders = {"up", "down"}
    Trailers = TRUE
SPECIFICATION Spec
INVARIANTS
    BufferIsSuffix
    DeliveredVerbatim
    NoCompleteMessageLeft
    FinalEventOnce
    StreamsTracked
