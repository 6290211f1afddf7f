\* Blocks of three cells and eleven events; two lists of up to four nodes; four
\* paths, any of them registered more than once, in a table of three; trees of
\* up to eight keys. A server with both addresses, where any step may fail, and
\* up to five lines of log.
CONSTANTS
    a = a
    b = b
    c = c
    d = d
    BLOCK = 3
    Event = {1, 2, 3, 4, 5, 6, 7, 8, 9, 10, 11}
    Garbage = 0
    MaxEvents = 11
    Lists = {1, 2}
    Data = {1, 2}
    MaxNodes = 4
    NoData = 0
    Paths = {a, b, c, d}
    MaxPaths = 3
    NoPath = NoPath
    Keys = {1, 2, 3, 4, 5, 6, 7, 8}
    Configured = {"ipv4", "ipv6"}
    MaxLines = 5
SPECIFICATION MCSpec
INVARIANTS
    EmptyMeansAllRead
    LookupExact
    TreeSound
    LinesInOrder
PROPERTIES
    ImplementsEventStream
    ImplementsDeque
