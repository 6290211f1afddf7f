\* Two slots; three clients, or two of which one is never quiet. Fair thread,
\* clients that read and do not outrun it, accept() that succeeds in the end.
CONSTANTS
    c1 = c1
    c2 = c2
    c3 = c3
    NoConn = NoConn
    Conns = {c1, c2, c3}
    Listener <- MCListener
    MaxConnections = 2
    Sends <- MCSends
SPECIFICATION MCSpec
INVARIANTS
    SlotsAgree
    EventsBracketSession
    SocketsAccounted
PROPERTIES
    HandleNeverAliases
    NothingStaysReady
    BacklogIsTaken
