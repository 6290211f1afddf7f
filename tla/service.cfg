\* One unary and one streaming stream, up to three events; both examples.
CONSTANTS
    Unary = {1}
    Streaming = {2}
    MaxEvents = 3
SPECIFICATION FairSpec
INVARIANTS
    RepliesInOrder
    NeverSleepsOnWork
    ListsFreedOnce
PROPERTIES
    EveryRequestAnswered
