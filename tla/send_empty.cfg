\* An application answers with an empty message.
CONSTANTS
    MsgLens = {0, 1}
    BufLens = {10}
    MaxMessages = 2
SPECIFICATION Spec
INVARIANTS
    NoAssertFails
