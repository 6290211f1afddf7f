\* Three messages of one to nine bytes, buffers of one to nineteen bytes.
CONSTANTS
    MsgLens = {1, 2, 9}
    BufLens = {1, 4, 5, 6, 7, 10, 19}
    MaxMessages = 3
SPECIFICATION Spec
INVARIANTS
    FramesInOrder
    FillsItsBuffer
PROPERTIES
    EventuallySent
