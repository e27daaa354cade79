SPECIFICATION Spec
CONSTANTS
    Cap = 2
    MaxOut = 3
INVARIANTS
    OutputBeforeStatus
    ResizeOnOpenHandle
PROPERTIES
    SessionEnds
CHECK_DEADLOCK FALSE
