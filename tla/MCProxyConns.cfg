SPECIFICATION ForwardSpec
CONSTANTS
    Kinds <- AllKinds
    MaxChunks = 2
INVARIANTS
    NoTruncation
    FinNotLost
    NoMissedHangup
PROPERTIES
    HalfClosePropagates
    ClosesWhenBothFinish
    ForwardEnds
