SPECIFICATION Spec
CONSTANTS
    States <- ShortStates
    FrameSettings = {1, 4}
INVARIANT RingHolds
PROPERTY Rewinds
