SPECIFICATION Spec
CONSTANTS
    Frames <- MCFrames
    MaxSeen = 2
INVARIANTS TypeOK  GainsFollow
