\* The second picture overtakes itself.
CONSTANTS
    MaxPictures = 2
    MaxDropped = 0
    BranchSize = 1
    QueueSize = 1
    FrameFormat = "NV12"
SPECIFICATION Spec
INVARIANT DetectsCleanFrames
