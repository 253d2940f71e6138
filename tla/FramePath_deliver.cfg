\* More pictures than the way to the detector has room for.
CONSTANTS
    MaxPictures = 6
    MaxDropped = 1
    BranchSize = 1
    QueueSize = 1
    FrameFormat = "NV12"
SPECIFICATION FairSpec
INVARIANTS TypeOK ResultsNotFarAhead DisplayWaitsForInference NothingLeftAtRest
PROPERTIES ResultsGoForward EveryPictureShown EveryPictureAnalysed
