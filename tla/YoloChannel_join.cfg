\* A stop whose exit falls between the test of the flag and the wait.
CONSTANTS
    Streamer = Streamer
    Infer = Infer
    Controller = Controller
    Frames = {f1}
    NullFrame = NullFrame
    NoThread = NoThread
    QueueSize = 1
SPECIFICATION FairSpec
PROPERTIES JoinReturns
CHECK_DEADLOCK FALSE
