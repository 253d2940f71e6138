\* A client that starts, stops and deletes a channel, a queue of two frames.
CONSTANTS
    Streamer = Streamer
    Infer = Infer
    Controller = Controller
    Frames = {f1}
    NullFrame = NullFrame
    NoThread = NoThread
    QueueSize = 2
SPECIFICATION FairSpec
INVARIANTS TypeOK NothingRunsAfterDelete OnlyRestartTerminates WedgedOnlyAfterGivingUp
           StoppedUnlessGaveUp OnlyKnownDeadlocks
PROPERTIES RequestReturns FramesAreAnalysed
CHECK_DEADLOCK FALSE
