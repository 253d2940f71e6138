\* Two producers, two consumers and a closer on a queue of two frames.
CONSTANTS
    Producers = {p1, p2}
    Consumers = {c1, c2}
    Closers = {x1}
    Frames = {f1, f2}
    NullFrame = NullFrame
    NoThread = NoThread
    DefaultMaxSize = 2
    MaxSizes = {}
    SpuriousWakeups = TRUE
SPECIFICATION Spec
INVARIANTS GuardsStillHold Capacity NoStrandedFrame NoStrandedSlot
PROPERTY ImplementsChannel
