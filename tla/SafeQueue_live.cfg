\* The pair the program has: one streaming thread, one inference thread.
\* Nobody calls exit, and nothing but the notifications wakes a sleeper;
\* setMaxSize may raise the capacity from 2 to 3 while the producer is asleep.
CONSTANTS
    Producers = {p1}
    Consumers = {c1}
    Closers = {}
    Frames = {f1, f2}
    NullFrame = NullFrame
    NoThread = NoThread
    DefaultMaxSize = 2
    MaxSizes = {3}
    SpuriousWakeups = FALSE
SPECIFICATION FairSpec
PROPERTIES ProductReturns QueueDrains
