\* Times of four bits; short, long and unknown segments; enough of them to wrap.
\* What the callbacks do under a main loop, which is what they are written for.
CONSTANTS
    Width = 4
    Stops = {2, 3, 15}
    MainLoop = TRUE
    MaxSegments = 5
SPECIFICATION Spec
INVARIANTS TypeOK TimeGoesOn
CHECK_DEADLOCK FALSE
