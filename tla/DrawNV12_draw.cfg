\* Every box in and around a picture of 9 x 6, and labels above it.
CONSTANTS
    Width = 9
    Height = 6
    ResultLists <- MCResultLists
    Thicknesses = {0, 1, 2, 4}
    CharDots <- MCDots
    CharWidth = 3
    CharHeight = 3
    SpacingWidth = 1
SPECIFICATION Spec
INVARIANTS TypeOK ChromaFollowsLuma BoxIsOutlined
CHECK_DEADLOCK FALSE
