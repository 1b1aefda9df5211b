SPECIFICATION Spec
CONSTANTS
    Names = {1, 2}
    LowStems <- AfterStem
    Depth = 2
    Trees <- EmptyTree
    Menu <- Neighbours
    MaxChanges = 3
INVARIANT DriveIsAccepted
CHECK_DEADLOCK FALSE
