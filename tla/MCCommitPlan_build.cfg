SPECIFICATION Spec
CONSTANTS
    Names <- TwoNames
    LowStems = {}
    Depth = 3
    Trees <- SomeTrees
    Menu <- EveryChange
    MaxChanges = 3
INVARIANT DriveIsAccepted
INVARIANT BuildsTheTree
CHECK_DEADLOCK FALSE
