SPECIFICATION Spec
CONSTANTS
    Widths = {2, 3}
    MaxConnections = 2
    MaxDrawings = 4
    MaxPosted = 3
INVARIANT ShownIsCurrent
CHECK_DEADLOCK FALSE
