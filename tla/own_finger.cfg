\* A host on the point of an entry of another.
SPECIFICATION Spec
CONSTANTS
    M = 3
    Node = {a, b, c}
    NoNode = NoNode
    First = a
    Positions <- AllPositions
    Key = {}
    Commands = {}
    MaxCommands = 0
    Pacing = "quiet"
SYMMETRY Joiners
INVARIANT StartFollowsPredecessor
CHECK_DEADLOCK FALSE
