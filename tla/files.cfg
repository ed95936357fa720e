\* Joins and menu commands that take turns.
SPECIFICATION Spec
CONSTANTS
    M = 4
    Node = {a, b, c}
    NoNode = NoNode
    First = a
    Positions <- SpacedPositions
    Key = {4, 11}
    Commands = {"add", "delete", "search", "exit"}
    MaxCommands = 3
    Pacing = "quiet"
SYMMETRY Joiners
INVARIANTS IndexPlacedOffHosts OwnersServe
PROPERTIES FirstDeathOwnDoing ImplementsSharedIndex
CHECK_DEADLOCK FALSE
