\* An upload during a join.
SPECIFICATION Spec
CONSTANTS
    M = 4
    Node = {a, b, c}
    NoNode = NoNode
    First = a
    Positions <- ClusterPositions
    Key = {2}
    Commands = {"add"}
    MaxCommands = 1
    Pacing = "serial"
SYMMETRY Joiners
INVARIANT IndexPlacedOffHosts
CHECK_DEADLOCK FALSE
