\* Four hosts join one after another, wherever they lie; one searches meanwhile.
SPECIFICATION Spec
CONSTANTS
    M = 5
    Node = {a, b, c, d}
    NoNode = NoNode
    First = a
    Positions <- SpacedPositions5
    Key = {9, 30}
    Commands = {"search"}
    MaxCommands = 1
    Pacing = "serial"
SYMMETRY Joiners
INVARIANTS RingConsistent TablesExactInCluster
PROPERTY LookupAtomic
CHECK_DEADLOCK FALSE
