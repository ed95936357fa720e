\* A lookup during a join across zero.
SPECIFICATION Spec
CONSTANTS
    M = 4
    Node = {a, b, c}
    NoNode = NoNode
    First = a
    Positions = {2, 5, 15}
    Key = {2}
    Commands = {"search"}
    MaxCommands = 1
    Pacing = "serial"
SYMMETRY Joiners
PROPERTY LookupDuringJoin
CHECK_DEADLOCK FALSE
