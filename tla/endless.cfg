\* A lookup between two hosts one of which a join has left with a stale finger.
SPECIFICATION FairSpec
CONSTANTS
    M = 4
    Node = {a, b, c}
    NoNode = NoNode
    First = a
    Positions = {0, 6, 9}
    Key = {8}
    Commands = {"search"}
    MaxCommands = 1
    Pacing = "quiet"
PROPERTY CommandsEnd
CHECK_DEADLOCK FALSE
