\* Joins and commands end.
SPECIFICATION FairSpec
CONSTANTS
    M = 4
    Node = {a, b, c}
    NoNode = NoNode
    First = a
    Positions <- ClusterPositions
    Key = {6, 9}
    Commands = {"add", "delete", "search"}
    MaxCommands = 2
    Pacing = "quiet"
PROPERTIES CommandsEnd JoinsEnd
CHECK_DEADLOCK FALSE
