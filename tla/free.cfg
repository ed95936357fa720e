\* Three hosts, joins, uploads, deletions and exits at any time, also joins
\* through a host that is joining; hosts die.
SPECIFICATION Spec
CONSTANTS
    M = 2
    Node = {a, b, c}
    NoNode = NoNode
    First = a
    Positions = {0, 1, 3}
    Key = {2}
    Commands = {"add", "delete", "exit"}
    MaxCommands = 2
    Pacing = "free"
SYMMETRY Joiners
INVARIANTS TypeOK FingerReach RoutedHostsReady
PROPERTY IndexKept
CHECK_DEADLOCK FALSE
