SPECIFICATION Spec
CONSTANTS
    M = 4
    MaxHosts = 4
INVARIANTS OneResponsible ShortRoutes
CHECK_DEADLOCK FALSE
