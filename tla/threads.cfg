\* One host of eight points, three of its threads: every pair of handlers at
\* every pair of their accesses, and a third in between.
SPECIFICATION Spec
CONSTANTS
    M = 3
    Me = 2
    Others = {7}
    New = {1, 4}
    Key = {0}
    Elsewhere = {5}
    Thread = {t1, t2, t3}
    Absent = Absent
    Nameless = Nameless
    Mixed = Mixed
SYMMETRY Handlers
INVARIANTS TypeOK GhostNeedsRemoval TornFingersReach
PROPERTIES RefusesNoneOfItsOwn ClaimsNoneOfOthers
CHECK_DEADLOCK FALSE
