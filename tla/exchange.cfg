\* Two peers, a menu thread and two handler threads that draw from two ports,
\* files up to and over the largest int (3), blocks of two bytes.
SPECIFICATION FairSpec
CONSTANTS
    Me = me
    Peer = {p1, p2}
    Ui = ui
    Worker = {w1, w2}
    UiPort = 8889
    RandomPort = {10000, 10001}
    MaxCalls = 2
    Size = {0, 3, 4}
    IntWidth = 3
    MaxLength = 2
    Absent = Absent
    None = None
INVARIANTS TypeOK OwnAnswer DiskWhole FirstEnd
PROPERTIES CallsEnd
CHECK_DEADLOCK FALSE
