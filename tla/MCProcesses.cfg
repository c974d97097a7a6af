\* Two processes in turn: the lock, the wipe, the end of each.
SPECIFICATION ProcessesSpec
CONSTANTS
    Process = {p1, p2}
    Blob = {b1, b2}
    Nobody = Nobody
    MaxStarts = 3
INVARIANTS
    NeededOnDisk
PROPERTIES
    StoppingEnds
    OrphansGo
CHECK_DEADLOCK FALSE
