SPECIFICATION Spec
CONSTANTS
    Listeners = {l1, l2, l3, l4}
SYMMETRY Symmetry
CHECK_DEADLOCK FALSE
INVARIANTS UpIsReachable
PROPERTIES RefusalIsJustified
