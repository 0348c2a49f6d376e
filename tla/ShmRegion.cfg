SPECIFICATION Spec
CONSTANTS
    Servers = {s1, s2, s3}
    Clients = {c1, c2}
SYMMETRY Symmetry
VIEW View
CHECK_DEADLOCK FALSE
INVARIANTS ServingIsReachable MapsItsOwnRegion
PROPERTIES RefusalIsJustified
