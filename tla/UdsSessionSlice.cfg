SPECIFICATION Spec
CONSTANTS
    Transports = {"socket", "pipe"}
    Ids = {m1, m2, m3}
    Lens = {2, 3, 5, 6}
    Malformed = FALSE
    Limit = 5
    Budget = 2
    Rooms = {5}
    QueueCap = 2
    Pipeline = 2
    Deadline = 2
    Abortable = TRUE
    Faults = FALSE
SYMMETRY Symmetry
INVARIANT TimeoutIsDeadline
CHECK_DEADLOCK FALSE
