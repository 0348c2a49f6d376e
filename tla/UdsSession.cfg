SPECIFICATION Spec
CONSTANTS
    Transports = {"socket", "pipe"}
    Ids = {m1, m2}
    Lens = {2, 5, 6}
    Malformed = TRUE
    Limit = 5
    Budget = 2
    Rooms = {1, 5}
    QueueCap = 1
    Pipeline = 2
    Deadline = 1
    Abortable = TRUE
    Faults = TRUE
SYMMETRY Symmetry
VIEW View
CHECK_DEADLOCK FALSE
INVARIANTS DeliveredIntact FailedStaysFailed InflightIsComing NoMutualBlock
