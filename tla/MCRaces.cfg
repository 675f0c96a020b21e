CONSTANTS
    a = a
    b = b
    c = c
    d = d
    n1 = n1
    n2 = n2
    n3 = n3
    w1 = w1
    w2 = w2
    Timer = timer
    None = None
    Tasks = {a, b}
    Nodes = {n1}
    Workers = {w1, w2}
    TaskID <- SingleTaskID
    Sampled = {}
    Sdft = {}
    SingleRequests <- AllTasks
    Ops <- RaceOps
    PassiveSlashMode = TRUE
SYMMETRY Symmetry
SPECIFICATION Spec
CHECK_DEADLOCK FALSE
INVARIANTS
    TypeOK
    CurrentTaskIsRunning
    LedgerContract
    OneTerminalEvent
PROPERTIES
    TerminalIsFinal
