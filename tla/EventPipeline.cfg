SPECIFICATION Spec
CONSTANTS
    MaxEvents = 3
    RingSize = 2
    MaxQueue = 2
    ShellEvents = {1, 3}
    WriteErrors = TRUE
INVARIANT AccountedFor
PROPERTIES OutputIsOrdered AcceptedIsOutput ShutdownCompletes ItemsAreProcessed
CHECK_DEADLOCK FALSE
