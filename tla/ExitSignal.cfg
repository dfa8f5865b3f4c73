SPECIFICATION Spec
CONSTANTS
    MaxEvents = 2
    RingSize = 2
    MaxQueue = 2
    ShellEvents = {}
    WriteErrors = FALSE
PROPERTY SignalEndsOwlsm
CHECK_DEADLOCK FALSE
