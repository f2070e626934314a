CONSTANTS
    z1 = z1
    z2 = z2
    z3 = z3
    mdevctl = mdevctl
    NONE = NONE
    EMPTY = EMPTY
    GONE = GONE
    Proc = {z1, z2, z3}
    Pid = {z1, z2, z3, mdevctl}
    Owner <- ParentPid
    Mortal = {z1, z3}
    Leftover = {EMPTY, GONE}
    retries = 1
    Sessions = 2
    Faults = {"temp", "link", "fstat"}
SPECIFICATION CalloutSpec
PROPERTIES
    ImplementsLock
    StaleLockTaken
    
CHECK_DEADLOCK FALSE
