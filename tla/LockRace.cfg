CONSTANTS
    z1 = z1
    z2 = z2
    z3 = z3
    mdevctl = mdevctl
    NONE = NONE
    EMPTY = EMPTY
    GONE = GONE
    Proc = {z1, z2, z3}
    Pid = {z1, z2, z3}
    Owner <- OwnPid
    Mortal = {z1}
    Leftover = {}
    retries = 0
    Sessions = 1
    Faults = {}
SPECIFICATION Spec
PROPERTIES
    OnlyStaleRemoved
CHECK_DEADLOCK FALSE
