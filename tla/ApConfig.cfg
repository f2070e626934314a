CONSTANTS
    m1 = m1
    m2 = m2
    z1 = z1
    u1 = u1
    u2 = u2
    NONE = NONE
    Mdevctl = {m1, m2}
    Chzdev = {z1}
    Mortal = {m1, m2}
    Mdev = {u1, u2}
    Adapter = {1, 2}
    Domain = {1, 2}
    Requests <- MCRequests
    ApInput <- MCApInput
    AqInput <- MCAqInput
    Faults = {"udev"}
    Scopes = {{"active", "persistent"}}
SPECIFICATION Spec
SYMMETRY Symmetry

INVARIANTS
    TypeOK
    ActiveDisjoint
    AutoDisjoint
    LockKept
    HostMasksFree
PROPERTIES
    ChangesChecked
CHECK_DEADLOCK FALSE
