\* A recovery and a restart of the user overlap.
CONSTANTS
    t1 = t1
    t2 = t2
    Tasks = {t1, t2}
    Mishaps = {"crash", "missing"}
    MaxMishaps = 2
    MaxRestarts = 1
    MaxExits = 2
SPECIFICATION FairSpec
CHECK_DEADLOCK FALSE
PROPERTIES
    SidecarReturns
