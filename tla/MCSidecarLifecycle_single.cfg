\* One call at a time.
CONSTANTS
    t1 = t1
    Tasks = {t1}
    Mishaps = {"crash", "sick", "kill", "slow", "missing", "download", "update"}
    MaxMishaps = 3
    MaxRestarts = 1
    MaxExits = 2
SPECIFICATION FairSpec
CHECK_DEADLOCK FALSE
INVARIANTS
    TypeOK
    
PROPERTIES
    SidecarReturns
