\* Two calls at a time, files and processes fail.
CONSTANTS
    t1 = t1
    t2 = t2
    Tasks = {t1, t2}
    Mishaps = {"crash", "download", "hang", "unzip", "update"}
    MaxMishaps = 2
    MaxRestarts = 1
    MaxExits = 2
SPECIFICATION FairSpec
CHECK_DEADLOCK FALSE
INVARIANTS
    InstalledBeforeRegistered
PROPERTIES
    TasksEnd
