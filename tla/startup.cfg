SPECIFICATION FairSpec
CONSTANTS
    Procs = {api, worker1, worker2}
    NoProc = NoProc
    MaxFaults = 3
INVARIANTS TypeOK NoMigrationClash
PROPERTIES InstallsAtomically EveryoneServes
CHECK_DEADLOCK FALSE
