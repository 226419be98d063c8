\* Two processes, two attempts, a crash and failing promotions.
SPECIFICATION CallSpec
CONSTANTS
    Procs = {p1, p2}
    Tokens = {t1, t2}
    NoProc = NoProc
    NoFile = NoFile
    First = First
    MaxRecords = 1
    MaxCrashes = 1
    FailAt = {"replace", "unmark"}
INVARIANTS StoreIsWhole OutcomeTellsWhatHappened
PROPERTIES CallsReturn
\* The attempts of a run are finitely many.
CHECK_DEADLOCK FALSE
