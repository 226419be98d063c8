CONSTANTS
    Records = {"c1", "d1", "v1", "d2"}
    TypeOf <- MCTypeOf
    ProjectOf <- MCProjectOf
    Ceiling = "internal"
    SecretTexts = {"token"}
    Projects = {"P", "Q"}
    States <- MCStates
    Granted = {{"charter", "decision", "verification"}}
    NoRecord = NoRecord
    NoNote = NoNote
    MaxChanges = 1
    MaxHuman = 1
    MaxFaults = 1
    MaxRuns = 2
SPECIFICATION Spec
INVARIANTS SettledVault 
PROPERTIES HumanBytesSurvive
\* The bounds stop the world, and then the runs.
CHECK_DEADLOCK FALSE
