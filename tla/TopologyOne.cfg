SPECIFICATION Spec
CONSTANTS
    Natural <- MCNatural
    VlessRange = {2000, 2001}
    Documents <- MCDocuments
    Commands <- MCCommands
    Procs = {p1}
    MaxCommands = 3
    MaxErrors = 1
    MaxKills = 1
INVARIANTS FileWhole NothingDangles LoadsOrExplained AddThenRemove
PROPERTIES OthersKept FallbackStays
CHECK_DEADLOCK FALSE
