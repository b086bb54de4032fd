SPECIFICATION Spec
CONSTANTS
    Natural <- MCNatural
    VlessRange = {2000, 2001}
    Documents <- MCFew
    Commands <- MCPair
    Procs = {p1, p2}
    MaxCommands = 2
    MaxErrors = 0
    MaxKills = 0
PROPERTIES OthersKept
CHECK_DEADLOCK FALSE
