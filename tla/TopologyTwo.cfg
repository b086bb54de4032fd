SPECIFICATION Spec
CONSTANTS
    Natural <- MCNatural
    VlessRange = {2000, 2001}
    Documents <- MCFew
    Commands <- MCPair
    Procs = {p1, p2}
    MaxCommands = 3
    MaxErrors = 1
    MaxKills = 0
INVARIANTS TypeOK NothingDangles
SYMMETRY MCSymmetry
CHECK_DEADLOCK FALSE
