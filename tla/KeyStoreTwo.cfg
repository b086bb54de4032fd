SPECIFICATION Spec
CONSTANTS
    hubA = hubA
    hubB = hubB
    exit = exit
    c1 = c1
    Procs = {p1, p2}
    Node = {hubA, hubB, exit}
    Config = {c1}
    Region <- OneHubRegion
    HubRegions <- MCHubRegions
    Rank <- MCRank
    Topo0 <- TwoHubs
    NoFile = NoFile
    Corrupt = Corrupt
    MaxCommands = 2
    MaxEdits = 1
    MaxAborts = 1
    MaxDamage = 1
    MaxIncidents = 1
PROPERTIES WritesAreWhole AuthoritySpec ExistingLeftAlone
SYMMETRY MCSymmetry
CHECK_DEADLOCK FALSE
