SPECIFICATION Spec
CONSTANTS
    hubA = hubA
    hubB = hubB
    exit = exit
    c1 = c1
    Procs = {p1}
    Node = {hubA, hubB}
    Config = {c1}
    Region <- OneHubRegion
    HubRegions <- MCHubRegions
    Rank <- MCRank
    Topo0 <- TwoHubs
    NoFile = NoFile
    Corrupt = Corrupt
    MaxCommands = 3
    MaxEdits = 2
    MaxAborts = 0
    MaxDamage = 0
    MaxIncidents = 2
INVARIANTS HubsShareKeypair
CHECK_DEADLOCK FALSE
