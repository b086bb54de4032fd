SPECIFICATION FairSpec
CONSTANTS
    hubA = hubA
    hubB = hubB
    exit = exit
    c1 = c1
    Procs = {p1}
    Node = {hubA, hubB, exit}
    Config = {c1, c2}
    Region <- TwoHubRegions
    HubRegions <- MCHubRegions
    Rank <- MCRank
    Topo0 <- TwoOrThreeHubs
    NoFile = NoFile
    Corrupt = Corrupt
    MaxCommands = 2
    MaxEdits = 1
    MaxAborts = 1
    MaxDamage = 1
    MaxIncidents = 2
INVARIANTS TypeOK KeysStayApart UndisturbedHubsShare
PROPERTIES RotationRestores SuccessCovers CommandsEnd
CHECK_DEADLOCK FALSE
