SPECIFICATION Spec
CONSTANTS
    hub = hub
    exit = exit
    portal = portal
    Node <- MCNode
    Portal <- MCPortal
    Topology <- MCTopology
    Procs = {p1, p2}
    NoFile = NoFile
    Corrupt = Corrupt
    Flags <- MCFlags
    Topo0 <- MCTopo0
    Keys0 <- MCKeys0
    NoConfig = NoConfig
    Torn = Torn
    MaxCommands = 2
    MaxGrants = 3
    MaxIncidents = 1
INVARIANTS TypeOK EmbeddedAreGranted TornOnlyByErrors
PROPERTIES Settles BatchIsolated
CHECK_DEADLOCK FALSE
