SPECIFICATION Spec
CONSTANTS
    Unset = Unset
    HashSegment = 20480
    Topo <- MCTopo
    First <- MCFirst
    Edits <- MCEdits
    Asked <- MCAsked
    CircleOf <- MCCircleOf
    Encrypted = {"hubs"}
    MaxEdits = 1
    MaxRotations = 1
INVARIANTS TypeOK SharesSurvive NeverSomebodyElse RegionCovered LinksAccepted RotationRevokes
PROPERTIES SocketsDisjoint ClientsDistinct
CHECK_DEADLOCK FALSE
