SPECIFICATION Spec
CONSTANTS
    Unset = Unset
    HashSegment = 20480
    Topo <- MCShadowed
    First <- MCShadowedFirst
    Edits <- MCShadowedEdits
    Asked <- MCShadowedAsked
    CircleOf <- MCCircleOf
    Encrypted = {"hubs"}
    MaxEdits = 1
    MaxRotations = 1
INVARIANTS NobodySilenced
CHECK_DEADLOCK FALSE
