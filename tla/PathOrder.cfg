SPECIFICATION Spec
CONSTANTS
    Topologies <- MCRoutes
    Names = {"n1"}
    Addresses = {"a1"}
    Sources = {"office"}
    Ports = {443}
PROPERTIES FirstMatchWins
