SPECIFICATION Spec
CONSTANTS
    Topologies <- MCBackupNodes
    Names = {"n1"}
    Addresses = {"a1"}
    Sources = {"office"}
    Ports = {443}
INVARIANTS NoDangling
