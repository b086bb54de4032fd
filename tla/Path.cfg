SPECIFICATION Spec
CONSTANTS
    Topologies <- MCAll
    Names = {"n1", "n2"}
    Addresses = {"a1", "a2", "lo"}
    Sources = {"office", "street"}
    Ports = {53}
INVARIANTS TypeOK NoDangling RegionChosen WarpAsAsked PublishedStaysPut MembersOnly 
