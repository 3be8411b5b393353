SPECIFICATION MCSpec
CONSTANTS
    Persons = {"ann", "bob"}
    Devices = {"d1", "d2", "d3"}
    Addresses = {"a", "b", "x"}
    AdminAddress = "a"
    PersonOf <- MCPersonOf
    Types <- MCTypes
    Reads <- MCReads
    MaxId = 3
    MaxCode = 2
    MaxCap = 2
    MaxTries = 1
    MaxActs = 3
CHECK_DEADLOCK FALSE
INVARIANTS TypesOK UsesOverlap
PROPERTIES GuessesCounted CapHolds VerifiedProven HierarchyHeld AddressFrees
