SPECIFICATION MCSpec
CONSTANTS
    Users = {a, b}
    Desktops = {a1}
    Extensions = {b1}
    UserOf <- MCUserOf
    Vaults = {v1}
    EntryIds = {e1, e2}
    a = a
    b = b
    a1 = a1
    b1 = b1
    v1 = v1
    e1 = e1
    MaxVaults = 1
    MaxMembers = 2
    MaxOps = 2
    MaxVersion = 3
    None = None
CHECK_DEADLOCK FALSE
INVARIANT LostOnlyByRace
PROPERTIES RemovedStaysOut PagesSettle
