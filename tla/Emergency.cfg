\* Two relations between two accounts. The clock stops and identifiers run out.
SPECIFICATION FairSpec
CONSTANTS
    Users = {u1, u2}
    Relations = {r1, r2}
    u1 = u1
    u2 = u2
    r1 = r1
    r2 = r2
    Waits = {1}
    Resolution = 2
    MaxContacts = 2
    Consulted = {"access_requested", "access_granted"}
    MaxLag = 1
    MaxTime = 3
    NoUser = NoUser
CHECK_DEADLOCK FALSE
INVARIANTS TypeOK OnePerPair DemandInv
PROPERTIES KeepsPromise DemandAnswered
