SPECIFICATION FairSpec
CONSTANTS
    Users = {u1, u2}
    Relations = {r1}
    u1 = u1
    u2 = u2
    r1 = r1
    Waits = {0, 2}
    Resolution = 2
    MaxContacts = 1
    Consulted = {"access_granted"}
    MaxLag = 1
    MaxTime = 4
    NoUser = NoUser
CHECK_DEADLOCK FALSE
PROPERTIES DemandAnswered
