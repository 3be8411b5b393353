SPECIFICATION MCSpec
CONSTANTS
    Users = {o, r}
    Desktops = {o1, r1}
    Extensions = {o2, r2}
    UserOf <- MCUserOf
    Lanes = {co1, cx1, co2, cr1, cy1, cr2}
    DeviceOf <- MCDeviceOf
    Entries = {e1}
    OwnerOf <- MCOwnerOf
    Trusted <- MCTrusted
    Blinds = {b1}
    o = o
    r = r
    o1 = o1
    o2 = o2
    r1 = r1
    r2 = r2
    e1 = e1
    b1 = b1
    co1 = co1
    co2 = co2
    cr1 = cr1
    cx1 = cx1
    cy1 = cy1
    cr2 = cr2
    Uses = {2}
    MaxShares = 1
    MaxOps = 2
    MaxPairs = 2
    MaxKeys = 2
    MaxIds = 2
    MaxVersion = 2
    None = None
CHECK_DEADLOCK FALSE
INVARIANTS TypeOK UsesWithinGrant LossHasCause 
PROPERTIES SealsSettle
