SPECIFICATION Spec
CONSTANTS
    Devices = {d1, d2}
    Entries = {e1}
    Attachments = {f1}
    Emails = {m1, m2}
    Passwords = {p1, p2}
    InitialEmail = m1
    InitialPassword = p1
    d1 = d1
    d2 = d2
    e1 = e1
    f1 = f1
    m1 = m1
    m2 = m2
    p1 = p1
    p2 = p2
    MaxEntries = 2
    MaxPerEntry = 1
    MaxFiles = 1
    MaxHistory = 1
    MaxImport = 1
    VersionBound = 1
    MaxInFlight = 1
    Offered = {"insert", "update_email"}
    NoKey = NoKey
    NoRequest = NoRequest
    NoWork = NoWork
    Unread = Unread
SYMMETRY DeviceAndEntrySymmetry
INVARIANTS HolderCanSignIn
