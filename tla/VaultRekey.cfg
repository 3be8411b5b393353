\* Changes of master password from two devices, against their own requests.
SPECIFICATION Spec
CONSTANTS
    Devices = {d1, d2}
    Entries = {e1}
    Attachments = {f1}
    Emails = {m1}
    Passwords = {p1, p2}
    InitialEmail = m1
    InitialPassword = p1
    d1 = d1
    d2 = d2
    e1 = e1
    f1 = f1
    m1 = m1
    p1 = p1
    p2 = p2
    MaxEntries = 1
    MaxPerEntry = 1
    MaxFiles = 1
    MaxHistory = 1
    MaxImport = 1
    VersionBound = 1
    MaxInFlight = 1
    Offered = {"insert", "attach", "delete", "restore", "update_password"}
    NoKey = NoKey
    NoRequest = NoRequest
    NoWork = NoWork
    Unread = Unread
SYMMETRY DeviceAndEntrySymmetry
INVARIANTS TypeOK KeyInv SessionInv
PROPERTIES KeyChangeComplete
