\* Two requests in flight at a time, on two entries with at most two edits each.
SPECIFICATION Spec
CONSTANTS
    Devices = {d1, d2}
    Entries = {e1, e2}
    Attachments = {f1}
    Emails = {m1}
    Passwords = {p1}
    InitialEmail = m1
    InitialPassword = p1
    d1 = d1
    d2 = d2
    e1 = e1
    e2 = e2
    f1 = f1
    m1 = m1
    p1 = p1
    MaxEntries = 1
    MaxPerEntry = 1
    MaxFiles = 1
    MaxHistory = 1
    MaxImport = 1
    VersionBound = 3
    MaxInFlight = 2
    Offered = {"insert", "update", "attach", "delete_file", "delete", "restore", "purge", "save_kit", "delete_kit"}
    NoKey = NoKey
    NoRequest = NoRequest
    NoWork = NoWork
    Unread = Unread
SYMMETRY DeviceAndEntrySymmetry
INVARIANT NoOrphans
PROPERTIES HistoryRetention ActiveSurvives
