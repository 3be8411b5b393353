\* Recovery with the kit, reset and change of address, with a device at work.
SPECIFICATION Spec
CONSTANTS
    Devices = {d1}
    Entries = {e1}
    Attachments = {f1}
    Emails = {m1, m2}
    Passwords = {p1}
    InitialEmail = m1
    InitialPassword = p1
    d1 = d1
    e1 = e1
    f1 = f1
    m1 = m1
    m2 = m2
    p1 = p1
    MaxEntries = 2
    MaxPerEntry = 1
    MaxFiles = 1
    MaxHistory = 1
    MaxImport = 1
    VersionBound = 2
    MaxInFlight = 1
    Offered = {"insert", "update", "delete", "save_kit", "update_email", "forgot_password"}
    NoKey = NoKey
    NoRequest = NoRequest
    NoWork = NoWork
    Unread = Unread
SYMMETRY DeviceAndEntrySymmetry
PROPERTIES KeyChangeComplete
