SPECIFICATION MCSpec
CONSTANTS
    Desktops = {d1}
    Extensions = {x1}
    Ids = {1, 2}
    Folders = {"", "home", "work"}
    PageSize = 1
    Limit = 1
    MaxOps = 2
    MaxVersion = 3
CHECK_DEADLOCK FALSE
INVARIANTS TypeOK TextKept
PROPERTIES BulkDone ViewSettles
