SPECIFICATION Spec
CONSTANTS
    p = p
    q = q
    x = x
    none = none
    NoTag <- none
    Ids <- MCIds
    Tags <- MCTags
    Tables <- MCTables
    Finds <- MCFinds
    EditDuringScan = TRUE
    MaxScans = 1
    MaxPoints = 2
    MaxMessages = 3
PROPERTY ImportKeepsTable
CHECK_DEADLOCK FALSE
