SPECIFICATION Spec
CONSTANTS
    p = p
    q = q
    x = x
    none = none
    NoTag <- none
    Ids <- MCIds
    Tags <- MCTags
    Tables <- MCTables
    Finds <- MCFinds
    EditDuringScan = FALSE
    MaxScans = 1
    MaxPoints = 2
    MaxMessages = 3
PROPERTY OnlyTheUserCancels
CHECK_DEADLOCK FALSE
