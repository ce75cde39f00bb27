SPECIFICATION GuiSpec
CONSTANTS
    p = p
    q = q
    x = x
    none = none
    NoTag <- none
    Ids <- MCIds
    Tags <- MCTags
    Tables <- MCTables
    Finds <- MCFinds
    EditDuringScan = FALSE
    MaxScans = 1
    MaxPoints = 2
    MaxMessages = 5
    Numerals <- MCNumerals
    Addresses <- MCAddresses
    Factors = {"1", "7", "07", "70000"}
    LowerOf <- MCLowerOf
    Decimal <- MCDecimal
    SegmentsOf <- MCSegmentsOf
    Texts <- MCTexts
    NicLists <- MCNicLists
    ReadableFiles = {"10.0.0.9"}
    FormFiles <- MCFormFiles
    EnvPassword = {"", "secret"}
    SitePoints <- MCSitePoints
    MaxEdits = 3
    PointFiles <- MCPointFiles
    Found <- MCFound
    AddressTexts = {"", "07", "70000", "x"}
    MaxEntries = 2
    MaxTyped = 4
    Dues <- MCDues
    RecentCapacity = 2
    MaxPolls = 2
    MaxTurns = 2
INVARIANTS
    TypeOK
    EditorNamesLoaded
    SavedMeansSaved
    GuiSettingsAreTrue
    GuiFeedIsFaithful
PROPERTIES
    FileStaysValid
    ImportKeepsTable
    GuiEditorIsTrue
CHECK_DEADLOCK FALSE
