SPECIFICATION Spec
CONSTANTS
    ObjectTypes <- MCObjectTypes
    Lowered <- MCLowered
    Numbered <- MCNumbered
    ThreeDigits = {"001"}
    IdSpace = 10
    RegisterSpace = 14
    NaN = NaN
    OUTSIDE = 3
    MaxTicks = 2
    Registered = {"bacnet", "modbus", "opcua"}
    MaxReferences = 2
    MaxRequests = 1
    Layouts <- MCLayouts
    Configs <- MCConfigs
    Bundled <- MCBundled
    Rows <- MCRows
    Letters = {"b"}
    VISIBLE = 1
    MaxText = 1
    MaxScroll = 1
INVARIANTS
    SimAddressesLeadHome
    SimAnswersFollowTicks
    SimValuesAreInRange
    SimScreenIsTrue
PROPERTIES
    SimCacheCatchesUp
CHECK_DEADLOCK FALSE
