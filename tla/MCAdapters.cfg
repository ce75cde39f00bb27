SPECIFICATION Spec
CONSTANTS
    registered = {"bacnet", "modbus", "opcua"}
    Configurable = {"bacnet", "modbus", "opcua", "other"}
    Points = {1, 2, 3, 4, 5}
    Enabled = {1, 2, 3, 4}
    Unparsed = Unparsed
    Devices = {1, 2, 3}
    DeviceOf <- MCDeviceOf
    RefOf <- MCRefOf
    Interfaces = {"i1"}
    Unspecified = "unspecified"
    Configured = "unspecified"
    Unset = "unset"
    poll_concurrency = 0
    REFRESH_TARGETED_PASSES = 2
    REFRESH_TARGETED_CHUNK_SIZE = 2
    MaxChanges = 1
    Targets <- MCTargets
    Strict = FALSE
    Instances = {1, 2}
    DISCOVERY_BROADCAST_PASSES = 2
    ObjectList <- MCObjectList
    MAX_BROWSE_OBJECTS = 6
    RPM_OBJECT_CHUNK = 2
    AddressOf <- MCAddressOf
    KnownType = {1, 2, 3, 5}
    Registers = 8
    MaxPolls = 2
    AddressBits = 2
    Networks <- MCNetworks
    Names <- MCNames
    MaxHosts = 8
    scan_concurrency = 2
    browse_start = 5
    browse_count = 5
    MaxRegister = 8
    MAX_CONSECUTIVE_GAPS = 2
    NodeOf <- MCNodeOf
    Nodes <- MCNodes
    Root = "objects"
    AddressSpaces <- MCAddressSpaces
    Endpoints = {"", "e1"}
    MAX_BROWSE_DEPTH = 3
    MAX_BROWSE_NODES = 6
INVARIANTS
    BacnetPollAnswersAll
    BacnetRefreshIsThorough
    BacnetSessionServesCall
    BacnetScanIsComplete
    ModbusSampleIsOwn
    ModbusTargetsAreTheNetwork
    ModbusBrowseSkipsOnlyGaps
    OpcuaValuesArePaired
    OpcuaWalkIsComplete
PROPERTIES
    ModbusPollEnds
CHECK_DEADLOCK FALSE
