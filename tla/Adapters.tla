------------------------------ MODULE Adapters -------------------------------
(***************************************************************************)
(* The registry of protocol adapters                                       *)
(* (src/crates/republish-core/src/protocol.rs) and the adapter it builds:  *)
(* a worker polls and refreshes through one adapter, a one-shot job        *)
(* discovers or browses through another that it builds for itself.  The    *)
(* two share no state, so a behaviour follows one adapter in one of the    *)
(* two uses; calls of each module are those the adapter's own file makes.  *)
(***************************************************************************)
EXTENDS Integers, Sequences, FiniteSets

CONSTANTS
    registered,    \* ids with a factory
    Configurable   \* protocol ids a configuration file may name

CONSTANTS
    Points, Enabled, Unparsed,
    Devices, DeviceOf, RefOf, Interfaces, Unspecified, Configured, Unset,
    poll_concurrency, REFRESH_TARGETED_PASSES, REFRESH_TARGETED_CHUNK_SIZE, MaxChanges,
    Targets, Strict, Instances, DISCOVERY_BROADCAST_PASSES, ObjectList,
    MAX_BROWSE_OBJECTS, RPM_OBJECT_CHUNK,
    AddressOf, KnownType, Registers, MaxPolls,
    AddressBits, Networks, Names, MaxHosts, scan_concurrency, browse_start, browse_count,
    MaxRegister, MAX_CONSECUTIVE_GAPS,
    NodeOf,
    Nodes, Root, AddressSpaces, Endpoints, MAX_BROWSE_DEPTH, MAX_BROWSE_NODES

VARIABLES
    protocol,   \* id of the adapter that was built
    role        \* "none", then "worker" or "job", or "refused"

VARIABLES
    \* the call of a worker
    pc, asked, result, samples, failures,
    \* the job of a one-shot thread
    job, at, outcome, warnings, points,
    \* BACnet, then its jobs
    os, changes, session, table, op, want, group, left, pass, ranges, probed, unchecked,
    unresolved,
    clients, target, passes, known, by_instance, index, entries,
    \* Modbus, then its jobs
    todo, current, number, inbox, wire, source, polls,
    network, stage, register_table, address, gaps, listed, failed,
    \* OPC UA, then its jobs
    connected, origin, answered,
    scan_connected, devices, references, visited, frontier, entry, received, previewed, cut

B  == INSTANCE BacnetAdapter
BS == INSTANCE BacnetScan
M  == INSTANCE ModbusAdapter
MS == INSTANCE ModbusScan WITH table <- register_table
O  == INSTANCE OpcuaAdapter WITH source <- origin
OS == INSTANCE OpcuaScan WITH connected <- scan_connected

ASSUME AdaptersAssumption ==
    /\ registered \subseteq {"bacnet", "modbus", "opcua"}
    /\ B!BacnetAssumption /\ BS!BacnetScanAssumption
    /\ M!ModbusAssumption /\ MS!ModbusScanAssumption
    /\ O!OpcuaAssumption /\ OS!OpcuaScanAssumption

call == <<pc, asked, result, samples, failures>>
oneshot == <<job, at, outcome, warnings, points>>
bacnet == <<os, changes, session, table, op, want, group, left, pass, ranges, probed,
            unchecked, unresolved>>
bacnet_job == <<clients, target, passes, known, by_instance, index, entries>>
modbus == <<todo, current, number, inbox, wire, source, polls>>
modbus_job == <<network, stage, register_table, address, gaps, listed, failed>>
opcua == <<connected, origin, answered>>
opcua_job == <<scan_connected, devices, references, visited, frontier, entry, received,
               previewed, cut>>
vars == <<protocol, role, call, oneshot, bacnet, bacnet_job, modbus, modbus_job, opcua,
          opcua_job>>

Init ==
    /\ protocol = "none" /\ role = "none"
    /\ B!Init /\ BS!ScanInit /\ M!ModbusInit /\ MS!ScanInit /\ O!OpcuaInit /\ OS!OpcuaScanInit

\* RepublishRegistry::build: an id without a factory has no adapter.
Build(id, use) ==
    /\ role = "none"
    /\ protocol' = id
    /\ role' = IF id \in registered THEN use ELSE "refused"
    /\ UNCHANGED <<call, oneshot, bacnet, bacnet_job, modbus, modbus_job, opcua, opcua_job>>

Built(id, use) == protocol = id /\ role = use /\ UNCHANGED <<protocol, role>>

BacnetWorker ==
    /\ Built("bacnet", "worker")
    /\ B!Next
    /\ UNCHANGED <<oneshot, bacnet_job, modbus, modbus_job, opcua, opcua_job>>

BacnetJob ==
    /\ Built("bacnet", "job")
    /\ BS!ScanNext
    /\ UNCHANGED <<call, bacnet, modbus, modbus_job, opcua, opcua_job>>

ModbusWorker ==
    /\ Built("modbus", "worker")
    /\ M!ModbusNext
    /\ UNCHANGED <<oneshot, bacnet, bacnet_job, modbus_job, opcua, opcua_job>>

ModbusJob ==
    /\ Built("modbus", "job")
    /\ MS!ScanNext
    /\ UNCHANGED <<call, warnings, points, bacnet, bacnet_job, modbus, opcua, opcua_job>>

OpcuaWorker ==
    /\ Built("opcua", "worker")
    /\ O!OpcuaNext
    /\ UNCHANGED <<oneshot, bacnet, bacnet_job, modbus, modbus_job, opcua_job>>

OpcuaJob ==
    /\ Built("opcua", "job")
    /\ OS!OpcuaScanNext
    /\ UNCHANGED <<call, bacnet, bacnet_job, modbus, modbus_job, opcua>>

Next ==
    \/ \E id \in Configurable, use \in {"worker", "job"} : Build(id, use)
    \/ BacnetWorker \/ BacnetJob \/ ModbusWorker \/ ModbusJob \/ OpcuaWorker \/ OpcuaJob

\* The timeouts of a Modbus call pass by themselves.
Spec ==
    /\ Init /\ [][Next]_vars
    /\ WF_<<protocol, role, M!vars>>(Built("modbus", "worker") /\ M!Client)

-----------------------------------------------------------------------------
(* Properties: those of the adapter in use; each is stated and explained in  *)
(* its module.                                                               *)

\* A BACnet poll that returns answers each enabled point once, whatever part of
\* it fell back to single reads.
BacnetPollAnswersAll == protocol = "bacnet" => B!PollAnswersAll

\* The unresolved devices of a BACnet refresh were looked for in every pass.
BacnetRefreshIsThorough == protocol = "bacnet" => B!RefreshIsThorough

\* A BACnet session sends through the interface its call resolved.
BacnetSessionServesCall == protocol = "bacnet" => B!SessionServesCall

\* BACnet discovery and browse lose no device and no object, and stop their
\* clients.
BacnetScanIsComplete == protocol = "bacnet" => BS!ScanIsComplete

\* A Modbus sample is the answer to the request of its own point, and a poll
\* that returns answers every point.
ModbusSampleIsOwn == protocol = "modbus" => M!SampleIsOwn /\ M!PollAnswersAll

\* A Modbus poll ends though the device never answers.
ModbusPollEnds == protocol = "modbus" /\ pc = "connecting" ~> pc = "idle"

\* A Modbus discovery probes the configured network, and a browse leaves out
\* registers only after a run of failures.
ModbusTargetsAreTheNetwork == protocol = "modbus" => MS!TargetsAreTheNetwork
ModbusBrowseSkipsOnlyGaps == protocol = "modbus" => MS!BrowseSkipsOnlyGaps

\* An OPC UA sample carries the value of its own node, and a poll that returns
\* answers each point the server sent a value for.
OpcuaValuesArePaired == protocol = "opcua" => O!ValuesArePaired

\* An OPC UA browse without a warning found every variable in reach.
OpcuaWalkIsComplete == protocol = "opcua" => OS!WalkIsComplete
=============================================================================
