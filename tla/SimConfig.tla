----------------------------- MODULE SimConfig ------------------------------
(***************************************************************************)
(* From a simulator configuration to addresses: the devices it expands to  *)
(* (sim-core/src/config.rs), the points that are simulated                 *)
(* (simulation/models.rs), the republisher configuration generated for     *)
(* them (republisher_export.rs) and the address each protocol server gives *)
(* a point (the sim modules of the protocol crates).                       *)
(*                                                                         *)
(* A configuration is a record [base, block, templates, instances, days,   *)
(* protocols].  A name is the sequence of its parts between dashes.        *)
(***************************************************************************)
EXTENDS Integers, Sequences, FiniteSets, SequencesExt, Sorted

CONSTANTS
    ObjectTypes, \* [types that are simulated -> [kind: "analog", "binary" or "multi_state",
                 \*                               key: the number of the type]]
    Lowered,     \* [spellings of an object type -> the spelling in lower case]
    Numbered,    \* the texts of 1, 2, ... with at least three digits
    ThreeDigits, \* those of them with exactly three
    IdSpace,     \* 2^32
    RegisterSpace \* 2^16, the addresses of a Modbus request

SimConfigAssumption ==
    /\ DOMAIN ObjectTypes \subseteq DOMAIN Lowered
    /\ \A t \in DOMAIN ObjectTypes :
          /\ Lowered[t] = t
          /\ ObjectTypes[t].kind \in {"analog", "binary", "multi_state"}
          /\ ObjectTypes[t].key \in Nat
    /\ IsInjective(Numbered) /\ ThreeDigits \subseteq Range(Numbered)
    /\ IdSpace \in Nat \ {0} /\ RegisterSpace \in Nat \ {0}

NoPosition == <<>>

\* The order of positions, tuples of equal length.
AtOrBefore(p, q) ==
    p = q \/ \E i \in DOMAIN q : p[i] < q[i] /\ \A j \in 1..i - 1 : p[j] = q[j]

-----------------------------------------------------------------------------
(* SimulatorConfig::expand *)

block(c) == IF c.block = 0 THEN 1 ELSE c.block

Expandable(c) ==
    \A b \in DOMAIN c.instances :
        /\ c.instances[b].template \in DOMAIN c.templates
        /\ c.instances[b].count <= block(c)

\* Positions <<block, device, point>> of all points, in the order of expansion.
Positions(c) ==
    UNION {{b} \X (1..c.instances[b].count) \X DOMAIN c.templates[c.instances[b].template] :
              b \in DOMAIN c.instances}

SpelledAt(c, p) == c.templates[c.instances[p[1]].template][p[3]].object_type

\* A counter that starts again on every device.
instance_counter_of_device(c, p) ==
    Cardinality({q \in Positions(c) :
        AtOrBefore(q, p) /\ q[1] = p[1] /\ q[2] = p[2] /\ SpelledAt(c, q) = SpelledAt(c, p)})

\* The counter of an object type runs over all devices.
instance_counter(c, p) ==
    Cardinality({q \in Positions(c) : AtOrBefore(q, p) /\ SpelledAt(c, q) = SpelledAt(c, p)})

DeviceAt(c, b, n) ==
    [device_id |-> (c.base + b * block(c) + n - 1) % IdSpace,
     name |-> Append(c.instances[b].prefix, Numbered[n]),
     points |-> [k \in DOMAIN c.templates[c.instances[b].template] |->
                    LET point == c.templates[c.instances[b].template][k]
                    IN  [label |-> point.label, object_type |-> point.object_type,
                         profile |-> point.profile,
                         instance |-> instance_counter(c, <<b, n, k>>)]]]

expand(c) ==
    FlattenSeq([b \in DOMAIN c.instances |->
        [n \in 1..c.instances[b].count |-> DeviceAt(c, b, n)]])

-----------------------------------------------------------------------------
(* SimulatedDevice::from_spec: points of unknown types are not simulated, and  *)
(* the types of the others are kept in lower case.                           *)

Simulated(device) ==
    LET known == InOrder({k \in DOMAIN device.points :
                             Lowered[device.points[k].object_type] \in DOMAIN ObjectTypes})
    IN  [device EXCEPT !.points =
            [k \in DOMAIN known |-> [device.points[known[k]] EXCEPT !.object_type = Lowered[@]]]]

SimulatedDevices(c) == LET ds == expand(c) IN [d \in DOMAIN ds |-> Simulated(ds[d])]

\* Points as <<position of the device, position in the device>>.
SimulatedPoints(devices) ==
    UNION {{d} \X DOMAIN devices[d].points : d \in DOMAIN devices}

PointAt(devices, p) == devices[p[1]].points[p[2]]

\* Simulation::neutral_value: the first device of that id, and its first point
\* of that type and instance.
Lookup(devices, device_id, object_type, instance) ==
    LET ds == {d \in DOMAIN devices : devices[d].device_id = device_id}
        d  == Min(ds)
        ks == {k \in DOMAIN devices[d].points :
                  /\ devices[d].points[k].object_type = object_type
                  /\ devices[d].points[k].instance = instance}
    IN  IF ds = {} \/ ks = {} THEN NoPosition ELSE <<d, Min(ks)>>

-----------------------------------------------------------------------------
(* emit_republisher_config *)

base_key(name) ==
    IF Len(name) > 1 /\ name[Len(name)] \in ThreeDigits THEN Front(name) ELSE name

device_key(devices, d) ==
    LET key == base_key(devices[d].name)
    IN  IF \E e \in DOMAIN devices : e # d /\ base_key(devices[e].name) = key
        THEN devices[d].name
        ELSE key

ExportedPoints(c) ==
    LET ds == expand(c)
    IN  {[device_key |-> device_key(ds, p[1]),
          tag_path |-> PointAt(ds, p).label,
          device_instance |-> ds[p[1]].device_id,
          object_type |-> PointAt(ds, p).object_type,
          object_instance |-> PointAt(ds, p).instance] : p \in SimulatedPoints(ds)}

-----------------------------------------------------------------------------
(* The BACnet server *)

\* build_device_registry, DeviceEntry::find_point and resolve_property_read: the
\* point of the first device that has one of that type and instance, whichever
\* device was addressed.  Within a device the order by type and instance does not
\* matter to the first match, since the match is on both.
resolve_property_read(devices, object_type, instance) ==
    LET ps == {p \in SimulatedPoints(devices) :
                  /\ PointAt(devices, p).object_type = object_type
                  /\ PointAt(devices, p).instance = instance}
        entry == CHOOSE p \in ps : \A q \in ps : AtOrBefore(p, q)
    IN  IF ps = {} THEN NoPosition
        ELSE Lookup(devices, devices[entry[1]].device_id, object_type, instance)

\* object_list_entry: the points of a device in the order of type and instance,
\* and of their positions where both are equal (the sort is stable).
object_list(device) ==
    LET Key(k) == <<ObjectTypes[device.points[k].object_type].key, device.points[k].instance, k>>
        Place(k) == Cardinality({j \in DOMAIN device.points : AtOrBefore(Key(j), Key(k))})
        sorted == [i \in DOMAIN device.points |->
                      device.points[CHOOSE k \in DOMAIN device.points : Place(k) = i]]
    IN  [i \in DOMAIN sorted |-> <<sorted[i].object_type, sorted[i].instance>>]

-----------------------------------------------------------------------------
(* The Modbus server: build_modbus_map *)

Cell(device, point, part) ==
    [device_id |-> device.device_id, object_type |-> point.object_type,
     instance |-> point.instance, enc |-> part]

RegistersOf(device, point) ==
    CASE ObjectTypes[point.object_type].kind = "analog" ->
            <<Cell(device, point, "high"), Cell(device, point, "low")>>
      [] ObjectTypes[point.object_type].kind = "multi_state" -> <<Cell(device, point, "whole")>>
      [] OTHER -> <<>>

BitsOf(device, point) ==
    IF ObjectTypes[point.object_type].kind = "binary" THEN <<Cell(device, point, "bit")>> ELSE <<>>

Image(devices, cells(_, _)) ==
    FlattenSeq([d \in DOMAIN devices |->
        FlattenSeq([k \in DOMAIN devices[d].points |->
            cells(devices[d], devices[d].points[k])])])

regs(devices) == Image(devices, RegistersOf)
bits(devices) == Image(devices, BitsOf)

\* The cells that a request can name.
Addressable(cells) == [i \in DOMAIN cells \cap (1..RegisterSpace) |-> cells[i]]

\* The OPC UA server: the node of a point.
node_id(devices, p) ==
    <<devices[p[1]].device_id, PointAt(devices, p).object_type, PointAt(devices, p).instance>>
-----------------------------------------------------------------------------
(* What the addresses of a configuration are for.                            *)

\* The ids of the devices fit their 32 bits.
IdsFit(c) == c.base + (Len(c.instances) + 1) * block(c) <= IdSpace

\* The cells of the points fit the addresses of Modbus.
CellsFit(devices) == Len(regs(devices)) <= RegisterSpace /\ Len(bits(devices)) <= RegisterSpace

\* Where nothing is known to go wrong: the ids fit their 32 bits and the cells their 16,
\* every type is spelled in one way, no name_prefix ends like a numbered name and none is
\* used twice.
Plain(c) ==
    /\ IdsFit(c) /\ CellsFit(SimulatedDevices(c))
    /\ \A p, q \in Positions(c) :
          Lowered[SpelledAt(c, p)] = Lowered[SpelledAt(c, q)] => SpelledAt(c, p) = SpelledAt(c, q)
    /\ \A b, e \in DOMAIN c.instances :
          /\ base_key(c.instances[b].prefix) = c.instances[b].prefix
          /\ c.instances[b].prefix = c.instances[e].prefix => b = e

\* The exported point of a position.
ExportAt(c, devices, p) ==
    CHOOSE e \in ExportedPoints(c) :
        /\ e.device_instance = devices[p[1]].device_id
        /\ Lowered[e.object_type] = PointAt(devices, p).object_type
        /\ e.object_instance = PointAt(devices, p).instance

\* The address under which the generated republisher configuration polls a point
\* leads through the server to that point; so do its node and the Modbus cells of
\* its label; no two devices publish under one key.  (expand, the export and the
\* servers are separate code that must count and sort alike.)
AddressesLeadHome(c) ==
    LET devices == SimulatedDevices(c)
        points  == SimulatedPoints(devices)
        image   == Addressable(regs(devices)) \o Addressable(bits(devices))
    IN  /\ \A p \in points :
              LET e == ExportAt(c, devices, p)
              IN  /\ resolve_property_read(devices, Lowered[e.object_type], e.object_instance) = p
                  /\ e.tag_path = PointAt(devices, p).label
                  /\ <<Lowered[e.object_type], e.object_instance>>
                         \in Range(object_list(devices[p[1]]))
        /\ \A p, q \in points :
              /\ node_id(devices, p) = node_id(devices, q) => p = q
              /\ device_key(devices, p[1]) = device_key(devices, q[1]) => p[1] = q[1]
        /\ IsInjective(image)
        /\ \A p \in points : \E i \in DOMAIN image :
              Lookup(devices, image[i].device_id, image[i].object_type, image[i].instance) = p
=============================================================================
