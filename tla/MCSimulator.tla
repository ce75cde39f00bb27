---------------------------- MODULE MCSimulator -----------------------------
(* Layouts of up to two blocks over two templates, plain ones and ones with two *)
(* spellings of a type, a type that is not simulated, a repeated prefix or a    *)
(* missing template.  The second number stands for the thousandth, the first    *)
(* of four digits.                                                              *)
EXTENDS Simulator, TLC

MCObjectTypes ==
    [t \in {"analoginput", "binaryvalue", "multistatevalue"} |->
        CASE t = "analoginput" -> [kind |-> "analog", key |-> 0]
          [] t = "binaryvalue" -> [kind |-> "binary", key |-> 5]
          [] OTHER -> [kind |-> "multi_state", key |-> 19]]
MCLowered ==
    [t \in {"analoginput", "AnalogInput", "binaryvalue", "multistatevalue", "trendlog"} |->
        IF t = "AnalogInput" THEN "analoginput" ELSE t]
MCNumbered == <<"001", "1000", "1001">>

Constant(v) == [kind |-> "constant", value |-> v]
Pt(label, type, profile) == [label |-> label, object_type |-> type, profile |-> profile]

OfTypes(types) ==
    [k \in DOMAIN types |-> Pt(<<"first", "second", "third">>[k], types[k], Constant(k))]
MCDays == [weekday |-> <<>>, weekend |-> <<>>]
Config(templates, instances, protocols) ==
    [base |-> 4, block |-> 2, templates |-> templates, instances |-> instances,
     days |-> MCDays, protocols |-> protocols]
TypeLists ==
    {<<"analoginput">>, <<"analoginput", "analoginput">>, <<"binaryvalue", "AnalogInput">>,
     <<"multistatevalue", "trendlog", "binaryvalue">>, <<"multistatevalue", "analoginput">>}
NamePrefixes == {<<"VAV">>, <<"VAV", "OFC">>, <<"VAV", "001">>}
MCLayouts ==
    {Config([t \in {"a", "b"} |-> OfTypes(IF t = "a" THEN ta ELSE tb)],
            <<inst("a", p, n), inst(t2, q, m)>>, <<"bacnet">>) :
        ta \in TypeLists, tb \in TypeLists, p \in NamePrefixes, q \in NamePrefixes,
        n \in 0..2, m \in 0..3, t2 \in {"a", "b", "c"}}

\* A meter that is read on two devices, by clients of one server or of the other.
Walk == [kind |-> "random_walk", base |-> 1, step |-> 1, min |-> 0, max |-> 1]
MeterPoints ==
    <<Pt("meter", "analoginput", [kind |-> "ramp", start |-> 0, end |-> 9, period |-> 3])>>
Meters(protocols) ==
    Config([t \in {"m"} |-> MeterPoints], <<inst("m", <<"MTR">>, 2)>>, protocols)
AllMeters == {Meters(<<"bacnet">>), Meters(<<"opcua">>)}

Linked(delta, noise) ==
    [kind |-> "occupancy_linked", base |-> 1, peak_delta |-> delta, noise |-> noise]
Control(noise) ==
    [kind |-> "temp_control", initial |-> 2, setpoint |-> 2, gain |-> 1, outside_influence |-> 1,
     noise |-> noise]

\* One point of every profile, over a schedule with a step that is out of order.
Office ==
    <<Pt("people", "analoginput", Linked(2, -1)),
      Pt("temp", "analoginput", Control(0)),
      Pt("sum", "analoginput", [kind |-> "integrator", rate_source |-> "people", scale |-> 2]),
      Pt("noise", "analoginput", [kind |-> "sine", base |-> 0, amplitude |-> 1]),
      Pt("walk", "analoginput", Walk),
      Pt("on", "binaryvalue", [kind |-> "binary_schedule", threshold |-> 0]),
      Pt("mode", "multistatevalue", [kind |-> "multi_state", states |-> <<1, 3>>,
                                     change_every |-> 2]),
      Pt("ramp", "analoginput", [kind |-> "ramp", start |-> 0, end |-> 4, period |-> 2]),
      Pt("copy", "analoginput", [kind |-> "derived_constant", from |-> "noise"])>>
Step(t, v) == [time |-> t, value |-> v]
OfficeHours ==
    [Config([t \in {"o"} |-> Office], <<inst("o", <<"OFC">>, 1)>>, <<"modbus">>)
        EXCEPT !.days = [weekday |-> <<Step(1, 0), Step(3, 4), Step(2, 2)>>,
                         weekend |-> <<Step(2, 1), Step(2, 3)>>]]

\* Noise on top of a schedule that falls and rises.
Noisy ==
    [Config([t \in {"n"} |-> <<Pt("flow", "analoginput", Linked(-1, 1)),
                              Pt("room", "analoginput", Control(1))>>],
            <<inst("n", <<"NSY">>, 1)>>, <<"bacnet">>)
        EXCEPT !.days = OfficeHours.days]

\* A random walk without a step stops the simulation; two listeners share a port.
Stuck ==
    Config([t \in {"s"} |->
               <<Pt("meter", "analoginput", Walk),
                 Pt("stuck", "analoginput", [Walk EXCEPT !.step = 0])>>],
           <<inst("s", <<"STK">>, 1)>>, <<"opcua", "opcua">>)
Nobody == Config([t \in {"s"} |-> <<>>], <<>>, <<"other", "another">>)
MCConfigs == AllMeters \cup {OfficeHours, Noisy, Stuck, Nobody}

MCBundled ==
    [templates |-> [t \in {"chiller", "chw_pump", "cooling_tower", "boiler", "hhw_pump",
                           "ahu_large", "ahu_small", "vav_office", "fcu_residential",
                           "plant_meter", "tenant_meter", "water_meter"} |-> <<>>],
     block |-> 100]
MCRows == <<<<"a">>, <<"a", "b">>>>
=============================================================================
