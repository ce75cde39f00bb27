-------------------------------- MODULE MCGui --------------------------------
(***************************************************************************)
(* Gui for TLC.  The table is that of MCPointTable; the files of the       *)
(* settings are an empty one, one of version 1 whose values were written   *)
(* by hand, and one that remembers its secrets and starts by itself.       *)
(***************************************************************************)
EXTENDS Gui, MCPointTable

MCNumerals ==
    "0" :> 0 @@ "1" :> 1 @@ "2" :> 2 @@ "5" :> 5 @@ "7" :> 7 @@
    "8" :> 8 @@ "10" :> 10 @@ "30" :> 30 @@ "32" :> 32 @@ "256" :> 256 @@
    "300" :> 300 @@ "502" :> 502 @@ "1000" :> 1000 @@ "1700" :> 1700 @@ "2000" :> 2000 @@
    "3000" :> 3000 @@ "8883" :> 8883 @@ "47808" :> 47808 @@ "70000" :> 70000 @@ "07" :> 7
MCAddresses == {"10.0.0.9", "10.0.0.1", "10.0.0.2", Unspecified, Broadcast}
MCLowerOf == "TRUE" :> "true" @@ "Strict" :> "strict" @@ "Analog_Value" :> "analog_value"
MCSegmentsOf ==
    "Netix/Site" :> <<"Netix", "Site">> @@
    "Netix/Site/_health/republisher" :> <<"Netix", "Site", "_health", "republisher">> @@
    "/Netix/Sim/Device" :> <<"", "Netix", "Sim", "Device">> @@
    "net/+" :> <<"net", "+">> @@ "ahu/1" :> <<"ahu", "1">>

MCDecimal(n) == ToString(n)

MCTexts == [u32 |-> {"", "7", "47808", "70000", "x"}, text |-> {"", "10.0.0.9", "net/+"},
            secret |-> {"", "x"}]
MCNicLists == {<<>>, <<"10.0.0.1", "10.0.0.2">>}
File(version, id, conns, m) == [version |-> version, protocol |-> id, connections |-> conns, mqtt |-> m]
MCFormFiles ==
    {File(2, "", <<>>, <<>>),
     File(1, "bacnet",
          [bacnet |-> [port |-> Number(47808), discover_all_interfaces |-> String("1"),
                       device_backoff_max_secs |-> String("30")],
           modbus |-> [host |-> String("10.0.0.9"), unit_id |-> Number(300)]],
          [password_env |-> "VARIABLE", username |-> "ada", use_tls |-> FALSE]),
     File(2, "opcua",
          [opcua |-> [endpoint_url |-> String("10.0.0.9"), security_policy |-> String("basic256sha256"),
                      security_mode |-> String("sign"), username |-> String("ada"),
                      password |-> String("word")]],
          [payload_format |-> "scalar", password |-> "word", username |-> "ada",
           remember_secrets |-> TRUE, autostart |-> TRUE])}
MCSitePoints ==
    {[device_key |-> "+", address |-> "holding_7", tag_path |-> ""],
     [device_key |-> " ", address |-> "", tag_path |-> "ahu/1"]}

MCPointFiles ==
    {<<[home |-> "modbus", addressing |-> [address |-> String("07")]],
       [home |-> "bacnet", addressing |-> [device_instance |-> Number(7),
                                           object_type |-> String("Analog_Value")]]>>,
     <<>>}
MCFound ==
    [bacnet |-> {[device_instance |-> Number(7), object_type |-> String("analog_value"),
                  object_instance |-> Number(1), property |-> String("present_value")]},
     modbus |-> {[table |-> String("input"), address |-> Number(7),
                  datatype |-> String("u16"), word_order |-> String("big")]},
     opcua |-> {[node_id |-> String("ns=2;s=a")]}]

\* Two devices, one of which has a point of the other's addressing.
DuePoint(id, device) == [identity |-> id, device |-> device]
MCDues == {<<DuePoint("a", "A"), DuePoint("a", "B")>>, <<DuePoint("b", "B")>>}
=============================================================================
