----------------------------- MODULE MCAdapters ------------------------------
(* A BACnet list with a group of two points of one reference, a group of one  *)
(* and a point that does not parse, and a disabled one; an OPC UA address space whose deepest     *)
(* variable lies at the depth limit, reached first over the shorter path, and *)
(* one with more objects than the cap.                                        *)
EXTENDS Adapters, TLC

MCDeviceOf == <<1, 1, 3, Unparsed, 2>>
MCRefOf == <<"present_value", "present_value", "present_value", "present_value",
             "present_value">>
MCTargets == <<"eth0", "eth1">>
MCObjectList == <<"device", "o1", "o2", "o3", "invalid", "o4", "o5">>

MCAddressOf == <<1, 2, 9, 2, 4>>
MCNetworks ==
    {[base |-> 2, prefix |-> 0, single |-> FALSE],
     [base |-> 3, prefix |-> 1, single |-> FALSE],
     [base |-> 1, prefix |-> 2, single |-> TRUE]}
MCNames == {{}, {1}, {1, 3}}

MCNodeOf == <<"n1", Unparsed, "n3", "n4", "n5">>

Obj(t) == [target |-> t, class |-> "object", forward |-> TRUE, namespace |-> 2]
Var(t) == [Obj(t) EXCEPT !.class = "variable"]
MCNodes == {"objects", "a", "b", "d", "e", "f", "server", "u", "v", "w"}
Deep ==
    [n \in MCNodes |->
        CASE n = "objects" -> <<Obj("a"), Obj("b"), [Obj("server") EXCEPT !.namespace = 0],
                                Var("u")>>
          [] n = "a" -> <<[Obj("objects") EXCEPT !.forward = FALSE], Obj("e"), Var("u")>>
          [] n = "b" -> <<Obj("d")>>
          [] n = "d" -> <<Obj("e")>>
          [] n = "e" -> <<Obj("f")>>
          [] n = "f" -> <<Var("v"), Obj("b")>>
          [] n = "server" -> <<Var("w")>>
          [] OTHER -> <<>>]
Wide ==
    [n \in MCNodes |->
        CASE n = "objects" -> <<Obj("a"), Obj("b"), Obj("d"), Obj("e"), Obj("f"), Obj("server")>>
          [] n = "a" -> <<Var("u")>>
          [] OTHER -> <<>>]
MCAddressSpaces == {Deep, Wide}
=============================================================================
