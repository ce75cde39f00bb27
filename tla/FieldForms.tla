----------------------------- MODULE FieldForms ------------------------------
(***************************************************************************)
(* The fields by which an adapter is configured and a point is addressed:  *)
(* what each adapter declares (src/crates/proto-*/src/lib.rs), how the GUI *)
(* turns a JSON value into the text of a form and back                     *)
(* (src/crates/republish-core/src/app.rs), and what the adapters read from *)
(* the stored values (src/crates/proto-*/src/republish/mod.rs).            *)
(*                                                                         *)
(* A JSON value is <<kind, text>> where text is what json_scalar renders,  *)
(* so a number and a string of the same digits differ in the kind alone.   *)
(* Texts are opaque but for what a parser makes of them: Numerals says     *)
(* which parse as an unsigned integer, Addresses which as an IPv4 address. *)
(***************************************************************************)
EXTENDS Integers, FiniteSets

CONSTANTS
    Numerals,   \* texts that trim and parse as u64, with their numbers
    Addresses,  \* texts that parse as Ipv4Addr
    Factors,    \* texts that parse as a number (f64) other than zero
    LowerOf,    \* texts with capitals, with their lower-case form
    Decimal(_)  \* the text of a number (to_string)

None == -1
Unspecified == "0.0.0.0"
Broadcast == "255.255.255.255"

BlankTexts == {"", " "}
Blank(t) == t \in BlankTexts
Lower(t) == IF t \in DOMAIN LowerOf THEN LowerOf[t] ELSE t
parse(t) == IF t \in DOMAIN Numerals THEN Numerals[t] ELSE None

Absent == <<"absent", "">>
String(t) == <<"string", t>>
Number(n) == <<"number", Decimal(n)>>
Boolean(b) == <<"bool", IF b THEN "true" ELSE "false">>

json_scalar(v) == v[2]

Get(conn, key) == IF key \in DOMAIN conn THEN conn[key] ELSE Absent

Numbers == {Numerals[t] : t \in DOMAIN Numerals}

\* A JSON value of a file: only a string or a truth value is spelled like one,
\* only a string or a number like a number, and a number in one way.
IsValue(v) ==
    /\ v # Absent
    /\ v[1] \notin {"string", "bool"} => v[2] \notin {"true", "false"}
    /\ v[1] \notin {"string", "number"} => v[2] \notin DOMAIN Numerals
    /\ v[1] = "number" => parse(v[2]) = None \/ v[2] = Decimal(parse(v[2]))

HasValues(map) == \A key \in DOMAIN map : IsValue(map[key])

\* A map after an insert.
With(map, key, v) == [k \in DOMAIN map \cup {key} |-> IF k = key THEN v ELSE map[k]]

-----------------------------------------------------------------------------
(* FieldSpec and the capabilities of the three adapters: fields by key.      *)
(* Labels, help texts and the order on the screen are left out.              *)

text == [kind |-> "text", options |-> {}, default |-> Absent]
u32(n) == [kind |-> "u32", options |-> {}, default |-> Number(n)]
bool(b) == [kind |-> "bool", options |-> {}, default |-> Boolean(b)]
enumeration(options, default) ==
    [kind |-> "enum", options |-> options, default |-> String(default)]
secret == [kind |-> "secret", options |-> {}, default |-> Absent]

OBJECT_TYPES == {"analog_input", "analog_output", "analog_value", "binary_input",
                 "binary_output", "binary_value", "multi_state_input",
                 "multi_state_output", "multi_state_value"}
TABLES == {"coil", "discrete", "input", "holding"}
DATATYPES == {"u16", "i16", "u32", "i32", "f32"}
POLICIES == {"none", "basic256sha256"}
MODES == {"none", "sign", "sign_encrypt"}

BacnetCapabilities ==
    [connection_fields |->
        [interface |-> text, discover_all_interfaces |-> bool(FALSE),
         bind_failure_policy |-> enumeration({"skip", "strict"}, "skip"),
         port |-> u32(0), broadcast_address |-> text, bbmd_address |-> text,
         bbmd_port |-> u32(47808), bbmd_ttl_secs |-> u32(300),
         discovery_window_ms |-> u32(3000), apdu_timeout_ms |-> u32(2000),
         poll_concurrency |-> u32(8), device_backoff_max_secs |-> u32(300)],
     addressing_fields |->
        [device_instance |-> u32(0), object_type |-> enumeration(OBJECT_TYPES, "analog_input"),
         object_instance |-> u32(0), property |-> text]]

ModbusCapabilities ==
    [connection_fields |->
        [host |-> text, port |-> u32(502), unit_id |-> u32(1), timeout_ms |-> u32(1000),
         scan_concurrency |-> u32(32), max_hosts |-> u32(256), browse_start |-> u32(0),
         browse_count |-> u32(32)],
     addressing_fields |->
        [table |-> enumeration(TABLES, "holding"), address |-> u32(0),
         datatype |-> enumeration(DATATYPES, "u16"),
         word_order |-> enumeration({"big", "little"}, "big"), scale |-> text]]

OpcuaCapabilities ==
    [connection_fields |->
        [endpoint_url |-> text,
         security_policy |-> enumeration(POLICIES, "none"),
         security_mode |-> enumeration(MODES, "none"),
         username |-> text, password |-> secret],
     addressing_fields |-> [node_id |-> text]]

caps == [bacnet |-> BacnetCapabilities, modbus |-> ModbusCapabilities,
         opcua |-> OpcuaCapabilities]
Protocols == DOMAIN caps

\* The numbers that are written somewhere, as a default or as a bound; a number
\* that is written parses as itself.  What an enumeration offers and how a
\* checkbox is spelled is neither blank nor a number, and has no capitals.
DEFAULTS == {0, 1, 8, 30, 32, 256, 300, 502, 1000, 2000, 3000, 8883, 47808}
WORDS == {"true", "false", "skip", "strict", "big", "little"} \cup OBJECT_TYPES \cup TABLES
            \cup DATATYPES \cup POLICIES \cup MODES

ASSUME FormsAssumption ==
    /\ \A t \in DOMAIN Numerals :
          /\ Numerals[t] \in Nat
          /\ Decimal(Numerals[t]) \in DOMAIN Numerals
          /\ Numerals[Decimal(Numerals[t])] = Numerals[t]
    /\ \A n \in DEFAULTS : \E t \in DOMAIN Numerals : Numerals[t] = n
    /\ DOMAIN Numerals \cap (BlankTexts \cup WORDS \cup Addresses) = {}
    /\ DOMAIN LowerOf \cap WORDS = {}
    /\ Addresses \cap BlankTexts = {}

-----------------------------------------------------------------------------
(* Forms of the GUI *)

default_field_string(spec) == json_scalar(spec.default)

\* Mutant of Shown: a key that is not stored shows an empty field.
ShownOrEmpty(specs, stored) == [key \in DOMAIN specs |-> json_scalar(Get(stored, key))]

\* connection_strings, and the editor's part of load_point_into_editor: the
\* stored value of every field, or its default.
Shown(specs, stored) ==
    [key \in DOMAIN specs |->
        IF key \in DOMAIN stored THEN json_scalar(stored[key])
        ELSE default_field_string(specs[key])]

\* build_addressing: text that does not parse stays text, a checkbox is what
\* spells "true", and a field that was never filled in is an empty text.
build_addressing(specs, values) ==
    [key \in DOMAIN specs |->
        LET raw == IF key \in DOMAIN values THEN values[key] ELSE ""
            kind == specs[key].kind
        IN  CASE kind = "u32" /\ parse(raw) # None -> Number(parse(raw))
              [] kind = "bool" -> Boolean(raw = "true")
              [] OTHER -> String(raw)]

\* PointIdentity::from_point
Identity(addressing) ==
    {<<key, json_scalar(addressing[key])>> : key \in DOMAIN addressing}

-----------------------------------------------------------------------------
(* What the adapters read from stored values *)

conn_u64(conn, key) ==
    IF Get(conn, key)[1] \in {"number", "string"} THEN parse(Get(conn, key)[2]) ELSE None

OrElse(n, default) == IF n = None THEN default ELSE n
AtLeast(n, low) == IF n < low THEN low ELSE n
AtMost(n, high) == IF n > high THEN high ELSE n

\* conn_str of BACnet and OPC UA: blank counts as unset.
conn_str(conn, key, default) ==
    IF Blank(Get(conn, key)[2]) THEN default ELSE Get(conn, key)[2]

\* conn_bool; of the strings only "1" and "true" in any case count.
conn_bool(conn, key) ==
    LET v == Get(conn, key)
    IN  \/ v[1] = "bool" /\ v[2] = "true"
        \/ v[1] = "string" /\ (Lower(v[2]) = "true" \/ v[2] = "1")
        \/ v[1] = "number" /\ parse(v[2]) \notin {None, 0}

ParsedAddress(t, default) == IF t \in Addresses THEN t ELSE default

\* device_backoff_max, read by the worker.
device_backoff_max(conn) ==
    IF Get(conn, "device_backoff_max_secs")[1] \in {"number", "string"}
    THEN AtLeast(OrElse(conn_u64(conn, "device_backoff_max_secs"), 300), 10)
    ELSE 300

\* parse_conn of BACnet: ports and the time to live are cut to 16 bits.
BacnetSettings(conn, nics) ==
    LET bbmd == ParsedAddress(conn_str(conn, "bbmd_address", ""), "none")
        policy == Lower(conn_str(conn, "bind_failure_policy", "skip"))
    IN  [interface |-> ParsedAddress(conn_str(conn, "interface", ""),
                                     IF nics = <<>> THEN Unspecified ELSE nics[1]),
         discover_all_interfaces |-> conn_bool(conn, "discover_all_interfaces"),
         bind_failure_policy |-> IF policy = "strict" THEN "strict" ELSE "skip",
         port |-> OrElse(conn_u64(conn, "port"), 0) % 2^16,
         broadcast_address |-> ParsedAddress(conn_str(conn, "broadcast_address", ""), Broadcast),
         bbmd_address |-> bbmd,
         bbmd_port |-> OrElse(conn_u64(conn, "bbmd_port"), 47808) % 2^16,
         bbmd_ttl_secs |-> OrElse(conn_u64(conn, "bbmd_ttl_secs"), 300) % 2^16,
         discovery_window_ms |-> OrElse(conn_u64(conn, "discovery_window_ms"), 3000),
         apdu_timeout_ms |-> OrElse(conn_u64(conn, "apdu_timeout_ms"), 2000),
         poll_concurrency |-> OrElse(conn_u64(conn, "poll_concurrency"), 8),
         device_backoff_max_secs |-> device_backoff_max(conn)]

\* parse_conn of Modbus; "none" for the host is an error.  Its conn_str does
\* not look for blanks, the filter on the host does.
ModbusSettings(conn) ==
    [host |-> IF Blank(Get(conn, "host")[2]) THEN "none" ELSE Get(conn, "host")[2],
     port |-> OrElse(conn_u64(conn, "port"), 502) % 2^16,
     unit_id |-> OrElse(conn_u64(conn, "unit_id"), 1) % 2^8,
     timeout_ms |-> AtLeast(OrElse(conn_u64(conn, "timeout_ms"), 1000), 100),
     scan_concurrency |-> AtLeast(OrElse(conn_u64(conn, "scan_concurrency"), 32), 1),
     max_hosts |-> AtLeast(OrElse(conn_u64(conn, "max_hosts"), 256), 1),
     browse_start |-> AtMost(OrElse(conn_u64(conn, "browse_start"), 0), 2^16 - 1),
     browse_count |->
        AtLeast(AtMost(OrElse(conn_u64(conn, "browse_count"), 32), 2^16 - 1), 1)]

\* connect of OPC UA; "error" is a refused combination or word.  Without a
\* user name the session is anonymous, whatever the password.
OpcuaSettings(conn) ==
    LET policy == Lower(conn_str(conn, "security_policy", "none"))
        mode == Lower(conn_str(conn, "security_mode", "none"))
        username == conn_str(conn, "username", "")
    IN  [endpoint_url |-> conn_str(conn, "endpoint_url", "none"),
         security_policy |->
            IF policy \notin POLICIES \/ (policy # "none" /\ mode = "none")
            THEN "error" ELSE policy,
         security_mode |-> IF mode \in MODES THEN mode ELSE "error",
         username |-> IF username = "" THEN "anonymous" ELSE username,
         password |-> IF username = "" THEN "" ELSE conn_str(conn, "password", "")]

\* What the adapter of a protocol makes of the stored connection.
Settings(id, conn, nics) ==
    CASE id = "bacnet" -> BacnetSettings(conn, nics)
      [] id = "modbus" -> ModbusSettings(conn)
      [] id = "opcua" -> OpcuaSettings(conn)

\* PollRequest::from_point: what is read, or why nothing is.  (A type or
\* property may be spelled with capitals; a number stands for itself.)
BacnetTarget(addressing) ==
    LET object_type == Lower(conn_str(addressing, "object_type", ""))
    IN  IF conn_u64(addressing, "device_instance") = None THEN <<"missing device_instance">>
        ELSE IF object_type \notin OBJECT_TYPES \cup DOMAIN Numerals
             THEN <<"unknown object type">>
        ELSE <<Decimal(conn_u64(addressing, "device_instance")), object_type,
               Decimal(OrElse(conn_u64(addressing, "object_instance"), 0)),
               Lower(conn_str(addressing, "property", "present_value"))>>

\* read_point: a key that is missing has a default, an empty text has none.
ModbusTarget(addressing) ==
    LET str(key, default) ==
            IF key \in DOMAIN addressing THEN json_scalar(addressing[key]) ELSE default
        scale == str("scale", "")
    IN  <<str("table", "holding"), Decimal(OrElse(conn_u64(addressing, "address"), 0) % 2^16),
          str("datatype", "u16"), str("word_order", "big"),
          IF scale \in Factors THEN scale ELSE "1.0">>

OpcuaTarget(addressing) == <<conn_str(addressing, "node_id", "invalid or missing node_id")>>

\* What the adapter of a protocol reads for a point, as texts.
Target(id, addressing) ==
    CASE id = "bacnet" -> BacnetTarget(addressing)
      [] id = "modbus" -> ModbusTarget(addressing)
      [] id = "opcua" -> OpcuaTarget(addressing)
=============================================================================
