---------------------------- MODULE SettingsForm -----------------------------
(***************************************************************************)
(* The connection and MQTT forms of the republisher GUI and the file they  *)
(* are kept in (src/crates/republish-core/src: app.rs, config.rs, mqtt.rs, *)
(* defaults.rs).  A text on the screen reaches the adapter or the MQTT     *)
(* client through several conversions: text -> JSON value -> file -> JSON  *)
(* value -> option; and a default may come from four places (the field's   *)
(* spec, the file's defaults, the adapter, the client).                    *)
(*                                                                         *)
(* Left to PointTable: the points, writes that fail, files that do not     *)
(* load.  A fixed set of enabled points stands for the table.              *)
(***************************************************************************)
EXTENDS FieldForms, PublishTopics

CONSTANTS
    Texts,         \* what may be typed into a field, by its kind
    NicLists,      \* sequences of interface addresses the system may report
    ReadableFiles, \* paths of PEM files that load
    FormFiles,     \* configuration files there may be: [version, protocol,
                   \*   connections, mqtt], the maps with only what is written
    EnvPassword,   \* what the variable named by password_env may hold
    SitePoints,    \* the enabled points: [device_key, address, tag_path]
    MaxEdits       \* bound: edits by the user, a text counting as two

VARIABLES
    protocol,      \* config.protocol
    connections,   \* config.connections
    mqtt,          \* config.mqtt
    conn_values,   \* the connection form
    buffers,       \* mqtt_port_buf and mqtt_keep_alive_buf
    disk,          \* the configuration file
    env,           \* the variable named by password_env
    stored,        \* history: the form that was last written to disk
    phase,         \* the last thing that happened
    edits          \* edits so far (for the bound)

settings == <<protocol, connections, mqtt, conn_values, buffers, disk, env, stored, phase, edits>>

NotSet == "(none)"     \* Option::None

AreValues(conns) == \A id \in DOMAIN conns : HasValues(conns[id])

-----------------------------------------------------------------------------
(* The file *)

TextKeys == {"host", "client_id", "topic_prefix", "health_topic", "device_topic_prefix"}
OptionalKeys == {"username", "password", "ca_cert_path", "client_cert_path",
                 "client_key_path", "client_key_passphrase"}
Flags == {"use_tls", "retain", "remember_secrets", "autostart"}

\* A generated client id is told from a configured one, not from another.
MqttDefaults ==
    [host |-> "localhost", port |-> 8883, use_tls |-> TRUE, client_id |-> "generated",
     topic_prefix |-> "Netix/Site", health_topic |-> "Netix/Site/_health/republisher",
     username |-> NotSet, password |-> NotSet, password_env |-> NotSet,
     ca_cert_path |-> NotSet, client_cert_path |-> NotSet, client_key_path |-> NotSet,
     client_key_passphrase |-> NotSet, remember_secrets |-> FALSE, retain |-> FALSE,
     keep_alive_secs |-> 30, payload_format |-> "netix_envelope",
     device_topic_prefix |-> "/Netix/Sim/Device", autostart |-> FALSE]

\* A file may have any keys, or none: what the types of its fields demand.
ASSUME SettingsAssumption ==
    \A f \in FormFiles :
        /\ f.version \in Nat
        /\ f.protocol \in Protocols \cup {""}
        /\ AreValues(f.connections)
        /\ \A key \in DOMAIN f.mqtt \cap {"port", "keep_alive_secs"} : f.mqtt[key] \in Numbers

\* Mutant of migrate: the version is not looked at.
migrate_always(file_version, conns) ==
    IF "bacnet" \in DOMAIN conns /\ Get(conns.bacnet, "port") = Number(47808)
    THEN [conns EXCEPT !.bacnet = With(@, "port", Number(0))] ELSE conns

\* A file of version 1 had BACnet's server port as its client port.
migrate(file_version, conns) ==
    IF file_version >= 2 \/ "bacnet" \notin DOMAIN conns THEN conns
    ELSE LET port == Get(conns.bacnet, "port")
             legacy_port == IF port[1] = "number" THEN OrElse(parse(port[2]), 47808) ELSE 47808
         IN  IF legacy_port = 47808
             THEN [conns EXCEPT !.bacnet = With(@, "port", Number(0))] ELSE conns

\* Deserialization: what is not written has its default.
Completed(written) ==
    [key \in DOMAIN MqttDefaults |->
        IF key \in DOMAIN written THEN written[key] ELSE MqttDefaults[key]]

resolve_password_env(loaded_mqtt, value) ==
    IF loaded_mqtt.password_env # NotSet /\ ~Blank(value)
    THEN [loaded_mqtt EXCEPT !.password = value] ELSE loaded_mqtt

\* load_from_path and the choice of the first protocol in App::new.
Loaded(f, value) ==
    [protocol |-> IF f.protocol = "" THEN "bacnet" ELSE f.protocol,
     connections |-> migrate(f.version, f.connections),
     mqtt |-> resolve_password_env(Completed(f.mqtt), value)]

sanitized_for_save(m) ==
    IF m.remember_secrets THEN m
    ELSE [m EXCEPT !.password = NotSet, !.client_key_passphrase = NotSet]

Connection == IF protocol \in DOMAIN connections THEN connections[protocol] ELSE <<>>

connection_strings(id, conns) ==
    Shown(caps[id].connection_fields, IF id \in DOMAIN conns THEN conns[id] ELSE <<>>)

\* What the screen shows of a loaded file.
FormOf(f, value) ==
    LET c == Loaded(f, value)
    IN  [protocol |-> c.protocol, conn_values |-> connection_strings(c.protocol, c.connections),
         mqtt |-> c.mqtt,
         buffers |-> [port |-> Decimal(c.mqtt.port), keep_alive |-> Decimal(c.mqtt.keep_alive_secs)]]

Form == [protocol |-> protocol, conn_values |-> conn_values, mqtt |-> mqtt, buffers |-> buffers]

-----------------------------------------------------------------------------
(* validate, and what an MQTT client is built from *)

IsSet(t) == t # NotSet /\ ~Blank(t)

ValidConfig(m) ==
    /\ ~Blank(m.host) /\ m.port # 0 /\ ~Blank(m.topic_prefix)
    /\ validate_publish_topic(Split(m.health_topic))
    /\ IsSet(m.client_cert_path) <=> IsSet(m.client_key_path)
    /\ IF m.payload_format = "netix_envelope"
       THEN /\ ~Blank(m.device_topic_prefix)
            /\ validate_publish_topic(device_envelope_topic(m.device_topic_prefix, "sample"))
       ELSE \A point \in SitePoints :
                validate_publish_topic(telemetry_topic(m.topic_prefix, point))

\* build_transport: files that do not load are errors.
build_transport(m) ==
    LET client_auth == m.client_cert_path # NotSet /\ m.client_key_path # NotSet
        needed == {m.ca_cert_path} \cup
                  (IF client_auth THEN {m.client_cert_path, m.client_key_path} ELSE {})
    IN  IF ~m.use_tls THEN [kind |-> "tcp", roots |-> NotSet, client |-> NotSet]
        ELSE IF ~((needed \ {NotSet}) \subseteq ReadableFiles)
             THEN [kind |-> "error", roots |-> NotSet, client |-> NotSet]
        ELSE [kind |-> "tls", roots |-> m.ca_cert_path,
              client |-> IF client_auth THEN m.client_cert_path ELSE NotSet]

\* RumqttPublisher::new: the keep-alive is at least 5 and at most what 16 bits
\* hold.
ClientOptions(m) ==
    [ok |-> m.keep_alive_secs < 2^16 /\ build_transport(m).kind # "error",
     address |-> <<m.host, m.port>>, client_id |-> m.client_id,
     keep_alive |-> AtLeast(m.keep_alive_secs, 5),
     transport |-> build_transport(m),
     username |-> IF m.username \in {NotSet, ""} THEN NotSet ELSE m.username,
     password |-> IF m.username \in {NotSet, ""} \/ m.password = NotSet THEN ""
                  ELSE m.password]

\* Every topic a run publishes to.
PublishedTopics(m) ==
    {Split(m.health_topic)} \cup
    {IF m.payload_format = "netix_envelope"
     THEN device_envelope_topic(m.device_topic_prefix, envelope_device_id(point))
     ELSE telemetry_topic(m.topic_prefix, point) : point \in SitePoints}

-----------------------------------------------------------------------------
(* The user *)

SettingsInit ==
    /\ env \in EnvPassword
    /\ disk \in FormFiles
    /\ "password_env" \notin DOMAIN disk.mqtt => env = ""
    /\ protocol = Loaded(disk, env).protocol
    /\ connections = Loaded(disk, env).connections
    /\ mqtt = Loaded(disk, env).mqtt
    /\ conn_values = connection_strings(protocol, connections)
    /\ buffers = FormOf(disk, env).buffers
    /\ stored = FormOf(disk, env)
    /\ phase = "loaded"
    /\ edits = 0

\* A change of the form by the user; a text counts double for the bound.
Edit(n) ==
    /\ edits + n <= MaxEdits
    /\ edits' = edits + n
    /\ phase' = "edited"
    /\ UNCHANGED <<disk, env, stored>>

persist_connection(values) ==
    connections' =
        With(connections, protocol, build_addressing(caps[protocol].connection_fields, values))

ProtocolSelected(id) ==
    /\ Edit(1)
    /\ protocol' = id
    /\ conn_values' = connection_strings(id, connections)
    /\ UNCHANGED <<connections, mqtt, buffers>>

\* render_field: what a field offers by its kind.
Rendered(key, spec) ==
    CASE spec.kind = "enum" -> spec.options
      [] spec.kind = "bool" -> {IF conn_values[key] = "true" THEN "false" ELSE "true"}
      [] OTHER -> Texts[spec.kind]

\* connect_page: BACnet's interface is picked from the list of the system's
\* unless all interfaces are searched.
Offered(key, spec) ==
    IF key = "interface" /\ conn_values["discover_all_interfaces"] # "true"
    THEN UNION {{nics[i] : i \in DOMAIN nics} : nics \in NicLists}
    ELSE Rendered(key, spec)

\* ConnFieldChanged and, for a checkbox, ConnBoolToggled.
ConnFieldChanged(key, t) ==
    /\ Edit(IF t \in {"true", "false"} THEN 1 ELSE 2)
    /\ conn_values' = [conn_values EXCEPT ![key] = t]
    /\ persist_connection(conn_values')
    /\ UNCHANGED <<protocol, mqtt, buffers>>

\* The button is there for the list of interfaces only.
RefreshNics(nics) ==
    /\ protocol = "bacnet" /\ conn_values["discover_all_interfaces"] # "true"
    /\ Blank(conn_values["interface"]) /\ nics # <<>>
    /\ Edit(2)
    /\ conn_values' = [conn_values EXCEPT !["interface"] = nics[1]]
    /\ persist_connection(conn_values')
    /\ UNCHANGED <<protocol, mqtt, buffers>>

EditMqttForm == Edit(2) /\ UNCHANGED <<protocol, connections, conn_values>>

non_empty(t) == IF Blank(t) THEN NotSet ELSE t

MqttText(key, t) ==
    /\ EditMqttForm /\ UNCHANGED buffers
    /\ mqtt' = [mqtt EXCEPT ![key] = IF key \in OptionalKeys THEN non_empty(t) ELSE t]

MqttFlag(key) ==
    /\ EditMqttForm /\ UNCHANGED buffers
    /\ mqtt' = [mqtt EXCEPT ![key] = ~@]

MqttPayloadFormat(format) ==
    /\ EditMqttForm /\ UNCHANGED buffers
    /\ mqtt' = [mqtt EXCEPT !.payload_format = format]

\* A text that does not parse stays on the screen and changes nothing.
MqttPort(t) ==
    /\ EditMqttForm
    /\ buffers' = [buffers EXCEPT !.port = t]
    /\ mqtt' = IF parse(t) \in 0..(2^16 - 1) THEN [mqtt EXCEPT !.port = parse(t)] ELSE mqtt

MqttKeepAlive(t) ==
    /\ EditMqttForm
    /\ buffers' = [buffers EXCEPT !.keep_alive = t]
    /\ mqtt' = IF parse(t) # None
               THEN [mqtt EXCEPT !.keep_alive_secs = AtLeast(parse(t), 1)] ELSE mqtt

\* save_config.  (A change of the theme saves too.)
SaveSettings ==
    /\ ValidConfig(mqtt)
    /\ disk' = [version |-> 2, protocol |-> protocol, connections |-> connections,
                mqtt |-> sanitized_for_save(mqtt)]
    /\ stored' = Form
    /\ phase' = "saved"
    /\ UNCHANGED <<protocol, connections, mqtt, conn_values, buffers, env, edits>>

\* start_republisher: the worker gets the connection and a copy of the MQTT
\* settings.
StartPublishing ==
    /\ ValidConfig(mqtt)
    /\ persist_connection(conn_values)
    /\ phase' = "started"
    /\ UNCHANGED <<protocol, mqtt, conn_values, buffers, disk, env, stored, edits>>

\* Discover, browse, scan and poll once: the connection alone is stored first.
StartOneShot ==
    /\ persist_connection(conn_values)
    /\ phase' = "one-shot"
    /\ UNCHANGED <<protocol, mqtt, conn_values, buffers, disk, env, stored, edits>>

\* Quit and App::new: autostart starts at once what is valid.
RestartApp ==
    LET c == Loaded(disk, env)
        starts == c.mqtt.autostart /\ ValidConfig(c.mqtt)
        values == connection_strings(c.protocol, c.connections)
    IN  /\ protocol' = c.protocol
        /\ mqtt' = c.mqtt
        /\ conn_values' = values
        /\ connections' =
              IF starts
              THEN With(c.connections, c.protocol,
                        build_addressing(caps[c.protocol].connection_fields, values))
              ELSE c.connections
        /\ buffers' = [port |-> Decimal(c.mqtt.port),
                       keep_alive |-> Decimal(c.mqtt.keep_alive_secs)]
        /\ phase' = IF starts THEN "autostarted" ELSE "loaded"
        /\ UNCHANGED <<disk, env, stored, edits>>

SettingsNext ==
    \/ \E id \in Protocols : ProtocolSelected(id)
    \/ \E key \in DOMAIN caps[protocol].connection_fields :
          \E t \in Offered(key, caps[protocol].connection_fields[key]) : ConnFieldChanged(key, t)
    \/ \E nics \in NicLists : RefreshNics(nics)
    \/ \E key \in TextKeys \cup OptionalKeys, t \in Texts["text"] : MqttText(key, t)
    \/ \E key \in Flags : MqttFlag(key)
    \/ \E format \in {"scalar", "netix_envelope"} : MqttPayloadFormat(format)
    \/ \E t \in Texts["u32"] : MqttPort(t) \/ MqttKeepAlive(t)
    \/ SaveSettings \/ StartPublishing \/ StartOneShot \/ RestartApp

-----------------------------------------------------------------------------
(* What the screen promises.  Meaning is written from the labels and help    *)
(* texts of the fields, not from the conversions.                            *)

Limits == [port |-> <<0, 65535>>, bbmd_port |-> <<0, 65535>>, bbmd_ttl_secs |-> <<0, 65535>>,
           unit_id |-> <<0, 255>>, timeout_ms |-> <<100, 2^30>>, scan_concurrency |-> <<1, 2^30>>,
           max_hosts |-> <<1, 2^30>>, browse_start |-> <<0, 65535>>, browse_count |-> <<1, 65535>>,
           device_backoff_max_secs |-> <<10, 2^30>>]

Within(key, n) == key \in DOMAIN Limits => n >= Limits[key][1] /\ n <= Limits[key][2]

AddressKeys == {"interface", "broadcast_address", "bbmd_address"}

\* Texts whose meaning nobody would argue about.  The others are cut to the
\* width of the option, raised to its minimum, or replaced by the default.
PlainText(key, spec, t) ==
    /\ spec.kind = "u32" => t = "" \/ (parse(t) # None /\ Within(key, parse(t)))
    /\ spec.kind = "bool" => t \in {"true", "false"}
    /\ spec.kind = "enum" => t \in spec.options \cup {""}
    /\ key \in AddressKeys => t \in Addresses \cup {""}
    /\ spec.kind \in {"text", "secret"} => t # " "

LeftBlank(key, nics) ==
    CASE key = "interface" -> IF nics = <<>> THEN Unspecified ELSE nics[1]
      [] key = "broadcast_address" -> Broadcast
      [] key = "username" -> "anonymous"
      [] key = "password" -> ""
      [] OTHER -> "none"

Meaning(key, spec, t, nics) ==
    CASE spec.kind = "u32" -> IF t = "" THEN parse(default_field_string(spec)) ELSE parse(t)
      [] spec.kind = "bool" -> t = "true"
      [] spec.kind = "enum" -> IF t = "" THEN default_field_string(spec) ELSE t
      [] OTHER -> IF t = "" THEN LeftBlank(key, nics) ELSE t

\* The fields that say nothing by themselves: a policy needs a mode (one that is
\* offered), and a password a user.
Silent(form) ==
    LET v == form.conn_values
    IN  IF form.protocol # "opcua" THEN {}
        ELSE (IF v["security_mode"] \in MODES \ {"none"} THEN {} ELSE {"security_policy"})
             \cup (IF Blank(v["username"]) THEN {"password"} ELSE {})

\* The adapter works with what the fields of the form say.
ConnectionIsUsed(form, conn) ==
    \A nics \in NicLists :
        LET used == Settings(form.protocol, conn, nics)
            specs == caps[form.protocol].connection_fields
        IN  \A key \in DOMAIN specs \ Silent(form) :
                PlainText(key, specs[key], form.conn_values[key]) =>
                    used[key] = Meaning(key, specs[key], form.conn_values[key], nics)

\* What is not always kept, and what is shown as it was typed.
Secrets == {"password", "client_key_passphrase"}
Typed == {"port", "keep_alive_secs"}

\* A number that was typed is used if the option can hold it; a keep-alive that
\* is too long is refused.
NumbersAreUsed(typedIn, options) ==
    LET port == parse(typedIn.port)
        keep_alive == parse(typedIn.keep_alive)
    IN  /\ port # None /\ port <= 65535 => options.address[2] = port
        /\ keep_alive >= 5 /\ keep_alive <= 65535 => options.keep_alive = keep_alive
        /\ keep_alive > 65535 => ~options.ok

\* Of a certificate and a key one alone is not used; the form does not save
\* such a pair.
TransportIsUsed(said, options) ==
    /\ options.ok /\ said.use_tls =>
          /\ options.transport.roots = said.ca_cert_path
          /\ (said.client_cert_path = NotSet <=> said.client_key_path = NotSet) =>
                options.transport.client = said.client_cert_path
    /\ ~said.use_tls => options.transport.kind = "tcp"

NamesAreUsed(said, options) ==
    /\ options.address[1] = said.host /\ options.client_id = said.client_id
    /\ options.username = IF said.username = "" THEN NotSet ELSE said.username

OthersAreKept(said, m) ==
    \A key \in DOMAIN MqttDefaults \ (Secrets \cup Typed) : m[key] = said[key]

\* The MQTT client works with what the MQTT form says, secrets aside.
ClientIsUsed(form, m) ==
    /\ NumbersAreUsed(form.buffers, ClientOptions(m))
    /\ TransportIsUsed(form.mqtt, ClientOptions(m))
    /\ NamesAreUsed(form.mqtt, ClientOptions(m))
    /\ OthersAreKept(form.mqtt, m)

SecretsAreKept(form, m) ==
    /\ m.password = (IF form.mqtt.password_env # NotSet /\ ~Blank(env) THEN env
                     ELSE IF form.mqtt.remember_secrets THEN form.mqtt.password ELSE NotSet)
    /\ m.client_key_passphrase =
           (IF form.mqtt.remember_secrets THEN form.mqtt.client_key_passphrase ELSE NotSet)

\* What was started uses the form as it is, and a publisher only topics that
\* may be published to.  (Poll once does not validate: it drops a client
\* certificate without a key, and publishes where a wildcard tells it to.)
FormIsUsed ==
    /\ phase \in {"started", "one-shot", "autostarted"} => ConnectionIsUsed(Form, Connection)
    /\ phase \in {"started", "autostarted"} =>
           /\ ClientIsUsed(Form, mqtt)
           /\ ClientOptions(mqtt).password =
                  (IF mqtt.username \in {NotSet, ""} \/ mqtt.password = NotSet THEN ""
                   ELSE mqtt.password)
           /\ \A topic \in PublishedTopics(mqtt) : validate_publish_topic(topic)

\* A restart brings back the form that was saved: the settings an adapter and
\* the client would use are those the form had shown; of the secrets, the
\* program writes those that shall be remembered.
FileIsUsed ==
    phase \in {"loaded", "autostarted"} =>
        /\ protocol = stored.protocol
        /\ ConnectionIsUsed(stored, Connection)
        /\ ClientIsUsed(stored, mqtt)
        /\ disk \notin FormFiles => SecretsAreKept(stored, mqtt)

\* The forms mean what they show, when used and when kept.
SettingsAreTrue == FormIsUsed /\ FileIsUsed
=============================================================================
