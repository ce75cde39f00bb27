----------------------------- MODULE PointForms ------------------------------
(***************************************************************************)
(* The addressing of points in the GUI: the discoveries and browses that   *)
(* find points and may answer after another protocol was selected, what    *)
(* the user adds of them, what the point editor shows of a point under the *)
(* selected protocol, and what it stores                                   *)
(* (src/crates/republish-core/src/app.rs; what a browse finds and what an  *)
(* adapter reads are in src/crates/proto-*/src/republish/mod.rs).          *)
(*                                                                         *)
(* The other fields of a point, the index of the editor and the file are   *)
(* in PointTable.  Of a device it matters which adapter found it: what a   *)
(* browse finds is of the adapter that browses, whoever found the device.  *)
(***************************************************************************)
EXTENDS FieldForms, Sequences

CONSTANTS
    PointFiles,   \* points a file may hold: sequences of [home, addressing]
    Found,        \* addressings the browse of a protocol may find
    AddressTexts, \* what may be typed into a field
    MaxEntries,   \* bound: points in the table
    MaxTyped      \* bound: selections, searches, and texts typed, which count twice

\* A file may leave out any field of a point, and have others.
ASSUME EntriesAssumption ==
    /\ \A f \in PointFiles :
          /\ f \in Seq({f[i] : i \in DOMAIN f})
          /\ \A i \in DOMAIN f : HasValues(f[i].addressing)
    /\ \A id \in Protocols : \A addressing \in Found[id] : HasValues(addressing)

VARIABLES
    entries,      \* config.points; home: the protocol it was made for (history)
    picked,       \* config.protocol
    devices,      \* whose discovery filled the list of devices, or "nobody"
    browsed,      \* the browsed points: [home, addressing]
    searches,     \* discoveries and browses at work: <<kind, protocol>>; two
                  \*   of one kind and protocol are taken in turn
    late,         \* history: a search of another protocol answered since the
                  \*   selection
    fields,       \* pe_addr_values
    at,           \* editing_index, 0 for None
    touched,      \* history: a field was typed into since the point was loaded
    typed         \* for the bound

lists == <<devices, browsed, searches, late>>
pointForms == <<entries, picked, lists, fields, at, touched, typed>>

addressing_fields == caps[picked].addressing_fields

Counts(n) == typed + n <= MaxTyped /\ typed' = typed + n

EditorStartsOver(id) ==
    /\ at' = 0
    /\ fields' = Shown(caps[id].addressing_fields, <<>>)
    /\ touched' = FALSE

PointFormsInit ==
    /\ entries \in PointFiles
    /\ picked \in Protocols
    /\ at = 0
    /\ devices = "nobody" /\ browsed = {} /\ searches = {} /\ late = FALSE
    /\ fields = Shown(addressing_fields, <<>>)
    /\ touched = FALSE
    /\ typed = 0

\* Mutant of SelectProtocol: the browsed points stay.
SelectKeepingBrowsed(id) ==
    /\ Counts(1)
    /\ picked' = id
    /\ EditorStartsOver(id)
    /\ devices' = "nobody" /\ late' = FALSE
    /\ UNCHANGED <<entries, browsed, searches>>

\* ProtocolSelected empties the lists and the editor, whatever it was loaded
\* with; searches at work go on.
SelectProtocol(id) ==
    /\ Counts(1)
    /\ picked' = id
    /\ EditorStartsOver(id)
    /\ devices' = "nobody" /\ browsed' = {} /\ late' = FALSE
    /\ UNCHANGED <<entries, searches>>

Begin(kind) ==
    /\ Counts(1)
    /\ <<kind, picked>> \notin searches
    /\ searches' = searches \cup {<<kind, picked>>}
    /\ UNCHANGED <<entries, picked, late, fields, at, touched>>

start_discovery == Begin("discover") /\ devices' = "nobody" /\ UNCHANGED browsed

\* One of the devices is browsed, by the adapter of now.
start_browse ==
    /\ devices # "nobody"
    /\ Begin("browse") /\ browsed' = {} /\ UNCHANGED devices

Ends(search) ==
    /\ searches' = searches \ {search}
    /\ UNCHANGED <<entries, picked, fields, at, touched, typed>>

\* An error is only logged.
SearchFails(search) == Ends(search) /\ UNCHANGED <<devices, browsed, late>>

\* Devices and Points are shown whatever is selected by then.
spawn_discovery(id) ==
    /\ Ends(<<"discover", id>>)
    /\ devices' \in {id, "nobody"}
    /\ late' = (late \/ id # picked)
    /\ UNCHANGED browsed

spawn_browse(id) ==
    /\ Ends(<<"browse", id>>)
    /\ \E found \in {{}, Found[id]} :
          browsed' = {[home |-> id, addressing |-> addressing] : addressing \in found}
    /\ late' = (late \/ id # picked)
    /\ UNCHANGED devices

NewEntry == EditorStartsOver(picked) /\ UNCHANGED <<entries, picked, lists, typed>>

\* load_point_into_editor: the fields of the selected protocol, each with the
\* stored value or the default.
LoadEntry(i) ==
    /\ at' = i
    /\ fields' = Shown(addressing_fields, entries[i].addressing)
    /\ touched' = FALSE
    /\ UNCHANGED <<entries, picked, lists, typed>>

TypeAddress(key, t) ==
    /\ Counts(2)
    /\ fields' = [fields EXCEPT ![key] = t]
    /\ touched' = TRUE
    /\ UNCHANGED <<entries, picked, lists, at>>

\* save_point: the addressing is made from the form alone; nothing of the old
\* one is kept.
StoreEntry ==
    LET new == [home |-> picked, addressing |-> build_addressing(addressing_fields, fields)]
    IN  /\ IF at = 0 THEN Len(entries) < MaxEntries /\ entries' = Append(entries, new)
           ELSE entries' = [entries EXCEPT ![at] = new]
        /\ EditorStartsOver(picked)
        /\ UNCHANGED <<picked, lists, typed>>

\* add_browsed_point and upsert_point: the first point of that identity is
\* replaced.
AddFound(found) ==
    LET same == {i \in DOMAIN entries :
                    Identity(entries[i].addressing) = Identity(found.addressing)}
    IN  /\ found \in browsed
        /\ IF same = {} THEN Len(entries) < MaxEntries /\ entries' = Append(entries, found)
           ELSE entries' = [entries EXCEPT ![CHOOSE i \in same : \A j \in same : i <= j] = found]
        /\ UNCHANGED <<picked, lists, fields, at, touched, typed>>

PointFormsNext ==
    \/ \E id \in Protocols : SelectProtocol(id)
    \/ \E i \in DOMAIN entries : LoadEntry(i)
    \/ \E key \in DOMAIN fields :
          \E t \in AddressTexts \cup addressing_fields[key].options : TypeAddress(key, t)
    \/ \E found \in browsed : AddFound(found)
    \/ start_discovery \/ start_browse
    \/ \E search \in searches : SearchFails(search)
    \/ \E id \in Protocols :
          \/ <<"discover", id>> \in searches /\ spawn_discovery(id)
          \/ <<"browse", id>> \in searches /\ spawn_browse(id)
    \/ NewEntry \/ StoreEntry

-----------------------------------------------------------------------------
\* The editor was opened and stored: the only ways back to no index are this
\* one, which changes the entry, and starting over, which changes none.
Stored == at # 0 /\ at' = 0 /\ picked' = picked

\* The fields without which a point is not read; the others have defaults, the
\* same in the form and in the adapter.
Required == [bacnet |-> {"device_instance", "object_type"}, modbus |-> {}, opcua |-> {}]

\* Loading a point under the protocol it was made for and storing it again,
\* to rename it, say, leaves what the adapter reads; and a point that has the
\* protocol's fields keeps its identity, on which its status and its place in
\* the poll hang, if its numbers are numbers ("07" becomes 7).  (A browsed
\* Modbus point has no scale and gets a new identity.)
UntouchedIsKept ==
    LET old == entries[at].addressing
        new == entries'[at].addressing
    IN  (~touched /\ entries[at].home = picked) =>
            /\ Required[picked] \subseteq DOMAIN old => Target(picked, new) = Target(picked, old)
            /\ (DOMAIN old = DOMAIN addressing_fields
                /\ \A key \in DOMAIN old :
                      addressing_fields[key].kind = "u32" => old[key][1] = "number") =>
                   Identity(new) = Identity(old)

PlainAddress(key, spec, t) ==
    /\ spec.kind = "u32" => parse(t) # None /\ (key = "address" => parse(t) < 2^16)
    /\ spec.kind = "enum" => t \in spec.options
    /\ key = "scale" => t \in Factors
    /\ spec.kind = "text" /\ key # "scale" => t \notin DOMAIN LowerOf /\ ~Blank(t)

\* What was typed is what will be read.
ShownIsStored ==
    LET new == entries'[at]
        order == CASE picked = "bacnet" -> <<"device_instance", "object_type",
                                             "object_instance", "property">>
                   [] picked = "modbus" -> <<"table", "address", "datatype",
                                             "word_order", "scale">>
                   [] picked = "opcua" -> <<"node_id">>
        plain(key) == PlainAddress(key, addressing_fields[key], fields[key])
        shown(key) == IF addressing_fields[key].kind = "u32"
                      THEN Decimal(parse(fields[key])) ELSE fields[key]
    IN  entries' # entries /\ (\A key \in DOMAIN fields : plain(key)) =>
            \A i \in DOMAIN order : Target(picked, new.addressing)[i] = shown(order[i])

\* A point of another protocol only gets into the table from a browse that
\* answered after the selection.
AddedInKind ==
    (entries' # entries /\ ~late) =>
        \A i \in DOMAIN entries' :
            (i \in DOMAIN entries /\ entries'[i] = entries[i]) \/ entries'[i].home = picked

\* Storing a point that was loaded changes what was typed and nothing else,
\* and what is added is of the selected protocol.
EditorIsTrue == [][(Stored => UntouchedIsKept /\ ShownIsStored) /\ AddedInKind]_pointForms
=============================================================================
