------------------------------ MODULE PointTable -----------------------------
(***************************************************************************)
(* The table of configured points: the point editor, "Clear all points",   *)
(* the scan of all objects and the configuration file                      *)
(* (src/crates/republish-core/src: app.rs, import.rs, config.rs and        *)
(* worker/mod.rs, spawn_scan_all_objects).                                 *)
(*                                                                         *)
(* The GUI handles one message at a time.  A scan runs in a thread of its  *)
(* own on a copy of the table made when it was started, and its merged     *)
(* table replaces the GUI's on the Tick that drains it.                    *)
(*                                                                         *)
(* The fields of the editor are not kept: any of them can be typed into at *)
(* any time, so what SavePoint stores is chosen when it is pressed.  Of a  *)
(* point the identity (its addressing), the tag path, the enabled flag and *)
(* the poll interval are kept; of the MQTT settings, whether they are      *)
(* valid.                                                                  *)
(***************************************************************************)
EXTENDS Integers, Sequences, FiniteSetsExt

CONSTANTS
    Ids,              \* point identities
    Tags,             \* tag paths
    NoTag,            \* the empty tag path
    Tables,           \* tables a configuration file may hold at the start
    Finds,            \* what a scan may import: sequences of [id, tag]
    EditDuringScan,   \* may the user edit the table before a scan is merged?
    MaxScans,         \* bound: scans running or not drained
    MaxPoints,        \* bound: points in the table, for the user's additions
    MaxMessages       \* bound: messages of the user

ASSUME TableAssumption ==
    /\ Ids # {}
    /\ NoTag \in Tags
    /\ Tables \subseteq Seq([id : Ids, tag : Tags, enabled : BOOLEAN, interval : {0, 10}])
    /\ Finds \subseteq Seq([id : Ids, tag : Tags])
    /\ EditDuringScan \in BOOLEAN
    /\ MaxScans \in Nat
    /\ MaxPoints \in Nat
    /\ MaxMessages \in Nat

VARIABLES
    points,       \* config.points
    mqttValid,    \* the MQTT part of config.validate
    file,         \* the configuration file: its points and mqttValid
    status,       \* the status line
    editing,      \* editing_index, 0 for None
    loaded,       \* history: the identity EditPoint loaded
    armed,        \* clear_points_armed
    jobs,         \* the tables that outstanding scans were given
    results,      \* BulkTagImport events sent and not drained
    draining,     \* a Tick is in drain_worker_events
    messages,     \* messages of the user so far (for the bound)
    sender        \* who sent the last message: "user" or "timer"

config == <<points, mqttValid>>
editor == <<editing, loaded>>
scans  == <<jobs, results, draining>>
vars   == <<config, file, status, editor, armed, scans, messages, sender>>

Points == [id : Ids, tag : Tags, enabled : BOOLEAN, interval : {0, 10}]

\* A write that failed may leave a file that does not load.
Broken == [points |-> <<>>, valid |-> FALSE, loads |-> FALSE]
Image(ps, valid) == [points |-> ps, valid |-> valid, loads |-> TRUE]

\* validate: an enabled point must have an interval.
Valid(ps, mqtt) == mqtt /\ \A i \in DOMAIN ps : ps[i].enabled => ps[i].interval # 0

Init ==
    /\ points \in Tables
    /\ mqttValid \in BOOLEAN
    /\ file = Image(points, mqttValid)
    /\ status = "loaded"
    /\ editing = 0
    /\ loaded \in {CHOOSE i \in Ids : TRUE}
    /\ armed = FALSE
    /\ jobs = <<>>
    /\ results = <<>>
    /\ draining = FALSE
    /\ messages = 0
    /\ sender = "timer"

-----------------------------------------------------------------------------
(* Merging *)

Positions(ps, id) == {i \in DOMAIN ps : ps[i].id = id}

\* Mutant of MergeOne: what was found replaces the configured point.
MergeReplaces(ps, found) ==
    LET new == [id |-> found.id, tag |-> found.tag, enabled |-> TRUE, interval |-> 10]
    IN  IF Positions(ps, found.id) = {} THEN Append(ps, new)
        ELSE [ps EXCEPT ![Max(Positions(ps, found.id))] = new]

\* One imported point: a new identity is appended, a known one (the last, if
\* there are several) takes the tag path unless that is empty.
MergeOne(ps, found) ==
    LET new == [id |-> found.id, tag |-> found.tag, enabled |-> TRUE, interval |-> 10]
    IN  IF Positions(ps, found.id) = {} THEN Append(ps, new)
        ELSE IF found.tag = NoTag THEN ps
        ELSE [ps EXCEPT ![Max(Positions(ps, found.id))].tag = found.tag]

\* merge_imported_points
Merge(existing, imported) ==
    LET merged[n \in 0..Len(imported)] ==
            IF n = 0 THEN existing ELSE MergeOne(merged[n - 1], imported[n])
    IN  merged[Len(imported)]

-----------------------------------------------------------------------------
(* The GUI *)

\* Every message of the user but ClearAllPoints cancels an armed clear.
UserMessage ==
    /\ ~draining
    /\ messages < MaxMessages
    /\ messages' = messages + 1
    /\ sender' = "user"

Disarm == armed' = FALSE

\* Messages that change the table; a patient user waits for a running scan.
TableMessage ==
    /\ UserMessage
    /\ EditDuringScan \/ (jobs = <<>> /\ results = <<>>)

\* Vec::remove
Without(s, k) == [j \in 1..(Len(s) - 1) |-> s[IF j < k THEN j ELSE j + 1]]

ResetEditor == editing' = 0 /\ UNCHANGED loaded

\* Mutant of WriteFile: the validation is left out.
WriteUnchecked(outcome) ==
    \/ outcome = "saved" /\ file' = Image(points', mqttValid')
    \/ outcome = "failed" /\ file' \in {file, Broken}

\* Mutant of WriteFile: an error of the write is not looked at.
WriteIgnoresErrors(outcome) ==
    \/ /\ outcome = "invalid" /\ ~Valid(points', mqttValid')
       /\ UNCHANGED file
    \/ /\ outcome = "saved" /\ Valid(points', mqttValid')
       /\ file' \in {Image(points', mqttValid'), file, Broken}

\* save_config: nothing is written if the configuration is invalid, and
\* save_to_path rewrites the file in place: when that fails the file is the
\* old one, or one that does not load.
WriteFile(outcome) ==
    \/ /\ outcome = "invalid" /\ ~Valid(points', mqttValid')
       /\ UNCHANGED file
    \/ /\ outcome = "saved" /\ Valid(points', mqttValid')
       /\ file' = Image(points', mqttValid')
    \/ /\ outcome = "failed" /\ Valid(points', mqttValid')
       /\ file' \in {file, Broken}

Outcomes == {"saved", "invalid", "failed"}

\* The outcome of the save stays on the status line ...
Save == \E outcome \in Outcomes : WriteFile(outcome) /\ status' = outcome

\* ... or the handler writes its own message over it.
SaveThenSay(message) ==
    /\ \E outcome \in Outcomes : WriteFile(outcome)
    /\ status' = message

Kept == UNCHANGED <<mqttValid, scans>>

EditPoint(i) ==
    /\ UserMessage /\ Disarm
    /\ i \in DOMAIN points
    /\ editing' = i
    /\ loaded' = points[i].id
    /\ UNCHANGED <<points, file, status>> /\ Kept

\* NewPoint and ProtocolSelected: the editor starts over.
NewPoint ==
    /\ UserMessage /\ Disarm
    /\ ResetEditor
    /\ UNCHANGED <<points, file, status>> /\ Kept

\* save_point: the edited entry is replaced if it exists, or one is appended;
\* the interval is at least 1.
SavePoint(p) ==
    /\ TableMessage /\ Disarm
    /\ p.interval # 0
    /\ IF editing # 0
       THEN points' = IF editing \in DOMAIN points
                      THEN [points EXCEPT ![editing] = p] ELSE points
       ELSE Len(points) < MaxPoints /\ points' = Append(points, p)
    /\ ResetEditor
    /\ Kept
    /\ Save

\* Mutant of DeletePoint: the editor keeps its index.
DeleteKeepsEditor(i) ==
    /\ TableMessage /\ Disarm
    /\ i \in DOMAIN points
    /\ points' = Without(points, i)
    /\ UNCHANGED editor
    /\ Kept
    /\ Save

DeletePoint(i) ==
    /\ TableMessage /\ Disarm
    /\ i \in DOMAIN points
    /\ points' = Without(points, i)
    /\ ResetEditor
    /\ Kept
    /\ Save

TogglePoint(i) ==
    /\ TableMessage /\ Disarm
    /\ i \in DOMAIN points
    /\ points' = [points EXCEPT ![i].enabled = ~@]
    /\ UNCHANGED editor
    /\ Kept
    /\ Save

\* upsert_point: the first entry of that identity is replaced as a whole.
upsert_point(new) ==
    IF Positions(points, new.id) = {}
    THEN Len(points) < MaxPoints /\ points' = Append(points, new)
    ELSE points' = [points EXCEPT ![Min(Positions(points, new.id))] = new]

AddBrowsedPoint(id, tag) ==
    /\ TableMessage /\ Disarm
    /\ upsert_point([id |-> id, tag |-> tag, enabled |-> TRUE, interval |-> 10])
    /\ UNCHANGED editor
    /\ Kept
    /\ SaveThenSay("added")

\* ClearAllPoints: the first press arms, the second clears.
ArmClear ==
    /\ TableMessage
    /\ points # <<>> /\ ~armed
    /\ armed' = TRUE
    /\ status' = "armed"
    /\ UNCHANGED <<points, file, editor>> /\ Kept

Clear ==
    /\ TableMessage /\ Disarm
    /\ points # <<>> /\ armed
    /\ points' = <<>>
    /\ ResetEditor
    /\ Kept
    /\ SaveThenSay("cleared")

\* Typing into the MQTT settings saves nothing by itself.
EditMqtt ==
    /\ UserMessage /\ Disarm
    /\ mqttValid' = ~mqttValid
    /\ UNCHANGED <<points, file, status, editor, scans>>

SaveConfig ==
    /\ UserMessage /\ Disarm
    /\ UNCHANGED <<points, editor>> /\ Kept
    /\ Save

\* start_scan_all: the thread gets a copy of the table.
ScanAllObjects ==
    /\ TableMessage /\ Disarm
    /\ Len(jobs) + Len(results) < MaxScans
    /\ jobs' = Append(jobs, points)
    /\ status' = "scanning"
    /\ UNCHANGED <<config, file, editor, results, draining>>

\* Quitting and starting again: what does not load is replaced by defaults.
\* Threads and their channel are gone.
Restart ==
    /\ UserMessage /\ Disarm
    /\ points' = file.points
    /\ mqttValid' = (file.valid \/ ~file.loads)
    /\ ResetEditor
    /\ jobs' = <<>>
    /\ results' = <<>>
    /\ status' = "loaded"
    /\ UNCHANGED <<file, draining>>

\* Tick: drain_worker_events handles all there is before the next message.
\* Every result replaces the table and saves it.
Tick ==
    /\ sender' = "timer"
    /\ Disarm
    /\ draining' = (Len(results) > 1)
    /\ UNCHANGED <<mqttValid, editor, jobs, messages>>
    /\ IF results = <<>>
       THEN UNCHANGED <<points, file, status, results>>
       ELSE /\ points' = Head(results)
            /\ results' = Tail(results)
            /\ SaveThenSay("imported")

\* Mutant of ScanEnds: the thread sends its table and goes on.
ScanSendsAgain ==
    /\ \E k \in DOMAIN jobs, found \in Finds :
         results' = Append(results, Merge(jobs[k], found))
    /\ UNCHANGED <<config, file, status, editor, armed, jobs, draining, messages, sender>>

\* A scan thread has browsed its devices; a failed browse finds less.
ScanEnds ==
    /\ \E k \in DOMAIN jobs, found \in Finds :
         /\ jobs' = Without(jobs, k)
         /\ results' = Append(results, Merge(jobs[k], found))
    /\ UNCHANGED <<config, file, status, editor, armed, draining, messages, sender>>

-----------------------------------------------------------------------------
User ==
    \/ \E i \in DOMAIN points : EditPoint(i) \/ DeletePoint(i) \/ TogglePoint(i)
    \/ \E p \in Points : SavePoint(p)
    \/ \E id \in Ids, tag \in Tags : AddBrowsedPoint(id, tag)
    \/ NewPoint \/ ArmClear \/ Clear \/ EditMqtt \/ SaveConfig
    \/ ScanAllObjects \/ Restart

Next == User \/ Tick \/ ScanEnds

Spec == Init /\ [][Next]_vars

-----------------------------------------------------------------------------
(* Properties *)

TypeOK ==
    /\ points \in Seq(Points)
    /\ mqttValid \in BOOLEAN
    /\ file \in [points : Seq(Points), valid : BOOLEAN, loads : BOOLEAN]
    /\ status \in Outcomes \cup {"loaded", "added", "cleared", "armed", "scanning", "imported"}
    /\ editing \in Nat
    /\ loaded \in Ids
    /\ armed \in BOOLEAN
    /\ jobs \in Seq(Seq(Points)) /\ results \in Seq(Seq(Points))
    /\ Len(jobs) + Len(results) <= MaxScans
    /\ draining \in BOOLEAN
    /\ messages \in 0..MaxMessages
    /\ sender \in {"user", "timer"}

\* The point that SavePoint would replace is the one the editor was loaded
\* with: no deletion, clear, import or restart leaves the index behind.
EditorNamesLoaded ==
    editing # 0 => editing \in DOMAIN points /\ points[editing].id = loaded

\* "Configuration saved" stands on the status line only while the file holds
\* this very table: a restart would bring it back.
SavedMeansSaved ==
    status = "saved" => file.loads /\ file.points = points

\* No save turns a file with a valid configuration into one without, except a
\* write that broke it.
FileStaysValid ==
    [][(file.loads /\ Valid(file.points, file.valid))
         => (~file.loads \/ Valid(file.points, file.valid))']_vars

\* The merge of a scan: "browse every discovered device and merge results into
\* the point table".  Every point of the table keeps its place, identity,
\* enabled flag and interval, and what is added is new and distinct.
ImportKeepsTable ==
    [][(sender' = "timer" /\ results # <<>> /\ results' = Tail(results)) =>
         /\ \A i \in DOMAIN points :
              /\ i \in DOMAIN points'
              /\ [points'[i] EXCEPT !.tag = points[i].tag] = points[i]
         /\ \A i, j \in DOMAIN points' :
              (j > Len(points) /\ i # j) => points'[i].id # points'[j].id]_vars

\* "Press 'Confirm clear' again to remove the configured points.  Any other
\* action cancels": an armed clear is cancelled by an action of the user.
OnlyTheUserCancels ==
    [][(armed /\ ~armed') => sender' = "user"]_vars
=============================================================================
