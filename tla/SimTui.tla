------------------------------- MODULE SimTui -------------------------------
(***************************************************************************)
(* The terminal UI of the simulator (src/crates/sim-core/src/tui/) and the *)
(* configuration file it rewrites (config.rs, config/minimal.rs).  A key   *)
(* is handled as a whole before the next is read; the list of devices does *)
(* not change while the program runs.  Texts are kept where something is   *)
(* looked up by them (the filter); of the others, the length is kept.      *)
(***************************************************************************)
EXTENDS SimConfig

CONSTANTS
    Bundled,   \* the sample configuration of the program: [templates, block]
    Rows,      \* names of the listed devices, each the sequence of its letters
    Letters,   \* letters that are typed into the filter
    VISIBLE,   \* rows of the list that are kept in view: 20
    MaxText,   \* bound: length of a text
    MaxScroll  \* bound: lines the detail is scrolled

\* The sample has the templates the wizard uses, in blocks of a hundred.
SimTuiAssumption ==
    /\ {"chiller", "chw_pump", "cooling_tower", "boiler", "hhw_pump", "ahu_large", "ahu_small",
        "vav_office", "fcu_residential", "plant_meter", "tenant_meter", "water_meter"}
           \subseteq DOMAIN Bundled.templates
    /\ Bundled.block = 100
    /\ Rows \in Seq(Seq(STRING)) /\ MaxText \in Nat

VARIABLES
    screen,    \* "starting", "running", "quit", "failed", "restarted" or "elsewhere"
    file,      \* what the file holds: [holds, options]
    loaded,    \* what the program, or the one it started, has loaded
    tab, modal,
    filter, filter_mode, list_index, scroll, detail,
    selected,  \* entry of the config tab
    wizard

list == <<filter, filter_mode, list_index, scroll, detail>>
tui == <<screen, loaded, file, tab, modal, list, selected, wizard>>

Fields == <<"BuildingName", "Location", "Size", "Plant", "Ahus", "Vavs", "Meters", "Save">>
TextFields == {"BuildingName", "Location"}

\* WizardState::default
DefaultWizard ==
    [BuildingName |-> MaxText, Location |-> 0, Size |-> "Small",
     Plant |-> TRUE, Ahus |-> TRUE, Vavs |-> TRUE, Meters |-> FALSE,
     selected |-> 1, editing_text |-> FALSE]

Sample == [holds |-> "sample", options |-> DefaultWizard]
Minimal(options) ==
    [holds |-> "minimal", options |-> [options EXCEPT !.selected = 1, !.editing_text = FALSE]]
File(holds) == [holds |-> holds, options |-> DefaultWizard]

-----------------------------------------------------------------------------
(* SimulatorConfig::from_minimal *)

inst(template, prefix, count) == [template |-> template, prefix |-> prefix, count |-> count]
When(condition, instances) == IF condition THEN instances ELSE <<>>

from_minimal(opts) ==
    LET medium == opts.Size = "Medium"
        scale  == IF medium THEN 2 ELSE 1
        plant  == <<inst("chiller", <<"CH">>, scale), inst("chw_pump", <<"CHWP">>, scale * 2),
                    inst("cooling_tower", <<"CT">>, scale)>>
                  \o When(medium, <<inst("boiler", <<"BLR">>, 1), inst("hhw_pump", <<"HHWP">>, 2)>>)
        ahus   == <<inst("ahu_large", <<"AHU", "L">>, IF medium THEN 6 ELSE 2)>>
                  \o When(medium, <<inst("ahu_small", <<"AHU", "S">>, 2)>>)
        vavs   == <<inst("vav_office", <<"VAV", "OFC">>, IF medium THEN 30 ELSE 10)>>
                  \o When(medium, <<inst("fcu_residential", <<"FCU", "RES">>, 10)>>)
        meters == <<inst("plant_meter", <<"PLANT", "MTR">>, scale)>>
                  \o When(medium, <<inst("tenant_meter", <<"TNT", "MTR">>, 5),
                                    inst("water_meter", <<"WTR", "MTR">>, 2)>>)
    IN  [templates |-> Bundled.templates, block |-> Bundled.block,
         instances |-> When(opts.Plant, plant) \o When(opts.Ahus, ahus)
                       \o When(opts.Vavs, vavs) \o When(opts.Meters, meters)]

-----------------------------------------------------------------------------
(* Start *)

\* A file somebody wrote is one that loads; a cut one is left by a failed write.
TuiInit ==
    /\ screen = "starting"
    /\ file \in {File("missing"), File("written"), File("cut")}
    /\ loaded = File("missing")
    /\ tab = "Status" /\ modal = "None"
    /\ filter = <<>> /\ filter_mode = FALSE /\ list_index = 0 /\ scroll = 0 /\ detail = 0
    /\ selected = 0
    /\ wizard = DefaultWizard

\* ensure_config_file
Ensured == IF file.holds = "missing" THEN Sample ELSE file

\* bootstrap_config
Bootstrap ==
    /\ screen = "starting"
    /\ file' = Ensured
    /\ IF Ensured.holds = "cut"
       THEN screen' = "failed" /\ UNCHANGED loaded
       ELSE screen' = "running" /\ loaded' = Ensured
    /\ UNCHANGED <<tab, modal, list, selected, wizard>>

\* restart_process starts the program without the arguments of this one: a path
\* that was an argument is forgotten, one from the environment or the default found
\* again.  If it cannot be started, the error ends this program.
Restart ==
    \/ screen' = "restarted" /\ loaded' = Ensured
    \/ screen' = "elsewhere" /\ loaded' = File("written")
    \/ screen' = "failed" /\ UNCHANGED loaded

-----------------------------------------------------------------------------
(* handle_key without a dialog *)

Open == screen = "running" /\ modal = "None"

Tabs == <<"Status", "Devices", "Config">>
next_tab(t) == Tabs[((CHOOSE i \in 1..3 : Tabs[i] = t) % 3) + 1]
prev_tab(t) == next_tab(next_tab(t))

\* q, also while a filter is typed, and Ctrl-C, also in a dialog.
Quit ==
    /\ screen = "running"
    /\ screen' = "quit"
    /\ UNCHANGED <<loaded, file, tab, modal, list, selected, wizard>>

SwitchTab ==
    /\ Open
    /\ tab' \in {next_tab(tab), prev_tab(tab)}
    /\ UNCHANGED <<screen, loaded, file, modal, list, selected, wizard>>

\* Handled before the tab sees it: the scroll of the detail stays.
Escape ==
    /\ Open
    /\ filter_mode' = FALSE /\ detail' = 0
    /\ UNCHANGED <<screen, loaded, file, tab, modal, filter, list_index, scroll, selected, wizard>>

-----------------------------------------------------------------------------
(* The devices tab *)

Devices == Open /\ tab = "Devices"
DevicesUnchanged == UNCHANGED <<screen, loaded, file, tab, modal, selected, wizard>>

Occurs(name, text) == \E i, j \in 0..Len(name) : SubSeq(name, i + 1, j) = text

\* The devices that the filter leaves, how many they are, and the one in a row.
filtered_devices(text) == {d \in DOMAIN Rows : text = <<>> \/ Occurs(Rows[d], text)}
Length(text) == Cardinality(filtered_devices(text))
InRow(text, n) ==
    CHOOSE d \in filtered_devices(text) :
        Cardinality({e \in filtered_devices(text) : e < d}) = n

\* A filter that is typed under the selection.
EditFilterInPlace ==
    /\ Devices /\ filter_mode
    /\ \/ filter' = IF filter = <<>> THEN <<>> ELSE Front(filter)
       \/ Len(filter) < MaxText /\ \E c \in Letters : filter' = Append(filter, c)
    /\ UNCHANGED <<list_index, scroll, filter_mode, detail>>
    /\ DevicesUnchanged

EditFilter ==
    /\ Devices /\ filter_mode
    /\ \/ filter' = IF filter = <<>> THEN <<>> ELSE Front(filter)
       \/ Len(filter) < MaxText /\ \E c \in Letters : filter' = Append(filter, c)
    /\ list_index' = 0 /\ scroll' = 0
    /\ UNCHANGED <<filter_mode, detail>>
    /\ DevicesUnchanged

EndFilter ==
    /\ Devices /\ filter_mode
    /\ filter_mode' = FALSE
    /\ UNCHANGED <<filter, list_index, scroll, detail>> /\ DevicesUnchanged

ScrollDetail ==
    /\ Devices /\ ~filter_mode /\ detail # 0
    /\ \/ scroll' = Max({scroll - 1, 0})
       \/ scroll < MaxScroll /\ scroll' = scroll + 1
    /\ UNCHANGED <<filter, filter_mode, list_index, detail>> /\ DevicesUnchanged

InList == Devices /\ ~filter_mode /\ detail = 0

BeginFilter ==
    /\ InList
    /\ filter_mode' = TRUE
    /\ UNCHANGED <<filter, list_index, scroll, detail>> /\ DevicesUnchanged

SelectUp ==
    /\ InList
    /\ list_index' = Max({list_index - 1, 0})
    /\ scroll' = Min({scroll, list_index'})
    /\ UNCHANGED <<filter, filter_mode, detail>> /\ DevicesUnchanged

SelectDown ==
    /\ InList
    /\ list_index' = IF list_index + 1 < Length(filter)
                     THEN list_index + 1 ELSE list_index
    /\ scroll' = IF list_index' >= scroll + VISIBLE
                 THEN Max({list_index' - (VISIBLE - 1), 0}) ELSE scroll
    /\ UNCHANGED <<filter, filter_mode, detail>> /\ DevicesUnchanged

OpenDetail ==
    /\ InList /\ list_index < Length(filter)
    /\ detail' = InRow(filter, list_index) /\ scroll' = 0
    /\ UNCHANGED <<filter, filter_mode, list_index>> /\ DevicesUnchanged

DevicesKey ==
    \/ EditFilter \/ EndFilter \/ ScrollDetail
    \/ BeginFilter \/ SelectUp \/ SelectDown \/ OpenDetail

-----------------------------------------------------------------------------
(* The config tab and its dialogs *)

SelectEntry ==
    /\ Open /\ tab = "Config"
    /\ selected' \in {Max({selected - 1, 0}), Min({selected + 1, 1})}
    /\ UNCHANGED <<screen, loaded, file, tab, modal, list, wizard>>

\* The wizard starts from its defaults.
OpenDialog ==
    /\ Open /\ tab = "Config"
    /\ modal' = IF selected = 0 THEN "ConfirmReset" ELSE "Wizard"
    /\ wizard' = DefaultWizard
    /\ UNCHANGED <<screen, loaded, file, tab, list, selected>>

\* Esc, and n in the question.  (Nobody reads a wizard that is closed.)
CloseDialog ==
    /\ screen = "running"
    /\ modal = "ConfirmReset" \/ (modal = "Wizard" /\ ~wizard.editing_text)
    /\ modal' = "None" /\ wizard' = DefaultWizard
    /\ UNCHANGED <<screen, loaded, file, tab, list, selected>>

\* std::fs::write: a write that fails may have cut the file, and ends the UI.
Write(contents) ==
    \/ /\ file' = contents /\ modal' = "PostSave"
       /\ UNCHANGED screen
    \/ /\ file' \in {file, File("cut")} /\ screen' = "failed"
       /\ UNCHANGED modal

ConfirmReset ==
    /\ screen = "running" /\ modal = "ConfirmReset"
    /\ Write(Sample)
    /\ UNCHANGED <<loaded, tab, list, selected, wizard>>

InWizard == screen = "running" /\ modal = "Wizard"
WizardUnchanged == UNCHANGED <<screen, loaded, file, tab, modal, list, selected>>
Field == Fields[wizard.selected]

\* next_field and prev_field
MoveField ==
    /\ InWizard /\ ~wizard.editing_text
    /\ \E step \in {0, Len(Fields) - 2} :
          wizard' = [wizard EXCEPT !.selected = ((@ + step) % Len(Fields)) + 1]
    /\ WizardUnchanged

EditText ==
    /\ InWizard /\ Field \in TextFields
    /\ \/ wizard.editing_text /\ wizard' = [wizard EXCEPT ![Field] = Max({@ - 1, 0})]
       \/ wizard.editing_text /\ wizard' = [wizard EXCEPT ![Field] = Min({@ + 1, MaxText})]
       \/ wizard' = [wizard EXCEPT !.editing_text = ~@]
    /\ WizardUnchanged

toggle_field ==
    /\ InWizard /\ Field \notin TextFields \cup {"Save"}
    /\ wizard' = [wizard EXCEPT ![Field] =
                     IF Field = "Size" THEN (IF @ = "Small" THEN "Medium" ELSE "Small") ELSE ~@]
    /\ WizardUnchanged

SaveWizard ==
    /\ InWizard /\ Field = "Save"
    /\ Write(Minimal(wizard))
    /\ UNCHANGED <<loaded, tab, list, selected, wizard>>

\* handle_post_save: nothing leads back.
PostSaveRestart ==
    /\ screen = "running" /\ modal = "PostSave"
    /\ Restart
    /\ UNCHANGED <<file, tab, modal, list, selected, wizard>>

-----------------------------------------------------------------------------
TuiNext ==
    \/ Bootstrap \/ Quit \/ SwitchTab \/ Escape \/ DevicesKey
    \/ SelectEntry \/ OpenDialog \/ CloseDialog \/ ConfirmReset
    \/ MoveField \/ EditText \/ toggle_field \/ SaveWizard \/ PostSaveRestart

\* The screen tells the truth.  The selection is a row of the filtered list; a
\* detail that is open is of the device the selection was on.  Where the UI offers
\* to restart, the file holds what was confirmed, its devices can be expanded, and
\* the restarted program, unless the path was an argument, loads just that.
ScreenIsTrue ==
    /\ list_index = 0 \/ list_index < Length(filter)
    /\ detail # 0 => InRow(filter, list_index) = detail
    /\ modal = "PostSave" =>
          /\ file = IF selected = 0 THEN Sample ELSE Minimal(wizard)
          /\ Expandable(from_minimal(file.options))
    /\ screen = "restarted" => loaded = file
=============================================================================
