--------------------------- MODULE SimulatorProofs ---------------------------
(***************************************************************************)
(* Proofs about the simulator.                                             *)
(*                                                                         *)
(* The screen: for any devices, filters and files, the selection is in the *)
(* list, the detail is of the selected device, and the offer to restart is *)
(* of the file that was confirmed.                                         *)
(*                                                                         *)
(* The servers: for any configuration whose ids fit, whatever is asked and *)
(* however requests, ticks and listeners interleave, a BACnet or Modbus    *)
(* answer is of one tick, and so is the cache of the OPC UA server, whose  *)
(* answers never go back in time.                                          *)
(*                                                                         *)
(* The values: for any configuration and whatever chance adds, points stay *)
(* where their profiles say, and derived points follow their sources.      *)
(*                                                                         *)
(* The addresses: for any configuration that is plain, what is exported,   *)
(* listed and served for a point leads to that point and to no other.      *)
(***************************************************************************)
EXTENDS Simulator, NumberFacts, SequenceTheorems, FiniteSetTheorems, TLAPS

-----------------------------------------------------------------------------
(* Choices of one of two numbers.                                          *)

\* The larger of two numbers.
LEMMA MaxOfTwo ==
    ASSUME NEW a \in Int, NEW b \in Int
    PROVE  Max({a, b}) = IF a >= b THEN a ELSE b
<1>1. (IF a >= b THEN a ELSE b) \in {a, b}
  OBVIOUS
<1>2. \A x \in {a, b} : (\A y \in {a, b} : x >= y) <=> x = (IF a >= b THEN a ELSE b)
  OBVIOUS
<1> QED
  BY <1>1, <1>2 DEF Max

\* The smaller of two numbers.
LEMMA MinOfTwo ==
    ASSUME NEW a \in Int, NEW b \in Int
    PROVE  Min({a, b}) = IF a <= b THEN a ELSE b
<1>1. (IF a <= b THEN a ELSE b) \in {a, b}
  OBVIOUS
<1>2. \A x \in {a, b} : (\A y \in {a, b} : x <= y) <=> x = (IF a <= b THEN a ELSE b)
  OBVIOUS
<1> QED
  BY <1>1, <1>2 DEF Min

-----------------------------------------------------------------------------
(* The configuration of the wizard. *)

Checks == {"Plant", "Ahus", "Vavs", "Meters"}

\* Whatever is checked, the configuration names templates of the sample and no
\* more devices than a block has.
LEMMA MinimalExpands ==
    ASSUME NEW opts, \A f \in Checks : opts[f] \in BOOLEAN
    PROVE  Expandable(from_minimal(opts))
<1> DEFINE names == {<<"CH">>, <<"CHWP">>, <<"CT">>, <<"BLR">>, <<"HHWP">>, <<"AHU", "L">>,
                     <<"AHU", "S">>, <<"VAV", "OFC">>, <<"FCU", "RES">>, <<"PLANT", "MTR">>,
                     <<"TNT", "MTR">>, <<"WTR", "MTR">>}
           fine == [template : DOMAIN Bundled.templates, prefix : names, count : 0..100]
<1>0. /\ {"chiller", "chw_pump", "cooling_tower", "boiler", "hhw_pump", "ahu_large", "ahu_small",
          "vav_office", "fcu_residential", "plant_meter", "tenant_meter", "water_meter"}
             \subseteq DOMAIN Bundled.templates
      /\ Bundled.block = 100
  BY SimulatorAssumption DEF SimulatorAssumption, SimTuiAssumption
<1>1. ASSUME NEW t \in DOMAIN Bundled.templates, NEW p \in names, NEW n \in 0..100
      PROVE  inst(t, p, n) \in fine
  BY DEF inst
<1> HIDE DEF fine
<1>2. ASSUME NEW c \in BOOLEAN, NEW s \in Seq(fine)
      PROVE  When(c, s) \in Seq(fine)
  BY <1>2 DEF When
<1>3. ASSUME NEW s \in Seq(fine), NEW r \in Seq(fine)
      PROVE  s \o r \in Seq(fine)
  BY <1>3
<1>a. ASSUME NEW a \in fine, NEW b \in fine, NEW c \in fine
      PROVE  <<a>> \in Seq(fine) /\ <<a, b>> \in Seq(fine) /\ <<a, b, c>> \in Seq(fine)
  BY <1>a
<1> DEFINE medium == opts.Size = "Medium"
           scale  == IF medium THEN 2 ELSE 1
           plant  == <<inst("chiller", <<"CH">>, scale), inst("chw_pump", <<"CHWP">>, scale * 2),
                       inst("cooling_tower", <<"CT">>, scale)>>
                     \o When(medium, <<inst("boiler", <<"BLR">>, 1), inst("hhw_pump", <<"HHWP">>, 2)>>)
           ahus   == <<inst("ahu_large", <<"AHU", "L">>, IF medium THEN 6 ELSE 2)>>
                     \o When(medium, <<inst("ahu_small", <<"AHU", "S">>, 2)>>)
           vavs   == <<inst("vav_office", <<"VAV", "OFC">>, IF medium THEN 30 ELSE 10)>>
                     \o When(medium, <<inst("fcu_residential", <<"FCU", "RES">>, 10)>>)
           meters == <<inst("plant_meter", <<"PLANT", "MTR">>, scale)>>
                     \o When(medium, <<inst("tenant_meter", <<"TNT", "MTR">>, 5),
                                       inst("water_meter", <<"WTR", "MTR">>, 2)>>)
           all    == When(opts.Plant, plant) \o When(opts.Ahus, ahus)
                       \o When(opts.Vavs, vavs) \o When(opts.Meters, meters)
<1>4. from_minimal(opts) = [templates |-> Bundled.templates, block |-> Bundled.block,
                            instances |-> all]
  BY DEF from_minimal
<1>5. medium \in BOOLEAN /\ scale \in 0..100 /\ scale * 2 \in 0..100
  OBVIOUS
<1> HIDE DEF medium
<1>6. plant \in Seq(fine)
  <2>1. /\ inst("chiller", <<"CH">>, scale) \in fine
        /\ inst("chw_pump", <<"CHWP">>, scale * 2) \in fine
        /\ inst("cooling_tower", <<"CT">>, scale) \in fine
        /\ inst("boiler", <<"BLR">>, 1) \in fine
        /\ inst("hhw_pump", <<"HHWP">>, 2) \in fine
    BY <1>0, <1>1, <1>5
  <2>2. <<inst("chiller", <<"CH">>, scale), inst("chw_pump", <<"CHWP">>, scale * 2),
          inst("cooling_tower", <<"CT">>, scale)>> \in Seq(fine)
    BY <2>1, <1>a, Zenon
  <2>3. When(medium, <<inst("boiler", <<"BLR">>, 1), inst("hhw_pump", <<"HHWP">>, 2)>>) \in Seq(fine)
    <3>1. <<inst("boiler", <<"BLR">>, 1), inst("hhw_pump", <<"HHWP">>, 2)>> \in Seq(fine)
      BY <2>1, <1>a, Zenon
    <3> QED
      BY <3>1, <1>2, <1>5, Zenon
  <2> QED
    BY <2>2, <2>3, <1>3, Zenon
<1>7. ahus \in Seq(fine)
  <2>1. /\ inst("ahu_large", <<"AHU", "L">>, IF medium THEN 6 ELSE 2) \in fine
        /\ inst("ahu_small", <<"AHU", "S">>, 2) \in fine
    BY <1>0, <1>1, <1>5
  <2> QED
    BY <2>1, <1>2, <1>3, <1>5
<1>8. vavs \in Seq(fine)
  <2>1. /\ inst("vav_office", <<"VAV", "OFC">>, IF medium THEN 30 ELSE 10) \in fine
        /\ inst("fcu_residential", <<"FCU", "RES">>, 10) \in fine
    BY <1>0, <1>1, <1>5
  <2>2. <<inst("vav_office", <<"VAV", "OFC">>, IF medium THEN 30 ELSE 10)>> \in Seq(fine)
    BY <2>1, <1>a, Zenon
  <2>3. When(medium, <<inst("fcu_residential", <<"FCU", "RES">>, 10)>>) \in Seq(fine)
    <3>1. <<inst("fcu_residential", <<"FCU", "RES">>, 10)>> \in Seq(fine)
      BY <2>1, <1>a, Zenon
    <3> QED
      BY <3>1, <1>2, <1>5, Zenon
  <2> QED
    BY <2>2, <2>3, <1>3, Zenon
<1>9. meters \in Seq(fine)
  <2>1. /\ inst("plant_meter", <<"PLANT", "MTR">>, scale) \in fine
        /\ inst("tenant_meter", <<"TNT", "MTR">>, 5) \in fine
        /\ inst("water_meter", <<"WTR", "MTR">>, 2) \in fine
    BY <1>0, <1>1, <1>5
  <2>2. <<inst("plant_meter", <<"PLANT", "MTR">>, scale)>> \in Seq(fine)
    BY <2>1, <1>a, Zenon
  <2>3. When(medium, <<inst("tenant_meter", <<"TNT", "MTR">>, 5), inst("water_meter", <<"WTR", "MTR">>, 2)>>) \in Seq(fine)
    <3>1. <<inst("tenant_meter", <<"TNT", "MTR">>, 5), inst("water_meter", <<"WTR", "MTR">>, 2)>> \in Seq(fine)
      BY <2>1, <1>a, Zenon
    <3> QED
      BY <3>1, <1>2, <1>5, Zenon
  <2> QED
    BY <2>2, <2>3, <1>3, Zenon
<1>10. all \in Seq(fine)
  <2> HIDE DEF plant, ahus, vavs, meters
  <2>1. /\ When(opts.Plant, plant) \in Seq(fine) /\ When(opts.Ahus, ahus) \in Seq(fine)
        /\ When(opts.Vavs, vavs) \in Seq(fine) /\ When(opts.Meters, meters) \in Seq(fine)
    BY <1>2, <1>6, <1>7, <1>8, <1>9 DEF Checks
  <2> QED
    BY <2>1, <1>3
<1> HIDE DEF all
<1>11. ASSUME NEW b \in DOMAIN all
       PROVE  all[b].template \in DOMAIN Bundled.templates /\ all[b].count <= 100
  <2>1. all[b] \in fine
    BY <1>10
  <2> QED
    BY <2>1 DEF fine
<1> QED
  BY <1>0, <1>4, <1>11 DEF Expandable, block

-----------------------------------------------------------------------------
(* The screen.                                                             *)

\* A list is as long as a number.
LEMMA LengthFacts == \A text : Length(text) \in Nat
<1> SUFFICES ASSUME NEW text
             PROVE  Length(text) \in Nat
  OBVIOUS
<1>1. DOMAIN Rows = 1..Len(Rows) /\ Len(Rows) \in Nat
  BY SimulatorAssumption DEF SimulatorAssumption, SimTuiAssumption
<1>2. IsFiniteSet(1..Len(Rows))
  BY <1>1, FS_Interval
<1>3. IsFiniteSet(filtered_devices(text))
  BY <1>1, <1>2, FS_Subset DEF filtered_devices
<1> QED
  BY <1>3, FS_CardinalityType DEF Length

\* The selection is in the list, and a detail is only open while no filter is
\* typed that could shift the list under it.
ListInv ==
    /\ list_index \in Nat
    /\ list_index = 0 \/ list_index < Length(filter)
    /\ detail # 0 => InRow(filter, list_index) = detail
    /\ filter_mode \in BOOLEAN
    /\ filter_mode => detail = 0

\* The checks of the wizard are checks.
WizardInv ==
    /\ DOMAIN wizard = DOMAIN DefaultWizard
    /\ wizard.selected \in 1..8
    /\ \A f \in Checks : wizard[f] \in BOOLEAN

\* A dialog belongs to the entry it was opened on, and what was confirmed is in
\* the file.
DialogInv ==
    /\ selected \in 0..1
    /\ modal = "ConfirmReset" => selected = 0
    /\ modal = "Wizard" => selected = 1
    /\ modal = "PostSave" => file = IF selected = 0 THEN Sample ELSE Minimal(wizard)
    /\ screen = "starting" => modal = "None"
    /\ screen = "restarted" => loaded = file

ScreenInv == ListInv /\ WizardInv /\ DialogInv

\* The first screen shows the devices of the file that was loaded.
LEMMA InitScreen == Init => ScreenInv
<1> SUFFICES ASSUME Init
             PROVE  ScreenInv
  OBVIOUS
<1>1. TuiInit
  BY DEF Init
<1>2. ListInv
  <2>1. ~filter_mode
    BY <1>1, Zenon DEF TuiInit
  <2> QED
    BY <1>1, <2>1 DEF TuiInit, ListInv
<1>3. WizardInv
  BY <1>1 DEF TuiInit, WizardInv, DefaultWizard, Checks
<1>4. DialogInv
  BY <1>1 DEF TuiInit, DialogInv
<1> QED
  BY <1>2, <1>3, <1>4 DEF ScreenInv

\* Keys of the list.
LEMMA DevicesStep ==
    ASSUME ScreenInv, DevicesKey
    PROVE  ScreenInv'
<1>0. ListInv /\ DevicesUnchanged /\ modal = "None"
  BY DEF ScreenInv, DevicesKey, EditFilter, EndFilter, ScrollDetail, BeginFilter, SelectUp,
         SelectDown, OpenDetail, InList, Devices, Open
<1>1. WizardInv' /\ DialogInv'
  BY <1>0 DEF DevicesUnchanged, ScreenInv, WizardInv, DialogInv
<1> SUFFICES ListInv'
  BY <1>1 DEF ScreenInv
<1>2. CASE EditFilter
  <2>1. list_index' = 0 /\ detail' = detail
    BY <1>2 DEF EditFilter
  <2>2. filter_mode /\ filter_mode' = filter_mode
    BY <1>2, Zenon DEF EditFilter
  <2>3. detail' = 0
    BY <1>0, <2>1, <2>2 DEF ListInv
  <2>4. filter_mode' \in BOOLEAN
    BY <1>0, <2>2, Zenon DEF ListInv
  <2> QED
    BY <2>1, <2>3, <2>4 DEF ListInv
<1>3. CASE EndFilter \/ ScrollDetail
  <2>1. UNCHANGED <<filter, list_index, detail>>
    BY <1>3 DEF EndFilter, ScrollDetail
  <2>2. ~filter_mode' \/ filter_mode' = filter_mode
    BY <1>3, Zenon DEF EndFilter, ScrollDetail
  <2>3. filter_mode' \in BOOLEAN
    BY <1>0, <1>3, Zenon DEF EndFilter, ScrollDetail, ListInv
  <2> QED
    BY <1>0, <2>1, <2>2, <2>3 DEF ListInv
<1>4. CASE BeginFilter
  BY <1>0, <1>4 DEF BeginFilter, InList, ListInv
<1>5. CASE SelectUp
  <2>1. list_index' = IF list_index >= 1 THEN list_index - 1 ELSE 0
    <3>1. list_index \in Nat /\ list_index' = Max({list_index - 1, 0})
      BY <1>0, <1>5 DEF SelectUp, ListInv
    <3>2. Max({list_index - 1, 0}) = IF list_index - 1 >= 0 THEN list_index - 1 ELSE 0
      <4>1. list_index - 1 \in Int /\ 0 \in Int
        BY <3>1
      <4> QED
        BY <4>1, MaxOfTwo
    <3> QED
      BY <3>1, <3>2
  <2>2. Length(filter) \in Nat
    BY LengthFacts
  <2> QED
    BY <1>0, <1>5, <2>1, <2>2 DEF SelectUp, InList, ListInv
<1>6. CASE SelectDown
  <2>1. Length(filter) \in Nat
    BY LengthFacts
  <2>2. list_index' = IF list_index + 1 < Length(filter) THEN list_index + 1 ELSE list_index
    BY <1>6 DEF SelectDown
  <2> QED
    BY <1>0, <1>6, <2>1, <2>2 DEF SelectDown, InList, ListInv
<1>7. CASE OpenDetail
  BY <1>0, <1>7 DEF OpenDetail, InList, ListInv
<1> QED
  BY <1>2, <1>3, <1>4, <1>5, <1>6, <1>7 DEF DevicesKey

\* Keys of the wizard.
LEMMA WizardStep ==
    ASSUME ScreenInv, MoveField \/ EditText \/ toggle_field
    PROVE  ScreenInv'
<1>0. InWizard /\ WizardUnchanged /\ WizardInv
  BY DEF MoveField, EditText, toggle_field, ScreenInv
<1>1. ListInv' /\ DialogInv'
  BY <1>0 DEF InWizard, WizardUnchanged, list, ScreenInv, ListInv, DialogInv
<1> SUFFICES WizardInv'
  BY <1>1 DEF ScreenInv
<1>2. Checks \subseteq DOMAIN wizard /\ "selected" \in DOMAIN wizard /\ "selected" \notin Checks
  BY <1>0 DEF WizardInv, DefaultWizard, Checks
<1>3. ASSUME NEW f, f \notin Checks \cup {"selected"}, NEW v, wizard' = [wizard EXCEPT ![f] = v]
      PROVE  WizardInv'
  BY <1>0, <1>2, <1>3 DEF WizardInv
<1>4. CASE MoveField
  <2>1. PICK step \in {0, Len(Fields) - 2} :
            wizard' = [wizard EXCEPT !.selected = ((wizard.selected + step) % Len(Fields)) + 1]
    BY <1>4 DEF MoveField
  <2>2. Len(Fields) = 8
    BY DEF Fields
  <2>3. ((wizard.selected + step) % Len(Fields)) + 1 \in 1..8
    BY <1>0, <2>2 DEF WizardInv
  <2> QED
    BY <1>0, <1>2, <2>1, <2>3 DEF WizardInv
<1>5. CASE EditText
  <2>1. Field \in TextFields /\ TextFields \cap (Checks \cup {"selected"}) = {}
    BY <1>5 DEF EditText, TextFields, Checks
  <2>2. "editing_text" \notin Checks \cup {"selected"}
    BY DEF Checks
  <2>3. \E v : wizard' = [wizard EXCEPT ![Field] = v] \/ wizard' = [wizard EXCEPT !["editing_text"] = v]
    BY <1>5 DEF EditText
  <2> QED
    BY <1>3, <2>1, <2>2, <2>3
<1>6. CASE toggle_field
  <2>1. Field \in {"Size"} \cup Checks
    <3>1. wizard.selected \in 1..8
      BY <1>0 DEF WizardInv
    <3> QED
      BY <1>6, <3>1 DEF toggle_field, Field, Fields, TextFields, Checks
  <2>2. CASE Field = "Size"
    <3>1. \E v : wizard' = [wizard EXCEPT !["Size"] = v]
      BY <1>6, <2>2 DEF toggle_field
    <3>2. "Size" \notin Checks \cup {"selected"}
      BY DEF Checks
    <3> QED
      BY <1>3, <3>1, <3>2
  <2>3. CASE Field \in Checks
    <3>1. wizard' = [wizard EXCEPT ![Field] = ~wizard[Field]]
      <4>1. Field # "Size"
        BY <2>3 DEF Checks
      <4> QED
        BY <1>6, <4>1 DEF toggle_field
    <3>2. wizard[Field] \in BOOLEAN
      BY <1>0, <2>3 DEF WizardInv
    <3>3. \A f \in Checks : wizard'[f] = IF f = Field THEN ~wizard[f] ELSE wizard[f]
      BY <1>2, <3>1, Zenon
    <3>4. \A f \in Checks : wizard'[f] \in BOOLEAN
      BY <1>0, <3>3, Zenon DEF WizardInv
    <3>5. DOMAIN wizard' = DOMAIN wizard /\ wizard'.selected = wizard.selected
      BY <1>2, <2>3, <3>1
    <3> QED
      BY <1>0, <3>4, <3>5 DEF WizardInv
  <2> QED
    BY <2>1, <2>2, <2>3
<1> QED
  BY <1>4, <1>5, <1>6

\* Each key and each event keeps the invariant.
LEMMA ScreenStep ==
    ASSUME ScreenInv, TuiNext
    PROVE  ScreenInv'
<1>0. ListInv /\ WizardInv /\ DialogInv
  BY DEF ScreenInv
<1>1. CASE Bootstrap \/ Quit \/ SwitchTab \/ SelectEntry
  <2>1. UNCHANGED <<list, wizard>>
    BY <1>1 DEF Bootstrap, Quit, SwitchTab, SelectEntry
  <2>2. ListInv' /\ WizardInv'
    BY <1>0, <2>1 DEF list, ListInv, WizardInv
  <2> SUFFICES DialogInv'
    BY <2>2 DEF ScreenInv
  <2>3. CASE Bootstrap
    BY <2>3, <1>0 DEF Bootstrap, DialogInv
  <2>4. CASE Quit \/ SwitchTab
    BY <2>4, <1>0 DEF Quit, SwitchTab, Open, DialogInv
  <2>5. CASE SelectEntry
    <3>1. selected' \in 0..1
      BY <2>5, <1>0, MaxOfTwo, MinOfTwo DEF SelectEntry, DialogInv
    <3> QED
      BY <2>5, <1>0, <2>2, <3>1 DEF SelectEntry, Open, DialogInv, ScreenInv
  <2> QED
    BY <1>1, <2>3, <2>4, <2>5
<1>2. CASE Escape
  <2>1. ListInv'
    <3>1. ~filter_mode'
      BY <1>2, Zenon DEF Escape
    <3> QED
      BY <1>0, <1>2, <3>1 DEF Escape, ListInv
  <2> QED
    BY <1>0, <1>2, <2>1 DEF Escape, Open, WizardInv, DialogInv, ScreenInv
<1>3. CASE DevicesKey
  BY <1>3, DevicesStep
<1>4. CASE OpenDialog \/ CloseDialog
  <2>1. ListInv'
    BY <1>0, <1>4 DEF OpenDialog, CloseDialog, list, ListInv
  <2>2. WizardInv'
    <3>1. wizard' = DefaultWizard
      BY <1>4 DEF OpenDialog, CloseDialog
    <3> QED
      BY <3>1 DEF WizardInv, DefaultWizard, Checks
  <2>3. DialogInv'
    BY <1>0, <1>4 DEF OpenDialog, CloseDialog, Open, DialogInv
  <2> QED
    BY <2>1, <2>2, <2>3 DEF ScreenInv
<1>5. CASE ConfirmReset \/ SaveWizard
  <2>1. ListInv' /\ WizardInv'
    BY <1>0, <1>5 DEF ConfirmReset, SaveWizard, list, ListInv, WizardInv
  <2> SUFFICES DialogInv'
    BY <2>1 DEF ScreenInv
  <2>2. CASE ConfirmReset
    BY <2>2, <1>0 DEF ConfirmReset, Write, DialogInv
  <2>3. CASE SaveWizard
    BY <2>3, <1>0 DEF SaveWizard, InWizard, Write, DialogInv
  <2> QED
    BY <1>5, <2>2, <2>3
<1>6. CASE MoveField \/ EditText \/ toggle_field
  BY <1>6, WizardStep
<1>7. CASE PostSaveRestart
  <2>1. ListInv' /\ WizardInv'
    BY <1>0, <1>7 DEF PostSaveRestart, list, ListInv, WizardInv
  <2>2. file.holds # "missing"
    BY <1>0, <1>7 DEF PostSaveRestart, DialogInv, Sample, Minimal
  <2>3. DialogInv'
    BY <1>0, <1>7, <2>2 DEF PostSaveRestart, Restart, Ensured, DialogInv
  <2> QED
    BY <2>1, <2>3 DEF ScreenInv
<1> QED
  BY <1>1, <1>2, <1>3, <1>4, <1>5, <1>6, <1>7 DEF TuiNext

\* The screen tells the truth: the selection is a row of the list, an open
\* detail is of the device in that row, and where the UI offers to restart, the
\* file holds what was confirmed, expands, and is what the program then loads.
THEOREM ScreenAlways == Spec => []SimScreenIsTrue
<1>1. ScreenInv /\ [Next]_<<part, vars, tui>> => ScreenInv'
  <2> SUFFICES ASSUME ScreenInv, [Next]_<<part, vars, tui>>
               PROVE  ScreenInv'
    OBVIOUS
  <2>1. CASE TuiNext
    BY <2>1, ScreenStep
  <2>2. CASE UNCHANGED tui
    BY <2>2 DEF tui, list, ScreenInv, ListInv, WizardInv, DialogInv
  <2> QED
    BY <2>1, <2>2 DEF Next
<1>2. ScreenInv => SimScreenIsTrue
  <2> SUFFICES ASSUME ScreenInv, modal = "PostSave"
               PROVE  Expandable(from_minimal(file.options))
    BY DEF ScreenInv, ListInv, DialogInv, SimScreenIsTrue, ScreenIsTrue
  <2>1. \A f \in Checks : file.options[f] \in BOOLEAN
    <3>1. CASE file = Sample
      <4>1. file.options = DefaultWizard
        BY <3>1 DEF Sample
      <4>2. /\ DefaultWizard.Plant \in BOOLEAN /\ DefaultWizard.Ahus \in BOOLEAN
            /\ DefaultWizard.Vavs \in BOOLEAN /\ DefaultWizard.Meters \in BOOLEAN
        BY DEF DefaultWizard
      <4> QED
        BY <4>1, <4>2, Zenon DEF Checks
    <3>2. CASE file = Minimal(wizard)
      <4>1. file.options = [[wizard EXCEPT !.selected = 1] EXCEPT !.editing_text = FALSE]
        BY <3>2 DEF Minimal
      <4>2. \A f \in Checks : f \in DOMAIN wizard /\ f # "selected" /\ f # "editing_text"
        BY DEF ScreenInv, WizardInv, DefaultWizard, Checks
      <4>3. \A f \in Checks : file.options[f] = wizard[f]
        BY <4>1, <4>2
      <4> QED
        BY <4>3 DEF ScreenInv, WizardInv
    <3> QED
      BY <3>1, <3>2 DEF ScreenInv, DialogInv
  <2> QED
    BY <2>1, MinimalExpands
<1> QED
  BY <1>1, <1>2, InitScreen, PTL DEF Spec

-----------------------------------------------------------------------------
(* The devices a configuration expands to. *)

\* A block of ids does not reach into the next.
LEMMA BlockAbove ==
    ASSUME NEW B \in Nat, NEW b \in Nat, NEW h \in Nat, b < h
    PROVE  b * B + B <= h * B
<1>1. PICK k \in Nat : h = b + 1 + k
  <2>1. h - b - 1 \in Nat /\ h = b + 1 + (h - b - 1)
    OBVIOUS
  <2> QED
    BY <2>1
<1>2. h * B = b * B + B + k * B
  BY <1>1
<1>3. k * B \in Nat /\ b * B \in Nat
  OBVIOUS
<1> QED
  BY <1>2, <1>3

\* A number below the modulus is its own remainder.
LEMMA SmallMod ==
    ASSUME NEW x \in Nat, NEW N \in Nat \ {0}, x < N
    PROVE  x % N = x
OBVIOUS

\* Ids that fit their width are the blocks' own.
LEMMA IdsApart ==
    ASSUME NEW c, DevicesFine(c), Expandable(c), IdsFit(c),
           NEW b \in DOMAIN c.instances, NEW h \in DOMAIN c.instances,
           NEW n \in 1..c.instances[b].count, NEW m \in 1..c.instances[h].count,
           b # h \/ n # m
    PROVE  DeviceAt(c, b, n).device_id # DeviceAt(c, h, m).device_id
<1> DEFINE B == block(c)
           L == Len(c.instances)
           Id(e, k) == c.base + e * B + k - 1
<1>1. /\ c.base \in Nat /\ B \in Nat \ {0} /\ L \in Nat /\ IdSpace \in Nat \ {0}
      /\ b \in 1..L /\ h \in 1..L /\ n \in 1..B /\ m \in 1..B
      /\ c.base + (L + 1) * B <= IdSpace
  <2>1. /\ c.base \in Nat /\ c.block \in Nat /\ Expandable(c)
        /\ c.instances \in Seq([template : STRING, prefix : Seq(STRING), count : Nat])
        /\ IdSpace \in Nat \ {0}
    BY SimulatorAssumption DEF SimulatorAssumption, SimConfigAssumption, DevicesFine
  <2>2. L \in Nat /\ DOMAIN c.instances = 1..L
    BY <2>1, LenProperties
  <2>3. B \in Nat \ {0}
    BY <2>1 DEF block
  <2>4. /\ c.instances[b].count <= B /\ c.instances[h].count <= B
        /\ c.instances[b].count \in Nat /\ c.instances[h].count \in Nat
    <3>1. \A e \in DOMAIN c.instances :
             c.instances[e] \in [template : STRING, prefix : Seq(STRING), count : Nat]
      BY <2>1, <2>2, ElementOfSeq, Zenon
    <3> QED
      BY <2>1, <3>1 DEF Expandable
  <2>5. c.base + (L + 1) * B <= IdSpace
    BY DEF IdsFit
  <2>6. b \in 1..L /\ h \in 1..L
    BY <2>2
  <2> HIDE DEF L, B
  <2>7. n \in 1..B /\ m \in 1..B
    BY <2>3, <2>4
  <2> QED
    BY <2>1, <2>2, <2>3, <2>5, <2>6, <2>7
<1> HIDE DEF B, L
<1>2. ASSUME NEW e \in 1..L, NEW k \in 1..B
      PROVE  Id(e, k) \in Nat /\ Id(e, k) < IdSpace
  <2>1. e * B + B <= (L + 1) * B
    BY <1>1, BlockAbove
  <2>2. e * B \in Nat /\ (L + 1) * B \in Nat
    BY <1>1
  <2> QED
    BY <1>1, <2>1, <2>2
<1>3. DeviceAt(c, b, n).device_id = Id(b, n) /\ DeviceAt(c, h, m).device_id = Id(h, m)
  <2>1. /\ DeviceAt(c, b, n).device_id = Id(b, n) % IdSpace
        /\ DeviceAt(c, h, m).device_id = Id(h, m) % IdSpace
    BY DEF DeviceAt, B
  <2> HIDE DEF Id
  <2> QED
    BY <1>1, <1>2, <2>1, SmallMod
<1>4. ASSUME NEW e \in 1..L, NEW g \in 1..L, NEW k \in 1..B, NEW l \in 1..B, e < g
      PROVE  Id(e, k) < Id(g, l)
  <2>1. e * B + B <= g * B /\ e * B \in Nat /\ g * B \in Nat
    BY <1>1, <1>4, BlockAbove
  <2> QED
    BY <1>1, <2>1
<1>5. CASE b = h
  <2>1. n # m /\ h * B \in Nat
    BY <1>1, <1>5
  <2> QED
    BY <1>1, <1>3, <1>5, <2>1
<1>6. CASE b # h
  <2>1. Id(b, n) \in Nat /\ Id(h, m) \in Nat
    BY <1>1, <1>2
  <2>2. b < h \/ h < b
    BY <1>1, <1>6
  <2> HIDE DEF Id
  <2>3. Id(b, n) < Id(h, m) \/ Id(h, m) < Id(b, n)
    BY <1>1, <1>4, <2>2
  <2> QED
    BY <1>3, <2>1, <2>3
<1> QED
  BY <1>5, <1>6

\* The devices that are run: a sequence of records with ids of their own.
DevicesIn(ds) ==
    /\ Len(ds) \in Nat /\ DOMAIN ds = 1..Len(ds)
    /\ \A d \in DOMAIN ds : "device_id" \in DOMAIN ds[d] /\ "points" \in DOMAIN ds[d]
    /\ \A d, e \in DOMAIN ds : ds[d].device_id = ds[e].device_id => d = e

BlocksOf(c) == [b \in DOMAIN c.instances |-> [n \in 1..c.instances[b].count |-> DeviceAt(c, b, n)]]

\* A configuration expands to the devices of its blocks.
LEMMA Expanded ==
    ASSUME NEW c, DevicesFine(c)
    PROVE  /\ Len(c.instances) \in Nat /\ DOMAIN c.instances = 1..Len(c.instances)
           /\ Len(expand(c)) \in Nat /\ DOMAIN expand(c) = 1..Len(expand(c))
           /\ MadeOf(expand(c), BlocksOf(c), Len(c.instances))
           /\ \A d \in DOMAIN expand(c) : \E b \in DOMAIN c.instances : \E n :
                 expand(c)[d] = DeviceAt(c, b, n)
<1> DEFINE S  == {DeviceAt(c, b, n) : b \in DOMAIN c.instances, n \in Nat}
           L  == Len(c.instances)
           ss == BlocksOf(c)
<1>1. /\ L \in Nat /\ DOMAIN c.instances = 1..L
      /\ \A b \in DOMAIN c.instances : c.instances[b].count \in Nat
  <2>1. c.instances \in Seq([template : STRING, prefix : Seq(STRING), count : Nat])
    BY DEF DevicesFine
  <2>2. L \in Nat /\ DOMAIN c.instances = 1..L
    BY <2>1, LenProperties
  <2>3. \A b \in DOMAIN c.instances :
           c.instances[b] \in [template : STRING, prefix : Seq(STRING), count : Nat]
    BY <2>1, <2>2, ElementOfSeq, Zenon
  <2> QED
    BY <2>2, <2>3
<1>2. ss \in [1..L -> Seq(S)]
  <2>1. ASSUME NEW b \in DOMAIN c.instances
        PROVE  [n \in 1..c.instances[b].count |-> DeviceAt(c, b, n)] \in Seq(S)
    <3>1. \A n \in 1..c.instances[b].count : DeviceAt(c, b, n) \in S
      OBVIOUS
    <3> HIDE DEF S
    <3> QED
      BY <1>1, <3>1
  <2> HIDE DEF S
  <2> QED
    BY <1>1, <2>1 DEF BlocksOf
<1>3. expand(c) = FlattenSeq(ss)
  BY DEF expand, BlocksOf
<1>4. expand(c) \in Seq(S) /\ MadeOf(expand(c), ss, L)
  <2> HIDE DEF S, ss, L
  <2> QED
    BY <1>1, <1>2, <1>3, Flattened
<1>5. Len(expand(c)) \in Nat /\ DOMAIN expand(c) = 1..Len(expand(c))
  <2> HIDE DEF S
  <2> QED
    BY <1>4, LenProperties
<1>6. ASSUME NEW d \in DOMAIN expand(c)
      PROVE  \E b \in DOMAIN c.instances : \E n : expand(c)[d] = DeviceAt(c, b, n)
  <2>1. expand(c)[d] \in S
    <3> HIDE DEF S
    <3> QED
      BY <1>4, <1>5, ElementOfSeq
  <2> QED
    BY <2>1
<1> QED
  BY <1>1, <1>4, <1>5, <1>6

\* What expand makes of a configuration has an id of its own for each device.
LEMMA DevicesOf ==
    ASSUME NEW c, DevicesFine(c), Expandable(c), IdsFit(c)
    PROVE  DevicesIn(expand(c))
<1> DEFINE L  == Len(c.instances)
           ss == BlocksOf(c)
<1>1. /\ DOMAIN c.instances = 1..L
      /\ Len(expand(c)) \in Nat /\ DOMAIN expand(c) = 1..Len(expand(c))
      /\ MadeOf(expand(c), ss, L)
      /\ \A d \in DOMAIN expand(c) : \E b, n : expand(c)[d] = DeviceAt(c, b, n)
  BY Expanded
<1>2. ASSUME NEW d \in DOMAIN expand(c)
      PROVE  "device_id" \in DOMAIN expand(c)[d] /\ "points" \in DOMAIN expand(c)[d]
  <2>1. PICK b, n : expand(c)[d] = DeviceAt(c, b, n)
    BY <1>1
  <2> QED
    BY <2>1 DEF DeviceAt
<1>3. ASSUME NEW d \in DOMAIN expand(c), NEW e \in DOMAIN expand(c), d # e
      PROVE  expand(c)[d].device_id # expand(c)[e].device_id
  <2>1. Apart(ss, L, expand(c)[d], expand(c)[e])
    <3> HIDE DEF ss, L
    <3> QED
      BY <1>1, <1>3 DEF MadeOf
  <2>2. PICK b \in 1..L, h \in 1..L : \E i \in DOMAIN ss[b], j \in DOMAIN ss[h] :
            expand(c)[d] = ss[b][i] /\ expand(c)[e] = ss[h][j] /\ (b # h \/ i # j)
    BY <2>1, Zenon DEF Apart
  <2>3. PICK i \in DOMAIN ss[b], j \in DOMAIN ss[h] :
            expand(c)[d] = ss[b][i] /\ expand(c)[e] = ss[h][j] /\ (b # h \/ i # j)
    BY <2>2, Zenon
  <2>4. /\ i \in 1..c.instances[b].count /\ j \in 1..c.instances[h].count
        /\ ss[b][i] = DeviceAt(c, b, i) /\ ss[h][j] = DeviceAt(c, h, j)
    BY <1>1 DEF BlocksOf
  <2> QED
    BY <1>1, <2>3, <2>4, IdsApart
<1> QED
  BY <1>1, <1>2, <1>3 DEF DevicesIn

\* What from_spec makes of a device has the device's id.
LEMMA DevicesKept ==
    ASSUME NEW ds, DevicesIn(ds), NEW fs, DOMAIN fs = DOMAIN ds, Len(fs) = Len(ds),
           \A d \in DOMAIN ds : fs[d] = ds[d] \/ \E x : fs[d] = [ds[d] EXCEPT !.points = x]
    PROVE  DevicesIn(fs)
<1>1. \A d \in DOMAIN ds : /\ "device_id" \in DOMAIN fs[d] /\ "points" \in DOMAIN fs[d]
                           /\ fs[d].device_id = ds[d].device_id
  BY DEF DevicesIn
<1> QED
  BY <1>1 DEF DevicesIn

\* The length of a sequence is the end of its domain.
LEMMA LengthIs ==
    ASSUME NEW n \in Nat, NEW f, DOMAIN f = 1..n, f = [i \in DOMAIN f |-> f[i]]
    PROVE  Len(f) = n
<1>1. f \in Seq({f[i] : i \in DOMAIN f})
  OBVIOUS
<1> QED
  BY <1>1, LenProperties

\* So have the devices of a running simulation.
LEMMA DevicesOfSim ==
    ASSUME config \in Configs, IdsFit(config), EngineInit
    PROVE  DevicesIn(sim)
<1> DEFINE ds == expand(config)
           fs == SimulatedDevices(config)
<1>1. DevicesIn(ds)
  BY DevicesOf, SimulatorAssumption DEF SimulatorAssumption
<1>2. DevicesIn(fs)
  <2>1. fs = [d \in DOMAIN ds |-> Simulated(ds[d])]
    BY DEF SimulatedDevices
  <2> HIDE DEF ds, fs
  <2>2. DOMAIN fs = DOMAIN ds /\ Len(fs) = Len(ds)
    BY <1>1, <2>1, LengthIs DEF DevicesIn
  <2>3. \A d \in DOMAIN ds : \E x : fs[d] = [ds[d] EXCEPT !.points = x]
    BY <2>1 DEF Simulated
  <2> QED
    BY <1>1, <2>2, <2>3, DevicesKept
<1>3. sim = [d \in DOMAIN fs |-> WithState(fs[d])]
  BY DEF EngineInit
<1> HIDE DEF fs
<1>4. DOMAIN sim = DOMAIN fs /\ Len(sim) = Len(fs)
  BY <1>2, <1>3, LengthIs DEF DevicesIn
<1>5. \A d \in DOMAIN fs : \E x : sim[d] = [fs[d] EXCEPT !.points = x]
  BY <1>3 DEF WithState
<1> QED
  BY <1>2, <1>4, <1>5, DevicesKept

-----------------------------------------------------------------------------
(* Answers of one tick. *)

\* Who holds the mutex.
LockInv ==
    /\ ticker \in {"waiting", "advancing", "dead", "cancelled"}
    /\ ticker = "advancing" => lock = "tick"
    /\ bacnet.at = "reading" => lock = "bacnet"
    /\ modbus.at = "reading" => lock = "modbus"
    /\ opcua.at = "copying" => lock = "opcua"

\* Which devices this tick has advanced.
StampInv ==
    /\ DOMAIN stamps = DOMAIN sim
    /\ ticker \in {"waiting", "cancelled"} => \A d \in DOMAIN sim : stamps[d] = clock
    /\ ticker = "advancing" => /\ next \in Nat
                               /\ \A d \in DOMAIN sim : d < next => stamps[d] = clock

\* A request that is being answered: what it has got is of the tick that is over.
Answering(request) ==
    /\ "at" \in DOMAIN request /\ "got" \in DOMAIN request
    /\ \E S : request.got \in Seq(S)
    /\ request.at # "reading" => request.got = <<>>
    /\ ticker # "dead" =>
          \A i \in DOMAIN request.got : request.got[i] = NoAnswer \/ request.got[i].stamp = clock

\* The cache, and what it will be: a copy of every point, all of one tick.
OfOneTick(copy) ==
    /\ \A p \in DOMAIN copy : copy[p] # NoAnswer
    /\ ticker # "dead" => \A p, q \in DOMAIN copy : copy[p].stamp = copy[q].stamp

CacheInv ==
    /\ "at" \in DOMAIN opcua /\ "got" \in DOMAIN opcua
    /\ opcua.at \in {"waiting", "copying", "writing"}
    /\ DOMAIN cache \subseteq SimulatedPoints(sim)
    /\ OfOneTick(opcua.got) /\ OfOneTick(cache)
    /\ opcua.at = "copying" /\ ticker # "dead" => \A p \in DOMAIN opcua.got : opcua.got[p].stamp = clock
    /\ opcua.at = "writing" => DOMAIN opcua.got = DOMAIN cache

\* What a client has read of the cache is no newer than the cache, and that no newer
\* than its refresh.
Dated(copy) == \A p \in DOMAIN copy : copy[p].stamp \in Nat /\ copy[p].stamp <= clock
NoNewer(copy, than) == \A p \in DOMAIN copy : \A q \in DOMAIN than : copy[p].stamp <= than[q].stamp

ReadInv ==
    /\ clock \in Nat
    /\ \E S : opcua_read \in Seq(S)
    /\ ticker # "dead" => /\ Dated(opcua_read) /\ Dated(cache) /\ Dated(opcua.got)
                          /\ NoNewer(opcua_read, cache) /\ NoNewer(cache, opcua.got)
                          /\ NeverOlder(opcua_read)

ServersInv ==
    /\ DevicesIn(sim) /\ LockInv /\ StampInv
    /\ Answering(bacnet) /\ Answering(modbus)
    /\ CacheInv /\ ReadInv

\* At first no server answers.
LEMMA InitServers ==
    ASSUME config \in Configs, IdsFit(config), EngineInit, ServersInit
    PROVE  ServersInv
<1>1. DevicesIn(sim)
  BY DevicesOfSim
<1>2. LockInv /\ StampInv
  BY DEF EngineInit, ServersInit, Idle, Waiting, LockInv, StampInv
<1>3. Answering(bacnet) /\ Answering(modbus)
  <2>1. <<>> \in Seq({}) /\ DOMAIN <<>> = {}
    OBVIOUS
  <2> QED
    BY <2>1 DEF ServersInit, Idle, Answering
<1>4. opcua = Waiting /\ cache = <<>> /\ opcua_read = <<>> /\ DOMAIN <<>> = {} /\ <<>> \in Seq({})
  BY DEF ServersInit
<1>5. CacheInv
  BY <1>4 DEF Waiting, CacheInv, OfOneTick
<1>6. ReadInv
  BY <1>4 DEF EngineInit, Waiting, ReadInv, Dated, NoNewer, NeverOlder
<1> QED
  BY <1>1, <1>2, <1>3, <1>5, <1>6 DEF ServersInv

\* A point that is found is a point of a device.
LEMMA LookupFinds ==
    ASSUME DevicesIn(sim), NEW id, NEW type, NEW instance
    PROVE  LET p == Lookup(sim, id, type, instance)
           IN  p = NoPosition \/ (p # NoPosition /\ p[1] \in DOMAIN sim)
<1> DEFINE ds == {d \in DOMAIN sim : sim[d].device_id = id}
           ks == {k \in DOMAIN sim[Min(ds)].points :
                     /\ sim[Min(ds)].points[k].object_type = type
                     /\ sim[Min(ds)].points[k].instance = instance}
<1>1. Lookup(sim, id, type, instance) = IF ds = {} \/ ks = {} THEN NoPosition ELSE <<Min(ds), Min(ks)>>
  BY DEF Lookup
<1>2. ASSUME ds # {}
      PROVE  Min(ds) \in DOMAIN sim
  <2>1. ds \in SUBSET Nat
    BY DEF DevicesIn
  <2>2. PICK x \in ds : \A y \in ds : ~(y < x)
    BY <1>2, <2>1, Least
  <2>3. \A y \in ds : x <= y
    BY <2>1, <2>2
  <2>4. Min(ds) \in ds
    <3> HIDE DEF ds
    <3> QED
      BY <2>2, <2>3 DEF Min
  <2> QED
    BY <2>4
<1> HIDE DEF ds, ks
<1> QED
  BY <1>1, <1>2 DEF NoPosition

\* A point is found under its own address.
LEMMA LookupMeets ==
    ASSUME DevicesIn(sim), NEW p \in SimulatedPoints(sim)
    PROVE  Lookup(sim, sim[p[1]].device_id, PointAt(sim, p).object_type, PointAt(sim, p).instance)
             # NoPosition
<1> DEFINE ds == {d \in DOMAIN sim : sim[d].device_id = sim[p[1]].device_id}
           ks == {k \in DOMAIN sim[Min(ds)].points :
                     /\ sim[Min(ds)].points[k].object_type = PointAt(sim, p).object_type
                     /\ sim[Min(ds)].points[k].instance = PointAt(sim, p).instance}
<1>1. p[1] \in DOMAIN sim /\ p[2] \in DOMAIN sim[p[1]].points
  BY DEF SimulatedPoints
<1>2. ds = {p[1]}
  BY <1>1 DEF DevicesIn
<1>3. Min(ds) = p[1]
  <2>1. p[1] <= p[1]
    BY <1>1 DEF DevicesIn
  <2> QED
    BY <1>2, <2>1 DEF Min
<1>4. p[2] \in ks
  BY <1>1, <1>3 DEF PointAt
<1>5. Lookup(sim, sim[p[1]].device_id, PointAt(sim, p).object_type, PointAt(sim, p).instance)
        = <<Min(ds), Min(ks)>>
  <2>1. ds # {} /\ ks # {}
    BY <1>2, <1>4
  <2> QED
    BY <2>1 DEF Lookup
<1> HIDE DEF ds, ks
<1> QED
  BY <1>5 DEF NoPosition

\* Looking a device up leads to one of the devices.
LEMMA ResolveFinds ==
    ASSUME DevicesIn(sim), NEW type, NEW instance
    PROVE  LET p == resolve_property_read(sim, type, instance)
           IN  p = NoPosition \/ (p # NoPosition /\ p[1] \in DOMAIN sim)
BY LookupFinds DEF resolve_property_read

\* Between ticks, what is read is of the tick that is over.
LEMMA ReadsAreOfNow ==
    ASSUME ServersInv, NEW p, p = NoPosition \/ (p # NoPosition /\ p[1] \in DOMAIN sim)
    PROVE  /\ ticker \in {"waiting", "cancelled"} => Answer(p) = NoAnswer \/ Answer(p).stamp = clock
           /\ p # NoPosition => Answer(p) # NoAnswer /\ Answer(p).stamp = stamps[p[1]]
<1>1. p # NoPosition => Answer(p).stamp = stamps[p[1]] /\ Answer(p).point = p
  BY DEF Answer, ReadAs
<1>2. p = NoPosition => Answer(p) = NoAnswer
  BY DEF Answer
<1>3. NoAnswer.point = NoPosition
  BY DEF NoAnswer
<1> QED
  BY <1>1, <1>2, <1>3 DEF ServersInv, StampInv

\* One more answer.
LEMMA OneMoreAnswer ==
    ASSUME NEW request, Answering(request), request.at = "reading", NEW a,
           ticker # "dead" => a = NoAnswer \/ a.stamp = clock
    PROVE  LET r == [request EXCEPT !.got = Append(@, a)]
           IN  Answering(r) /\ r.at = "reading"
<1>1. PICK S : request.got \in Seq(S)
  BY DEF Answering
<1> DEFINE r == [request EXCEPT !.got = Append(@, a)]
<1>2. r.got = Append(request.got, a) /\ r.at = request.at /\ "at" \in DOMAIN r /\ "got" \in DOMAIN r
  BY DEF Answering
<1>3. r.got \in Seq(S \cup {a})
  BY <1>1, <1>2
<1>4. \A i \in DOMAIN r.got : r.got[i] = a \/ (i \in DOMAIN request.got /\ r.got[i] = request.got[i])
  BY <1>1, <1>2
<1> HIDE DEF r
<1>5. ticker # "dead" => \A i \in DOMAIN r.got : r.got[i] = NoAnswer \/ r.got[i].stamp = clock
  BY <1>4 DEF Answering
<1>6. Answering(r)
  BY <1>2, <1>3, <1>5 DEF Answering
<1> QED
  BY <1>2, <1>6 DEF r

-----------------------------------------------------------------------------
(* The steps. *)

\* A tick changes values only.
LEMMA DeviceStep ==
    ASSUME DevicesIn(sim), TickDevice
    PROVE  /\ DevicesIn(sim') /\ DOMAIN sim' = DOMAIN sim
           /\ SimulatedPoints(sim') = SimulatedPoints(sim)
<1>1. PICK chance : sim' = [sim EXCEPT ![next].points =
                        AdvanceAll(sim[next].points, clock, get_occupancy(config.days[day], clock), chance)]
  BY DEF TickDevice
<1> DEFINE A == AdvanceAll(sim[next].points, clock, get_occupancy(config.days[day], clock), chance)
<1>2. DOMAIN A = DOMAIN sim[next].points
  BY DEF AdvanceAll
<1> HIDE DEF A
<1>3. DOMAIN sim' = DOMAIN sim /\ sim' = [d \in DOMAIN sim' |-> sim'[d]]
  BY <1>1
<1>4. Len(sim') = Len(sim)
  BY <1>3, LengthIs DEF DevicesIn
<1>5. \A d \in DOMAIN sim : sim'[d] = sim[d] \/ (d = next /\ sim'[d] = [sim[d] EXCEPT !.points = A])
  BY <1>1 DEF A
<1>6. DevicesIn(sim')
  BY <1>3, <1>4, <1>5, DevicesKept
<1>7. ASSUME NEW d \in DOMAIN sim
      PROVE  DOMAIN sim'[d].points = DOMAIN sim[d].points
  BY <1>2, <1>5 DEF DevicesIn
<1>8. SimulatedPoints(sim') = SimulatedPoints(sim)
  BY <1>3, <1>7 DEF SimulatedPoints
<1> QED
  BY <1>3, <1>6, <1>8

\* Nobody reads while the tick loop runs.
LEMMA TickStep ==
    ASSUME ServersInv, Tick \/ TickCancelled, UNCHANGED <<app, servers>>
    PROVE  ServersInv'
<1>0. /\ listener' = listener /\ bacnet' = bacnet /\ modbus' = modbus /\ opcua' = opcua
      /\ cache' = cache /\ opcua_read' = opcua_read /\ config' = config
  BY DEF app, servers, Tick, TickBegins, TickDevice, TickEnds, TickCancelled
<1>1. ReadInv'
  <2>1. /\ clock \in Nat /\ (clock' = clock \/ clock' = clock + 1)
        /\ ticker' # "dead" => ticker # "dead"
    BY DEF Tick, TickBegins, TickDevice, TickEnds, TickCancelled, ServersInv, ReadInv, LockInv
  <2>2. ASSUME NEW copy, Dated(copy), NEW q \in DOMAIN copy
        PROVE  copy[q].stamp \in Nat /\ copy[q].stamp <= clock'
    BY <2>1, <2>2 DEF Dated
  <2>3. ticker # "dead" => (Dated(opcua_read))' /\ (Dated(cache))' /\ (Dated(opcua.got))'
    BY <1>0, <2>2 DEF ServersInv, ReadInv, Dated
  <2> QED
    BY <1>0, <2>1, <2>3 DEF ServersInv, ReadInv, NoNewer, NeverOlder
<1>2. CASE TickBegins
  <2>1. bacnet.at # "reading" /\ modbus.at # "reading" /\ opcua.at # "copying" /\ ticker # "dead"
    BY <1>2 DEF TickBegins, ServersInv, LockInv
  <2>2. sim' = sim /\ stamps' = stamps /\ ticker' = "advancing" /\ lock' = "tick" /\ next' = 1
    BY <1>2 DEF TickBegins
  <2>3. LockInv'
    BY <1>0, <2>1, <2>2 DEF LockInv
  <2>4. StampInv'
    BY <2>2 DEF ServersInv, StampInv, DevicesIn
  <2>5. (Answering(bacnet))' /\ (Answering(modbus))'
    BY <1>0, <2>1 DEF ServersInv, Answering
  <2>6. CacheInv'
    BY <1>0, <2>1, <2>2 DEF ServersInv, CacheInv, OfOneTick
  <2> QED
    BY <1>1, <2>2, <2>3, <2>4, <2>5, <2>6 DEF ServersInv
<1>3. CASE TickDevice
  <2>1. bacnet.at # "reading" /\ modbus.at # "reading" /\ opcua.at # "copying" /\ ticker # "dead"
    BY <1>3 DEF TickDevice, ServersInv, LockInv
  <2>2. /\ DevicesIn(sim') /\ DOMAIN sim' = DOMAIN sim
        /\ SimulatedPoints(sim') = SimulatedPoints(sim)
    BY <1>3, DeviceStep DEF ServersInv
  <2>3. LockInv'
    BY <1>0, <1>3, <2>1 DEF TickDevice, ServersInv, LockInv
  <2>4. StampInv'
    <3>1. stamps' = [stamps EXCEPT ![next] = clock] /\ clock' = clock
      BY <1>3 DEF TickDevice
    <3>2. \/ ticker' = "dead"
          \/ ticker' = "advancing" /\ next' = next + 1
      BY <1>3 DEF TickDevice
    <3>3. /\ next \in Nat /\ \A d \in DOMAIN sim : d < next => stamps[d] = clock
          /\ DOMAIN stamps = DOMAIN sim /\ DOMAIN sim = 1..Len(sim) /\ Len(sim) \in Nat
      BY <1>3 DEF TickDevice, ServersInv, StampInv, DevicesIn
    <3>4. \A d \in DOMAIN sim : d < next + 1 => stamps'[d] = clock
      BY <3>1, <3>3
    <3> QED
      BY <2>2, <3>1, <3>2, <3>3, <3>4 DEF StampInv
  <2>5. (Answering(bacnet))' /\ (Answering(modbus))'
    BY <1>0, <2>1 DEF ServersInv, Answering
  <2>6. CacheInv'
    BY <1>0, <2>1, <2>2 DEF ServersInv, CacheInv, OfOneTick
  <2> QED
    BY <1>1, <2>2, <2>3, <2>4, <2>5, <2>6 DEF ServersInv
<1>4. CASE TickEnds \/ TickCancelled
  <2>1. /\ sim' = sim /\ stamps' = stamps /\ clock' = clock
        /\ ticker # "dead" /\ ticker' \in {"waiting", "cancelled"}
    BY <1>4 DEF TickEnds, TickCancelled, ServersInv, LockInv
  <2>2. LockInv'
    BY <1>0, <1>4 DEF TickEnds, TickCancelled, ServersInv, LockInv
  <2>3. \A d \in DOMAIN sim : stamps[d] = clock
    <3>1. CASE TickCancelled
      BY <3>1 DEF TickCancelled, ServersInv, StampInv
    <3>2. CASE TickEnds
      <4>1. next > Len(sim) /\ next \in Nat /\ \A d \in DOMAIN sim : d < next => stamps[d] = clock
        BY <3>2 DEF TickEnds, ServersInv, StampInv
      <4> QED
        BY <4>1 DEF ServersInv, DevicesIn
    <3> QED
      BY <1>4, <3>1, <3>2
  <2>4. StampInv'
    BY <2>1, <2>3 DEF ServersInv, StampInv
  <2>5. (Answering(bacnet))' /\ (Answering(modbus))'
    BY <1>0, <2>1 DEF ServersInv, Answering
  <2>6. CacheInv'
    BY <1>0, <2>1 DEF ServersInv, CacheInv, OfOneTick
  <2> QED
    BY <1>1, <2>1, <2>2, <2>4, <2>5, <2>6 DEF ServersInv
<1> QED
  BY <1>2, <1>3, <1>4 DEF Tick

\* A step that leaves the engine alone and all but one reader.
EngineKept == config' = config /\ sim' = sim /\ ticker' = ticker /\ next' = next /\ clock' = clock
                /\ stamps' = stamps

\* A step that leaves the engine alone keeps what is known of the servers it leaves alone.
LEMMA Kept ==
    ASSUME ServersInv, EngineKept
    PROVE  /\ DevicesIn(sim)' /\ StampInv'
           /\ bacnet' = bacnet => (Answering(bacnet))'
           /\ modbus' = modbus => (Answering(modbus))'
           /\ opcua' = opcua /\ cache' = cache => CacheInv'
           /\ opcua' = opcua /\ cache' = cache /\ opcua_read' = opcua_read => ReadInv'
<1>1. DevicesIn(sim)' /\ StampInv'
  BY DEF ServersInv, EngineKept, StampInv
<1>2. ASSUME bacnet' = bacnet
      PROVE  (Answering(bacnet))'
  BY <1>2 DEF ServersInv, EngineKept, Answering
<1>3. ASSUME modbus' = modbus
      PROVE  (Answering(modbus))'
  BY <1>3 DEF ServersInv, EngineKept, Answering
<1>4. ASSUME opcua' = opcua, cache' = cache
      PROVE  CacheInv'
  BY <1>4 DEF ServersInv, EngineKept, CacheInv, OfOneTick
<1>5. ASSUME opcua' = opcua, cache' = cache, opcua_read' = opcua_read
      PROVE  ReadInv'
  BY <1>5 DEF ServersInv, EngineKept, ReadInv, Dated, NoNewer, NeverOlder
<1> QED
  BY <1>1, <1>2, <1>3, <1>4, <1>5

\* A listener starts, with a cache of one tick, or ends.
LEMMA ListenerStep ==
    ASSUME ServersInv,
           Cancel \/ \E i \in DOMAIN listener : Serve(i) \/ ServeFails(i) \/ StopListener(i)
    PROVE  ServersInv'
<1>0. /\ EngineKept /\ lock' = lock /\ bacnet' = bacnet /\ modbus' = modbus
      /\ opcua_read' = opcua_read
  BY DEF Cancel, Serve, ServeFails, StopListener, engine, servers, EngineKept
<1>1. DevicesIn(sim)' /\ StampInv' /\ (Answering(bacnet))' /\ (Answering(modbus))'
  BY <1>0, Kept
<1>2. CASE opcua' = opcua /\ cache' = cache
  <2>1. LockInv'
    BY <1>0, <1>2 DEF EngineKept, ServersInv, LockInv
  <2> QED
    BY <1>0, <1>1, <1>2, <2>1, Kept DEF ServersInv
<1>3. CASE /\ lock = "free" /\ opcua' = Waiting
           /\ cache' = [p \in SimulatedPoints(sim) |-> ReadAs(p)]
  <2>1. ASSUME NEW p \in SimulatedPoints(sim)
        PROVE  /\ ReadAs(p) # NoAnswer
               /\ ticker # "dead" => ReadAs(p).stamp = clock
    <3>1. p # NoPosition /\ p[1] \in DOMAIN sim /\ Answer(p) = ReadAs(p)
      BY DEF SimulatedPoints, NoPosition, Answer
    <3>2. ticker # "dead" => ticker \in {"waiting", "cancelled"}
      BY <1>3 DEF ServersInv, LockInv
    <3> QED
      BY <3>1, <3>2, ReadsAreOfNow
  <2>2. /\ opcua'.at = "waiting" /\ opcua'.got = <<>> /\ DOMAIN opcua'.got = {}
        /\ "at" \in DOMAIN opcua' /\ "got" \in DOMAIN opcua'
    BY <1>3 DEF Waiting
  <2>3. DOMAIN cache' = SimulatedPoints(sim) /\ \A p \in DOMAIN cache' : cache'[p] = ReadAs(p)
    BY <1>3
  <2>4. LockInv'
    BY <1>0, <2>2 DEF EngineKept, ServersInv, LockInv
  <2>5. CacheInv'
    BY <1>0, <2>1, <2>2, <2>3 DEF ServersInv, EngineKept, CacheInv, OfOneTick
  <2>6. ReadInv'
    <3>1. ticker # "dead" => \A p \in DOMAIN cache' : cache'[p].stamp = clock
      BY <2>1, <2>3
    <3>2. clock \in Nat /\ clock' = clock /\ ticker' = ticker
      BY <1>0 DEF ServersInv, ReadInv, EngineKept
    <3>3. ticker # "dead" => /\ (Dated(cache))' /\ (Dated(opcua.got))' /\ (Dated(opcua_read))'
                             /\ (NoNewer(opcua_read, cache))' /\ (NoNewer(cache, opcua.got))'
      BY <1>0, <2>2, <3>1, <3>2 DEF ServersInv, ReadInv, Dated, NoNewer
    <3> QED
      BY <1>0, <3>2, <3>3 DEF ServersInv, ReadInv, NeverOlder
  <2> QED
    BY <1>1, <2>4, <2>5, <2>6 DEF ServersInv
<1> QED
  BY <1>2, <1>3 DEF Cancel, Serve, ServeFails, StopListener, servers

\* A request is received, answered value by value under the mutex, and sent.
LEMMA RequestStep ==
    ASSUME ServersInv, Bacnet \/ Modbus
    PROVE  ServersInv'
<1>0. /\ EngineKept /\ opcua' = opcua /\ cache' = cache /\ opcua_read' = opcua_read
      /\ modbus' = modbus \/ bacnet' = bacnet
  BY DEF Bacnet, Modbus, ReceiveReadMultiple, LockForRead, ReadReference, AnswerRead, ReceiveWhoIs,
         SendIAm, ReceiveReadRegisters, LockForRegisters, ReadWord, AnswerRegisters,
         engine, app, SimUnchanged, EngineKept
<1>1. DevicesIn(sim)' /\ StampInv' /\ CacheInv' /\ ReadInv'
  BY <1>0, Kept
<1>2. /\ bacnet' = bacnet => (Answering(bacnet))'
      /\ modbus' = modbus => (Answering(modbus))'
  BY <1>0, Kept
<1>3. \E S : <<>> \in Seq(S)
  <2>1. <<>> \in Seq({})
    OBVIOUS
  <2> QED
    BY <2>1
<1>4. DOMAIN <<>> = {}
  OBVIOUS
<1>5. CASE ReceiveReadMultiple \/ ReceiveWhoIs
  <2>1. modbus' = modbus /\ lock' = lock
    BY <1>5 DEF ReceiveReadMultiple, ReceiveWhoIs, engine
  <2>2. bacnet'.at # "reading" /\ bacnet'.got = <<>> /\ "at" \in DOMAIN bacnet' /\ "got" \in DOMAIN bacnet'
    BY <1>5 DEF ReceiveReadMultiple, ReceiveWhoIs, Idle
  <2>3. (Answering(bacnet))'
    BY <1>3, <1>4, <2>2 DEF Answering
  <2>4. LockInv'
    BY <1>0, <2>1, <2>2 DEF ServersInv, EngineKept, LockInv
  <2> QED
    BY <1>1, <1>2, <2>1, <2>3, <2>4 DEF ServersInv
<1>6. CASE SendIAm
  <2>1. modbus' = modbus /\ lock' = lock
    BY <1>6 DEF SendIAm, engine
  <2>2. bacnet'.at # "reading" /\ bacnet'.got = <<>> /\ "at" \in DOMAIN bacnet' /\ "got" \in DOMAIN bacnet'
    BY <1>6 DEF SendIAm, Idle, ServersInv, Answering
  <2>3. (Answering(bacnet))'
    BY <1>3, <1>4, <2>2 DEF Answering
  <2>4. LockInv'
    BY <1>0, <2>1, <2>2 DEF ServersInv, EngineKept, LockInv
  <2> QED
    BY <1>1, <1>2, <2>1, <2>3, <2>4 DEF ServersInv
<1>7. CASE ReceiveReadRegisters
  <2>1. bacnet' = bacnet /\ lock' = lock
    BY <1>7 DEF ReceiveReadRegisters, engine
  <2>2. modbus'.at # "reading" /\ modbus'.got = <<>> /\ "at" \in DOMAIN modbus' /\ "got" \in DOMAIN modbus'
    BY <1>7 DEF ReceiveReadRegisters, Idle
  <2>3. (Answering(modbus))'
    BY <1>3, <1>4, <2>2 DEF Answering
  <2>4. LockInv'
    BY <1>0, <2>1, <2>2 DEF ServersInv, EngineKept, LockInv
  <2> QED
    BY <1>1, <1>2, <2>1, <2>3, <2>4 DEF ServersInv
<1>8. CASE LockForRead
  <2>1. /\ modbus' = modbus /\ lock = "free" /\ lock' = "bacnet"
        /\ bacnet.at = "locking" /\ bacnet' = [bacnet EXCEPT !.at = "reading"]
    BY <1>8 DEF LockForRead, Acquire
  <2>2. /\ bacnet'.at = "reading" /\ bacnet'.got = <<>>
        /\ "at" \in DOMAIN bacnet' /\ "got" \in DOMAIN bacnet'
    BY <2>1 DEF ServersInv, Answering
  <2>3. (Answering(bacnet))'
    BY <1>3, <1>4, <2>2 DEF Answering
  <2>4. LockInv'
    BY <1>0, <2>1 DEF ServersInv, EngineKept, LockInv
  <2> QED
    BY <1>1, <1>2, <2>1, <2>3, <2>4 DEF ServersInv
<1>9. CASE LockForRegisters
  <2>1. /\ bacnet' = bacnet /\ lock = "free" /\ lock' = "modbus"
        /\ modbus.at = "locking" /\ modbus' = [modbus EXCEPT !.at = "reading"]
    BY <1>9 DEF LockForRegisters, Acquire
  <2>2. /\ modbus'.at = "reading" /\ modbus'.got = <<>>
        /\ "at" \in DOMAIN modbus' /\ "got" \in DOMAIN modbus'
    BY <2>1 DEF ServersInv, Answering
  <2>3. (Answering(modbus))'
    BY <1>3, <1>4, <2>2 DEF Answering
  <2>4. LockInv'
    BY <1>0, <2>1 DEF ServersInv, EngineKept, LockInv
  <2> QED
    BY <1>1, <1>2, <2>1, <2>3, <2>4 DEF ServersInv
<1>10. CASE AnswerRead
  <2>1. modbus' = modbus /\ lock = "bacnet" /\ lock' = "free" /\ bacnet' = Idle
    BY <1>10 DEF AnswerRead, Release
  <2>2. /\ bacnet'.at # "reading" /\ bacnet'.got = <<>>
        /\ "at" \in DOMAIN bacnet' /\ "got" \in DOMAIN bacnet'
    BY <2>1 DEF Idle
  <2>3. (Answering(bacnet))'
    BY <1>3, <1>4, <2>2 DEF Answering
  <2>4. LockInv'
    BY <1>0, <2>1, <2>2 DEF ServersInv, EngineKept, LockInv
  <2> QED
    BY <1>1, <1>2, <2>1, <2>3, <2>4 DEF ServersInv
<1>11. CASE AnswerRegisters
  <2>1. bacnet' = bacnet /\ lock = "modbus" /\ lock' = "free" /\ modbus' = Idle
    BY <1>11 DEF AnswerRegisters, Release
  <2>2. /\ modbus'.at # "reading" /\ modbus'.got = <<>>
        /\ "at" \in DOMAIN modbus' /\ "got" \in DOMAIN modbus'
    BY <2>1 DEF Idle
  <2>3. (Answering(modbus))'
    BY <1>3, <1>4, <2>2 DEF Answering
  <2>4. LockInv'
    BY <1>0, <2>1, <2>2 DEF ServersInv, EngineKept, LockInv
  <2> QED
    BY <1>1, <1>2, <2>1, <2>3, <2>4 DEF ServersInv
<1>12. CASE ReadReference
  <2> DEFINE point == PointAt(sim, bacnet.asked[Len(bacnet.got) + 1])
             found == resolve_property_read(sim, point.object_type, point.instance)
  <2>1. /\ modbus' = modbus /\ lock' = lock /\ bacnet.at = "reading"
        /\ bacnet' = [bacnet EXCEPT !.got = Append(@, Answer(found))]
    BY <1>12 DEF ReadReference, engine
  <2>2. found = NoPosition \/ (found # NoPosition /\ found[1] \in DOMAIN sim)
    BY ResolveFinds DEF ServersInv
  <2> HIDE DEF found
  <2>3. ticker # "dead" => Answer(found) = NoAnswer \/ Answer(found).stamp = clock
    BY <2>1, <2>2, ReadsAreOfNow DEF ServersInv, LockInv
  <2>4. Answering(bacnet') /\ bacnet'.at = "reading"
    BY <2>1, <2>3, OneMoreAnswer DEF ServersInv
  <2>5. (Answering(bacnet))'
    BY <1>0, <2>4 DEF EngineKept, Answering
  <2>6. LockInv'
    BY <1>0, <2>1 DEF ServersInv, EngineKept, LockInv
  <2> QED
    BY <1>1, <1>2, <2>1, <2>5, <2>6 DEF ServersInv
<1>13. CASE ReadWord
  <2> DEFINE cell == map[modbus.asked[Len(modbus.got) + 1]]
             found == Lookup(sim, cell.device_id, cell.object_type, cell.instance)
  <2>1. /\ bacnet' = bacnet /\ lock' = lock /\ modbus.at = "reading"
        /\ modbus' = [modbus EXCEPT !.got = Append(@, Answer(found))]
    BY <1>13 DEF ReadWord, engine
  <2>2. found = NoPosition \/ (found # NoPosition /\ found[1] \in DOMAIN sim)
    BY LookupFinds DEF ServersInv
  <2> HIDE DEF found
  <2>3. ticker # "dead" => Answer(found) = NoAnswer \/ Answer(found).stamp = clock
    BY <2>1, <2>2, ReadsAreOfNow DEF ServersInv, LockInv
  <2>4. Answering(modbus') /\ modbus'.at = "reading"
    BY <2>1, <2>3, OneMoreAnswer DEF ServersInv
  <2>5. (Answering(modbus))'
    BY <1>0, <2>4 DEF EngineKept, Answering
  <2>6. LockInv'
    BY <1>0, <2>1 DEF ServersInv, EngineKept, LockInv
  <2> QED
    BY <1>1, <1>2, <2>1, <2>5, <2>6 DEF ServersInv
<1> QED
  BY <1>5, <1>6, <1>7, <1>8, <1>9, <1>10, <1>11, <1>12, <1>13 DEF Bacnet, Modbus

\* The cache is refreshed: every point is copied under the mutex, then all are written.
LEMMA RefreshStep ==
    ASSUME ServersInv, Refresh
    PROVE  ServersInv'
<1>0. EngineKept /\ opcua_read' = opcua_read /\ bacnet' = bacnet /\ modbus' = modbus
  BY DEF Refresh, RefreshBegins, CopyPoint, CopyEnds, WriteCache, engine, app, SimUnchanged, EngineKept
<1>1. DevicesIn(sim)' /\ StampInv' /\ (Answering(bacnet))' /\ (Answering(modbus))'
  BY <1>0, Kept
<1>2. CacheInv /\ ReadInv /\ LockInv /\ DevicesIn(sim)
  BY DEF ServersInv
<1>a. ReadInv' <=>
        (ticker # "dead" => /\ (Dated(cache))' /\ (Dated(opcua.got))'
                            /\ (NoNewer(opcua_read, cache))' /\ (NoNewer(cache, opcua.got))')
  BY <1>0, <1>2 DEF EngineKept, ReadInv, Dated, NeverOlder
<1>3. CASE RefreshBegins
  <2>1. /\ opcua' = [at |-> "copying", got |-> <<>>] /\ cache' = cache
        /\ lock = "free" /\ lock' = "opcua"
    BY <1>3 DEF RefreshBegins, Acquire
  <2>2. opcua'.at = "copying" /\ opcua'.got = <<>> /\ DOMAIN opcua'.got = {}
    BY <2>1
  <2>3. "at" \in DOMAIN opcua' /\ "got" \in DOMAIN opcua'
    BY <2>1
  <2>4. LockInv'
    BY <1>0, <1>2, <2>1, <2>2 DEF EngineKept, LockInv
  <2>5. CacheInv'
    BY <1>0, <1>2, <2>1, <2>2, <2>3 DEF EngineKept, CacheInv, OfOneTick
  <2>6. ReadInv'
    BY <1>0, <1>2, <1>a, <2>1, <2>2 DEF EngineKept, ReadInv, Dated, NoNewer
  <2> QED
    BY <1>1, <2>4, <2>5, <2>6 DEF ServersInv
<1>4. CASE CopyPoint
  <2>1. PICK p \in DOMAIN cache \ DOMAIN opcua.got :
           opcua' = [opcua EXCEPT !.got =
                       [q \in DOMAIN @ \cup {p} |-> IF q = p THEN neutral_value(p) ELSE @[q]]]
    BY <1>4 DEF CopyPoint
  <2>2. opcua.at = "copying" /\ cache' = cache /\ lock' = lock
    BY <1>4 DEF CopyPoint, engine
  <2> DEFINE got == [q \in DOMAIN opcua.got \cup {p} |-> IF q = p THEN neutral_value(p) ELSE opcua.got[q]]
  <2>3. /\ opcua'.got = got /\ opcua'.at = "copying"
        /\ "at" \in DOMAIN opcua' /\ "got" \in DOMAIN opcua'
    BY <1>2, <2>1, <2>2 DEF CacheInv
  <2>4. /\ neutral_value(p) # NoAnswer
        /\ ticker # "dead" => neutral_value(p).stamp = clock
    <3>1. p \in SimulatedPoints(sim)
      BY <1>2, <2>2 DEF CacheInv
    <3> DEFINE found == Lookup(sim, sim[p[1]].device_id, PointAt(sim, p).object_type,
                               PointAt(sim, p).instance)
    <3>2. found # NoPosition
      BY <1>2, <3>1, LookupMeets
    <3>3. found = NoPosition \/ (found # NoPosition /\ found[1] \in DOMAIN sim)
      BY <1>2, LookupFinds
    <3>4. neutral_value(p) = Answer(found)
      BY DEF neutral_value
    <3> HIDE DEF found
    <3>5. ticker # "dead" => ticker \in {"waiting", "cancelled"}
      BY <1>2, <2>2 DEF LockInv
    <3> QED
      BY <3>2, <3>3, <3>4, <3>5, ReadsAreOfNow
  <2>5. /\ \A q \in DOMAIN got : got[q] # NoAnswer
        /\ ticker # "dead" => \A q \in DOMAIN got : got[q].stamp = clock
    BY <1>2, <2>2, <2>4 DEF CacheInv, OfOneTick
  <2> HIDE DEF got
  <2>6. LockInv'
    BY <1>0, <1>2, <2>2, <2>3 DEF EngineKept, LockInv
  <2>7. CacheInv'
    BY <1>0, <1>2, <2>2, <2>3, <2>5 DEF EngineKept, CacheInv, OfOneTick
  <2>9. ReadInv'
    <3>1. clock \in Nat /\ clock' = clock
      BY <1>0, <1>2 DEF ReadInv, EngineKept
    <3>2. ASSUME ticker # "dead"
          PROVE  (Dated(cache))' /\ (NoNewer(opcua_read, cache))'
      BY <1>0, <1>2, <2>2, <3>1, <3>2 DEF ReadInv, Dated, NoNewer
    <3>3. ASSUME ticker # "dead"
          PROVE  (Dated(opcua.got))' /\ (NoNewer(cache, opcua.got))'
      <4>1. \A q \in DOMAIN got : got[q].stamp = clock
        BY <2>5, <3>3
      <4>2. \A q \in DOMAIN cache : cache[q].stamp <= clock
        BY <1>2, <3>3 DEF ReadInv, Dated
      <4> QED
        BY <2>2, <2>3, <3>1, <4>1, <4>2 DEF Dated, NoNewer
    <3> QED
      BY <1>a, <3>2, <3>3
  <2> QED
    BY <1>1, <2>6, <2>7, <2>9 DEF ServersInv
<1>5. CASE CopyEnds
  <2>1. /\ opcua' = [opcua EXCEPT !.at = "writing"] /\ cache' = cache /\ lock' = "free"
        /\ lock = "opcua" /\ opcua.at = "copying" /\ DOMAIN opcua.got = DOMAIN cache
    BY <1>5 DEF CopyEnds, Release
  <2>2. /\ opcua'.got = opcua.got /\ opcua'.at = "writing"
        /\ "at" \in DOMAIN opcua' /\ "got" \in DOMAIN opcua'
    BY <1>2, <2>1 DEF CacheInv
  <2>3. LockInv'
    BY <1>0, <1>2, <2>1, <2>2 DEF EngineKept, LockInv
  <2>4. CacheInv'
    BY <1>0, <1>2, <2>1, <2>2 DEF EngineKept, CacheInv, OfOneTick
  <2>5. ReadInv'
    BY <1>0, <1>2, <1>a, <2>1, <2>2 DEF EngineKept, ReadInv, Dated, NoNewer
  <2> QED
    BY <1>1, <2>3, <2>4, <2>5 DEF ServersInv
<1>6. CASE WriteCache
  <2>1. /\ opcua.at = "writing" /\ lock' = lock /\ opcua' = Waiting
        /\ cache' = [p \in DOMAIN cache |-> IF opcua.got[p] = NoAnswer THEN cache[p] ELSE opcua.got[p]]
    BY <1>6 DEF WriteCache, engine
  <2>2. DOMAIN cache' = DOMAIN cache /\ \A p \in DOMAIN cache : cache'[p] = opcua.got[p]
    BY <1>2, <2>1 DEF CacheInv, OfOneTick
  <2>3. opcua'.at = "waiting" /\ opcua'.got = <<>> /\ DOMAIN opcua'.got = {}
    BY <2>1 DEF Waiting
  <2>4. "at" \in DOMAIN opcua' /\ "got" \in DOMAIN opcua'
    BY <2>1 DEF Waiting
  <2>5. LockInv'
    BY <1>0, <1>2, <2>1, <2>3 DEF EngineKept, LockInv
  <2>6. CacheInv'
    BY <1>0, <1>2, <2>1, <2>2, <2>3, <2>4 DEF EngineKept, CacheInv, OfOneTick
  <2>7. ReadInv'
    <3>1. clock' = clock /\ ticker' = ticker /\ DOMAIN opcua.got = DOMAIN cache
      BY <1>0, <1>2, <2>1 DEF CacheInv, EngineKept
    <3>2. ASSUME ticker # "dead"
          PROVE  (Dated(cache))' /\ (Dated(opcua.got))' /\ (NoNewer(cache, opcua.got))'
      BY <1>2, <2>2, <2>3, <3>1, <3>2 DEF ReadInv, Dated, NoNewer
    <3>3. ASSUME ticker # "dead", NEW i \in DOMAIN opcua_read, NEW q \in DOMAIN cache
          PROVE  opcua_read[i].stamp <= opcua.got[q].stamp
      <4>1. /\ opcua_read[i].stamp \in Nat /\ cache[q].stamp \in Nat /\ opcua.got[q].stamp \in Nat
            /\ opcua_read[i].stamp <= cache[q].stamp /\ cache[q].stamp <= opcua.got[q].stamp
        BY <1>2, <3>1, <3>3 DEF ReadInv, Dated, NoNewer
      <4> QED
        BY <4>1
    <3>4. ticker # "dead" => (NoNewer(opcua_read, cache))'
      BY <1>0, <2>2, <3>3 DEF NoNewer
    <3> QED
      BY <1>a, <3>2, <3>4
  <2> QED
    BY <1>1, <2>5, <2>6, <2>7 DEF ServersInv
<1> QED
  BY <1>3, <1>4, <1>5, <1>6 DEF Refresh

\* A client reads the cache, node by node.
LEMMA ClientStep ==
    ASSUME ServersInv, OpcuaRead
    PROVE  ServersInv'
<1>0. /\ EngineKept /\ lock' = lock /\ bacnet' = bacnet /\ modbus' = modbus
      /\ opcua' = opcua /\ cache' = cache
  BY DEF OpcuaRead, ReadNode, AnswerNodes, engine, EngineKept
<1>1. /\ DevicesIn(sim)' /\ StampInv' /\ (Answering(bacnet))' /\ (Answering(modbus))'
      /\ CacheInv'
  BY <1>0, Kept
<1>2. LockInv'
  BY <1>0 DEF EngineKept, ServersInv, LockInv
<1> SUFFICES ReadInv'
  BY <1>1, <1>2 DEF ServersInv
<1>3. ReadInv /\ CacheInv
  BY DEF ServersInv
<1>a. ticker # "dead" => (Dated(cache))' /\ (Dated(opcua.got))' /\ (NoNewer(cache, opcua.got))'
  BY <1>0, <1>3 DEF EngineKept, ReadInv, Dated, NoNewer
<1>4. CASE AnswerNodes
  <2>1. opcua_read' = <<>> /\ DOMAIN <<>> = {} /\ <<>> \in Seq({})
    BY <1>4 DEF AnswerNodes
  <2> QED
    BY <1>0, <1>3, <1>a, <2>1 DEF EngineKept, ReadInv, Dated, NoNewer, NeverOlder
<1>5. CASE ReadNode
  <2>1. PICK p \in DOMAIN cache : opcua_read' = Append(opcua_read, cache[p])
    BY <1>5 DEF ReadNode
  <2>2. PICK S : opcua_read \in Seq(S)
    BY <1>3 DEF ReadInv
  <2>3. opcua_read' \in Seq(S \cup {cache[p]})
    BY <2>1, <2>2
  <2>4. /\ DOMAIN opcua_read = 1..Len(opcua_read) /\ Len(opcua_read) \in Nat
        /\ DOMAIN opcua_read' = 1..(Len(opcua_read) + 1)
        /\ opcua_read'[Len(opcua_read) + 1] = cache[p]
        /\ \A i \in DOMAIN opcua_read : opcua_read'[i] = opcua_read[i]
    BY <2>1, <2>2
  <2>5. \A i \in DOMAIN opcua_read' :
           opcua_read'[i] = cache[p] \/ (i \in DOMAIN opcua_read /\ opcua_read'[i] = opcua_read[i])
    BY <2>4
  <2>6. ASSUME ticker # "dead"
        PROVE  (Dated(opcua_read))' /\ (NoNewer(opcua_read, cache))' /\ (NeverOlder(opcua_read))'
    <3>1. Dated(opcua_read) /\ Dated(cache) /\ NoNewer(opcua_read, cache) /\ NeverOlder(opcua_read)
      BY <1>3, <2>6 DEF ReadInv
    <3>2. \A q, r \in DOMAIN cache : cache[q].stamp <= cache[r].stamp
      <4>1. \A q, r \in DOMAIN cache : cache[q].stamp = cache[r].stamp /\ cache[q].stamp \in Nat
        BY <1>3, <2>6, <3>1 DEF CacheInv, OfOneTick, Dated
      <4> QED
        BY <4>1
    <3>3. (Dated(opcua_read))' /\ (NoNewer(opcua_read, cache))'
      BY <1>0, <2>5, <3>1, <3>2 DEF EngineKept, Dated, NoNewer
    <3>4. ASSUME NEW i \in DOMAIN opcua_read', NEW j \in DOMAIN opcua_read', i < j
          PROVE  opcua_read'[i].stamp <= opcua_read'[j].stamp
      <4>1. i \in DOMAIN opcua_read /\ opcua_read'[i] = opcua_read[i]
        BY <2>4, <3>4
      <4>2. CASE j \in DOMAIN opcua_read
        BY <2>4, <3>1, <3>4, <4>1, <4>2 DEF NeverOlder
      <4>3. CASE opcua_read'[j] = cache[p]
        BY <3>1, <4>1, <4>3 DEF NoNewer
      <4> QED
        BY <2>5, <4>2, <4>3
    <3> QED
      BY <3>3, <3>4 DEF NeverOlder
  <2> QED
    BY <1>0, <1>3, <1>a, <2>3, <2>6 DEF EngineKept, ReadInv
<1> QED
  BY <1>4, <1>5 DEF OpcuaRead

\* While the tick loop lives, all values of one BACnet or Modbus answer, and the OPC UA
\* cache as a whole, are of one tick, for any configuration whose ids fit: the mutex is
\* held from the first value to the last, and the cache is written in one piece.  An
\* OPC UA answer is read node by node and may straddle that write; it never goes back
\* to an older tick.  Where ids collide, the cache keeps a point that its own lookup
\* does not find.
THEOREM AnswersAlways ==
    ASSUME \A c \in Configs : IdsFit(c)
    PROVE  Spec => []SimAnswersFollowTicks
<1> DEFINE RunInv == part = "servers" => ServersInv
<1>1. Init => RunInv
  <2> SUFFICES ASSUME Init, part = "servers"
               PROVE  ServersInv
    OBVIOUS
  <2>1. RunInit
    BY DEF Init, AddressesInit, ScreenInit
  <2> QED
    BY <2>1, InitServers DEF Init, RunInit
<1>2. RunInv /\ [Next]_<<part, vars, tui>> => RunInv'
  <2> SUFFICES ASSUME RunInv, [Next]_<<part, vars, tui>>, part' = "servers"
               PROVE  ServersInv'
    OBVIOUS
  <2>1. part = "servers" /\ ServersInv
    BY DEF Next
  <2>2. CASE UNCHANGED vars
    <3>1. EngineKept /\ lock' = lock /\ UNCHANGED <<app, servers>>
      BY <2>2 DEF vars, engine, EngineKept
    <3> QED
      BY <2>1, <3>1, Kept DEF app, servers, ServersInv, EngineKept, LockInv
  <2>3. CASE ServersNext
    BY <2>1, <2>3, TickStep, ListenerStep, RequestStep, RefreshStep, ClientStep
       DEF ServersNext, TickLoop, TickLoopCancelled
  <2> QED
    BY <2>1, <2>2, <2>3 DEF Next
<1>3. RunInv => SimAnswersFollowTicks
  <2> SUFFICES ASSUME ServersInv, ticker # "dead"
               PROVE  /\ OneTick(bacnet.got) /\ OneTick(modbus.got)
                      /\ OneTick(opcua.got) /\ OneTick(cache)
                      /\ NeverOlder(opcua_read)
    BY DEF SimAnswersFollowTicks, AnswersFollowTicks
  <2> QED
    BY DEF ServersInv, Answering, CacheInv, ReadInv, OfOneTick, OneTick
<1> QED
  BY <1>1, <1>2, <1>3, PTL DEF Spec

-----------------------------------------------------------------------------
(* The values of the points.                                               *)

\* The steps of a schedule that are over are the first ones, in whatever order
\* their times are.
LEMMA OverIsFirst ==
    ASSUME NEW schedule \in Schedules, schedule # <<>>, NEW now \in Nat
    PROVE  \E m \in 1..Len(schedule) :
               /\ Over(schedule, now) = 2..m
               /\ Cardinality(Over(schedule, now)) = m - 1
<1> DEFINE L == Len(schedule)
           S == Over(schedule, now)
           Left == 2..L \ S
<1>1. L \in Nat /\ L # 0
  BY DEF Schedules
<1>2. S \subseteq 2..L
  BY DEF Over
<1>3. ASSUME NEW i \in S, NEW j \in 2..L, j <= i
      PROVE  j \in S
  <2>1. \A h \in 2..j : h \in 2..i
    BY <1>1, <1>2, <1>3
  <2> QED
    BY <2>1, <1>3 DEF Over
<1>4. \E m \in 1..L : S = 2..m
  <2>1. CASE Left = {}
    <3>1. S = 2..L
      <4> HIDE DEF S
      <4> QED
        BY <2>1, <1>2
    <3>2. L \in 1..L
      BY <1>1
    <3> QED
      BY <3>1, <3>2
  <2>2. CASE Left # {}
    <3>1. Left \in SUBSET Nat
      BY <1>1
    <3>2. PICK x \in Left : \A y \in Left : x <= y
      <4> HIDE DEF Left
      <4> QED
        BY <2>2, <3>1, Lowest
    <3>3. x \in 2..L /\ x \notin S /\ x - 1 \in 1..L
      BY <1>1
    <3>4. ASSUME NEW i \in 2..(x - 1)
          PROVE  i \in S
      <4>1. i \in 2..L /\ ~(x <= i)
        BY <1>1, <3>3
      <4> QED
        BY <3>2, <4>1
    <3>5. ASSUME NEW i \in S
          PROVE  i \in 2..(x - 1)
      <4>1. i \in 2..L /\ ~(x <= i)
        BY <1>2, <1>3, <3>3
      <4> QED
        BY <3>3, <4>1
    <3>6. S = 2..(x - 1)
      <4> HIDE DEF S
      <4> QED
        BY <3>4, <3>5
    <3> QED
      BY <3>3, <3>6
  <2> QED
    BY <2>1, <2>2
<1>5. PICK m \in 1..L : S = 2..m
  BY <1>4
<1>6. Cardinality(2..m) = m - 1
  <2>1. m \in Int /\ 2 \in Int /\ (2 > m => m = 1)
    BY <1>1
  <2>2. Cardinality(2..m) = IF 2 > m THEN 0 ELSE m - 2 + 1
    BY <2>1, FS_Interval
  <2> QED
    BY <2>1, <2>2
<1> QED
  BY <1>5, <1>6 DEF S, L

\* The part of a step that is over lies between its ends.
LEMMA PartOfStep ==
    ASSUME NEW step \in Int, NEW now \in Nat, NEW all \in Nat \ {0}, now <= all
    PROVE  /\ (now * step) \div all \in Int
           /\ step >= 0 => 0 <= (now * step) \div all /\ (now * step) \div all <= step
           /\ step <= 0 => step <= (now * step) \div all /\ (now * step) \div all <= 0
<1> DEFINE x == now * step
           q == x \div all
<1>1. /\ x \in Int /\ all * step \in Int
      /\ step >= 0 => 0 <= x /\ x <= all * step
      /\ step <= 0 => all * step <= x /\ x <= 0
  <2>1. ASSUME NEW a \in Nat, NEW b \in Nat
        PROVE  a * b \in Nat
    OBVIOUS
  <2>2. all - now \in Nat /\ all * step = now * step + (all - now) * step
    OBVIOUS
  <2>3. CASE step >= 0
    <3>1. step \in Nat /\ now * step \in Nat /\ (all - now) * step \in Nat
      BY <2>1, <2>2, <2>3
    <3>2. step <= 0 => x = 0 /\ all * step = 0
      BY <2>3
    <3> QED
      BY <2>2, <2>3, <3>1, <3>2
  <2>4. CASE step < 0
    <3>1. -step \in Nat /\ now * (-step) \in Nat /\ (all - now) * (-step) \in Nat
      BY <2>1, <2>2, <2>4
    <3>2. now * (-step) = -(now * step) /\ (all - now) * (-step) = -((all - now) * step)
      BY <2>2
    <3>3. now * step \in Int /\ (all - now) * step \in Int
      BY <2>2
    <3> QED
      BY <2>2, <2>4, <3>1, <3>2, <3>3
  <2> QED
    BY <2>3, <2>4
<1>2. q \in Int /\ \A y \in Int : (all * y <= x => y <= q) /\ (x <= all * y => q <= y)
  <2> HIDE DEF x
  <2>1. q \in Int /\ all * q <= x /\ x < all * q + all
    BY <1>1
  <2>2. ASSUME NEW y \in Int
        PROVE  (all * y <= x => y <= q) /\ (x <= all * y => q <= y)
    <3> HIDE DEF q
    <3>1. ASSUME y >= q + 1
          PROVE  all * y >= all * q + all
      <4>1. y - q - 1 \in Nat /\ all * y = all * q + all + all * (y - q - 1)
        BY <2>1, <3>1
      <4>2. all * (y - q - 1) \in Nat
        BY <4>1
      <4> QED
        BY <2>1, <4>1, <4>2
    <3>2. ASSUME y <= q - 1
          PROVE  all * y + all <= all * q
      <4>1. q - y - 1 \in Nat /\ all * q = all * y + all + all * (q - y - 1)
        BY <2>1, <3>2
      <4>2. all * (q - y - 1) \in Nat
        BY <4>1
      <4> QED
        BY <2>1, <4>1, <4>2
    <3>3. all * y \in Int /\ all * q \in Int
      BY <2>1
    <3>4. y >= q + 1 \/ y = q \/ y <= q - 1
      BY <2>1
    <3> QED
      BY <1>1, <2>1, <3>1, <3>2, <3>3, <3>4
  <2> QED
    BY <2>1, <2>2
<1>3. all * 0 = 0
  OBVIOUS
<1> HIDE DEF x, q
<1> QED
  BY <1>1, <1>2, <1>3 DEF x, q

ValuesOf(schedule) == {schedule[i].value : i \in DOMAIN schedule} \cup {0}

\* The occupancy lies between two values of the schedule, unless its first two
\* times are equal.
LEMMA OccupancyBetween ==
    ASSUME NEW schedule \in Schedules, Distinct(schedule), NEW now \in Nat
    PROVE  /\ ValuesOf(schedule) \subseteq Int
           /\ get_occupancy(schedule, now) \in Int
           /\ \E low, high \in ValuesOf(schedule) :
                 low <= get_occupancy(schedule, now) /\ get_occupancy(schedule, now) <= high
<1> DEFINE L == Len(schedule)
           occupancy == get_occupancy(schedule, now)
<1>1. /\ L \in Nat /\ DOMAIN schedule = 1..L
      /\ \A i \in 1..L : schedule[i].time \in Nat /\ schedule[i].value \in Int
  <2>1. schedule \in Seq([time : Nat, value : Int])
    BY DEF Schedules
  <2>2. L \in Nat /\ DOMAIN schedule = 1..L
    BY <2>1, LenProperties
  <2>3. \A i \in 1..L : schedule[i] \in [time : Nat, value : Int]
    BY <2>1, <2>2, ElementOfSeq, Zenon
  <2> QED
    BY <2>2, <2>3
<1>2. ValuesOf(schedule) \subseteq Int /\ 0 \in ValuesOf(schedule)
  BY <1>1 DEF ValuesOf
<1>3. \A i \in 1..L : schedule[i].value \in ValuesOf(schedule)
  BY <1>1 DEF ValuesOf
<1>4. ASSUME occupancy \in ValuesOf(schedule)
      PROVE  occupancy \in Int /\ \E low, high \in ValuesOf(schedule) : low <= occupancy /\ occupancy <= high
  <2>1. occupancy \in Int /\ occupancy <= occupancy
    BY <1>2, <1>4
  <2> QED
    BY <1>4, <2>1
<1>5. CASE schedule = <<>>
  <2>1. occupancy = 0
    BY <1>5 DEF get_occupancy
  <2> QED
    BY <1>2, <1>4, <2>1
<1>6. CASE schedule # <<>>
  <2>1. PICK m \in 1..L : Over(schedule, now) = 2..m /\ Cardinality(Over(schedule, now)) = m - 1
    BY <1>6, OverIsFirst
  <2>2. 1 \in 1..L /\ 1 + (m - 1) = m /\ L - 1 - (m - 1) = L - m /\ L - (L - m) + 1 = m + 1
    BY <1>1
  <2> DEFINE prev == schedule[m]
             succ == schedule[m + 1]
  <2>3. CASE now < schedule[1].time
    <3>1. occupancy = schedule[1].value
      BY <1>6, <2>3 DEF get_occupancy
    <3> QED
      BY <1>2, <1>3, <1>4, <2>2, <3>1
  <2>4. CASE ~(now < schedule[1].time) /\ m = L
    <3>1. occupancy = prev.value
      BY <1>1, <1>6, <2>1, <2>2, <2>4 DEF get_occupancy
    <3> QED
      BY <1>2, <1>3, <1>4, <3>1
  <2>5. CASE ~(now < schedule[1].time) /\ m # L
    <3>1. m + 1 \in 2..L /\ m + 1 \in 1..L /\ m + 1 \notin Over(schedule, now)
      <4>1. m \in Nat /\ m >= 1 /\ m < L
        <5>1. m # L /\ L \in Nat /\ m \in 1..L
          BY <1>1, <2>5
        <5> HIDE DEF L
        <5> QED
          BY <5>1
      <4>2. m + 1 \notin 2..m
        BY <4>1
      <4> QED
        BY <1>1, <2>1, <4>1, <4>2
    <3>2. now <= succ.time
      <4>1. PICK j \in 2..(m + 1) : ~(now > schedule[j].time)
        BY <3>1 DEF Over
      <4>2. \A i \in Over(schedule, now) : now > schedule[i].time
        BY DEF Over
      <4>3. j = m + 1
        BY <2>1, <4>1, <4>2
      <4> QED
        BY <1>1, <3>1, <4>1, <4>3
    <3>3. prev.time <= now /\ prev.time # succ.time
      <4>1. CASE m = 1
        <5>1. L >= 2 /\ schedule[1].time # schedule[2].time
          BY <1>1, <2>5, <4>1 DEF Distinct
        <5> QED
          BY <1>1, <2>2, <2>5, <4>1, <5>1
      <4>2. CASE m # 1
        <5>1. m \in Over(schedule, now) /\ m \in 2..m
          BY <2>1, <4>2
        <5>2. now > prev.time
          BY <5>1 DEF Over
        <5> QED
          BY <1>1, <3>1, <3>2, <5>2
      <4> QED
        BY <4>1, <4>2
    <3> DEFINE moved == ((now - prev.time) * (succ.value - prev.value)) \div (succ.time - prev.time)
    <3>4. occupancy = prev.value + moved
      <4>1. L - m # 0
        <5>1. L \in Int /\ m \in Int
          BY <1>1
        <5> QED
          BY <5>1, <2>5
      <4> QED
        BY <1>6, <2>1, <2>2, <2>5, <3>3, <4>1 DEF get_occupancy
    <3>5. /\ prev.value \in Int /\ succ.value \in Int /\ prev.time \in Nat /\ succ.time \in Nat
          /\ prev.value \in ValuesOf(schedule) /\ succ.value \in ValuesOf(schedule)
      BY <1>1, <1>3, <3>1
    <3> HIDE DEF prev, succ
    <3>6. /\ now - prev.time \in Nat /\ succ.time - prev.time \in Nat \ {0}
          /\ now - prev.time <= succ.time - prev.time /\ succ.value - prev.value \in Int
      <4>1. \A u, a, b \in Nat : a <= u /\ u <= b /\ a # b =>
               u - a \in Nat /\ b - a \in Nat \ {0} /\ u - a <= b - a
        OBVIOUS
      <4> HIDE DEF occupancy, moved, L
      <4>2. succ.value - prev.value \in Int
        BY <3>5
      <4> QED
        BY <3>2, <3>3, <3>5, <4>1, <4>2, Zenon
    <3>7. /\ moved \in Int
          /\ succ.value - prev.value >= 0 => 0 <= moved /\ moved <= succ.value - prev.value
          /\ succ.value - prev.value <= 0 => succ.value - prev.value <= moved /\ moved <= 0
      BY <3>6, PartOfStep
    <3> HIDE DEF moved
    <3>8. \/ prev.value <= occupancy /\ occupancy <= succ.value
          \/ succ.value <= occupancy /\ occupancy <= prev.value
      BY <3>4, <3>5, <3>7
    <3>9. occupancy \in Int
      BY <3>4, <3>5, <3>7
    <3> HIDE DEF occupancy
    <3> QED
      BY <1>2, <3>5, <3>8, <3>9 DEF occupancy
  <2> QED
    BY <2>3, <2>4, <2>5
<1> QED
  BY <1>2, <1>5, <1>6

-----------------------------------------------------------------------------
(* A device advances. *)

PointFields == {"label", "object_type", "instance", "profile", "value", "memory"}

\* The points of a device.
PointsIn(points) ==
    /\ Len(points) \in Nat /\ DOMAIN points = 1..Len(points)
    /\ \A k \in DOMAIN points : /\ DOMAIN points[k] = PointFields
                                /\ DOMAIN points[k].memory = {"held", "elapsed"}
                                /\ ProfileFine(points[k].profile)

\* What a point reads of its siblings depends on the points before it.
LEMMA SameSibling ==
    ASSUME NEW points, PointsIn(points), NEW k \in DOMAIN points, NEW f, NEW g,
           \A i \in 1..(k - 1) : f[i] = g[i], NEW label
    PROVE  Sibling(points, f, k, label) = Sibling(points, g, k, label)
<1> DEFINE labelled  == {i \in DOMAIN points : points[i].label = label}
           ticked == {i \in labelled : i < k}
<1>1. ASSUME ticked # {}
      PROVE  f[Max(ticked)] = g[Max(ticked)]
  <2>1. ticked \in SUBSET (1..(k - 1)) /\ k - 1 \in Nat
    BY DEF PointsIn
  <2> HIDE DEF ticked
  <2>2. Max(ticked) \in ticked
    BY <1>1, <2>1, Highest
  <2> QED
    BY <2>1, <2>2
<1>2. ASSUME NEW h
      PROVE  Sibling(points, h, k, label) =
                IF labelled = {} THEN 0
                ELSE IF ticked # {} THEN h[Max(ticked)].value ELSE points[Max(labelled)].value
  BY DEF Sibling
<1> HIDE DEF labelled, ticked
<1> QED
  BY <1>1, <1>2

\* So does what it advances to.
LEMMA SameAdvance ==
    ASSUME NEW points, PointsIn(points), NEW k \in DOMAIN points, NEW f, NEW g,
           \A i \in 1..(k - 1) : f[i] = g[i], NEW now, NEW occupancy, NEW chance
    PROVE  Advance(points, f, k, now, occupancy, chance) = Advance(points, g, k, now, occupancy, chance)
<1>1. \A label : Sibling(points, f, k, label) = Sibling(points, g, k, label)
  BY SameSibling
<1>2. Sibling(points, f, k, points[k].profile.rate_source) = Sibling(points, g, k, points[k].profile.rate_source)
  BY <1>1
<1>3. Sibling(points, f, k, points[k].profile.from) = Sibling(points, g, k, points[k].profile.from)
  BY <1>1
<1> QED
  BY <1>2, <1>3, Zenon DEF Advance

IsAdvance(points, now, occupancy, chance, n, new) ==
    new = [k \in 1..n |-> Advance(points, new, k, now, occupancy, chance[k])]

\* The points of a device can be advanced one after the other.
LEMMA AdvanceExists ==
    ASSUME NEW points, PointsIn(points), NEW now, NEW occupancy, NEW chance,
           NEW N \in Nat, \A k \in 1..N : k \in DOMAIN points
    PROVE  \E new : IsAdvance(points, now, occupancy, chance, N, new)
<1> DEFINE T == {n \in 0..N : \E new : IsAdvance(points, now, occupancy, chance, n, new)}
<1>1. 0 \in T
  <2>1. IsAdvance(points, now, occupancy, chance, 0, [k \in 1..0 |-> 0])
    <3>1. 1..0 = {}
      OBVIOUS
    <3> QED
      BY <3>1 DEF IsAdvance
  <2> QED
    BY <2>1
<1>2. ASSUME NEW n \in 0..(N - 1), n \in T
      PROVE  n + 1 \in T
  <2>1. PICK f : IsAdvance(points, now, occupancy, chance, n, f)
    BY <1>2
  <2>a. PICK last : last = Advance(points, f, n + 1, now, occupancy, chance[n + 1])
    OBVIOUS
  <2>b. PICK g : g = [k \in 1..(n + 1) |-> IF k = n + 1 THEN last ELSE f[k]]
    OBVIOUS
  <2>2. \A k \in 1..n : g[k] = f[k] /\ f[k] = Advance(points, f, k, now, occupancy, chance[k])
    <3>1. f = [k \in 1..n |-> Advance(points, f, k, now, occupancy, chance[k])]
      BY <2>1 DEF IsAdvance
    <3>2. \A k \in 1..n : k \in 1..(n + 1) /\ k # n + 1
      OBVIOUS
    <3>3. \A k \in 1..n : g[k] = f[k]
      BY <2>b, <3>2
    <3>4. \A k \in 1..n : f[k] = Advance(points, f, k, now, occupancy, chance[k])
      BY <3>1, Zenon
    <3> QED
      BY <3>3, <3>4
  <2>3. ASSUME NEW k \in 1..(n + 1)
        PROVE  g[k] = Advance(points, g, k, now, occupancy, chance[k])
    <3>1. k \in DOMAIN points /\ \A i \in 1..(k - 1) : i \in 1..n
      <4>1. k \in 1..N
        OBVIOUS
      <4> QED
        BY <4>1
    <3>2. \A i \in 1..(k - 1) : f[i] = g[i]
      BY <2>2, <3>1
    <3>3. Advance(points, f, k, now, occupancy, chance[k]) = Advance(points, g, k, now, occupancy, chance[k])
      BY <3>1, <3>2, SameAdvance
    <3>4. g[k] = Advance(points, f, k, now, occupancy, chance[k])
      <4>1. CASE k = n + 1
        BY <2>a, <2>b, <4>1
      <4>2. CASE k # n + 1
        <5>1. k \in 1..n
          BY <4>2
        <5> QED
          BY <2>2, <5>1
      <4> QED
        BY <4>1, <4>2
    <3> QED
      BY <3>3, <3>4
  <2>4. IsAdvance(points, now, occupancy, chance, n + 1, g)
    <3>1. g = [k \in 1..(n + 1) |-> g[k]]
      BY <2>b
    <3> QED
      BY <2>3, <3>1 DEF IsAdvance
  <2>5. n + 1 \in 0..N
    OBVIOUS
  <2> QED
    BY <2>4, <2>5
<1>3. \A n \in 0..N : n \in T
  <2> HIDE DEF T
  <2> QED
    BY <1>1, <1>2, Induction
<1> QED
  BY <1>3

BadPoints(points) == {k \in DOMAIN points : Panics(points[k].profile)}
LastPoint(points) == IF BadPoints(points) = {} THEN Len(points) ELSE Min(BadPoints(points)) - 1

IsAfter(points, now, occupancy, chance, new, after) ==
    /\ \A k \in 1..LastPoint(points) : new[k] = Advance(points, new, k, now, occupancy, chance[k])
    /\ after = [k \in DOMAIN points |->
                   IF k <= LastPoint(points)
                   THEN [points[k] EXCEPT !.value = new[k].value, !.memory = new[k].memory]
                   ELSE points[k]]

\* What a tick makes of the points: each up to the first that panics has what it
\* advances to, after the ones before it.
LEMMA Advanced ==
    ASSUME NEW points, PointsIn(points), NEW now, NEW occupancy, NEW chance
    PROVE  /\ LastPoint(points) \in 0..Len(points)
           /\ \A k \in 1..LastPoint(points) : k \in DOMAIN points /\ ~Panics(points[k].profile)
           /\ BadPoints(points) = {} => LastPoint(points) = Len(points)
           /\ \E new : IsAfter(points, now, occupancy, chance, new,
                              AdvanceAll(points, now, occupancy, chance))
<1> DEFINE bad  == BadPoints(points)
           last == LastPoint(points)
<1>0. Len(points) \in Nat /\ DOMAIN points = 1..Len(points)
  BY DEF PointsIn
<1>1. bad # {} => Min(bad) \in bad /\ \A k \in bad : Min(bad) <= k
  <2>1. bad \in SUBSET Nat
    BY <1>0 DEF BadPoints
  <2> HIDE DEF bad
  <2>2. bad # {} => \E x \in bad : \A y \in bad : x <= y
    BY <2>1, Lowest
  <2> QED
    BY <2>2 DEF Min
<1>2. last \in 0..Len(points)
  <2>1. bad # {} => Min(bad) \in 1..Len(points)
    BY <1>0, <1>1 DEF BadPoints
  <2> HIDE DEF bad
  <2> QED
    BY <1>0, <2>1 DEF LastPoint, bad
<1>3. ASSUME NEW k \in 1..last
      PROVE  k \in DOMAIN points /\ ~Panics(points[k].profile)
  <2>1. k \in DOMAIN points
    BY <1>0, <1>2
  <2>2. k \notin bad
    <3>1. CASE bad = {}
      BY <3>1
    <3>2. CASE bad # {}
      <4>1. last = Min(bad) - 1 /\ Min(bad) \in 1..Len(points)
        BY <1>0, <1>1, <3>2 DEF LastPoint, BadPoints
      <4>2. ~(Min(bad) <= k)
        <5> HIDE DEF last, bad
        <5> QED
          BY <1>0, <4>1
      <4> QED
        BY <1>1, <3>2, <4>2
    <3> QED
      BY <3>1, <3>2
  <2> QED
    BY <2>1, <2>2 DEF BadPoints
<1> DEFINE new[k \in 1..last] == Advance(points, new, k, now, occupancy, chance[k])
<1>4. IsAdvance(points, now, occupancy, chance, last, new)
  <2>1. new = CHOOSE f : IsAdvance(points, now, occupancy, chance, last, f)
    BY DEF IsAdvance
  <2>2. \E f : IsAdvance(points, now, occupancy, chance, last, f)
    <3>1. last \in Nat /\ \A k \in 1..last : k \in DOMAIN points
      BY <1>0, <1>2
    <3> HIDE DEF last
    <3> QED
      BY <3>1, AdvanceExists
  <2> HIDE DEF new
  <2> QED
    BY <2>1, <2>2, Zenon
<1>5. AdvanceAll(points, now, occupancy, chance) =
         [k \in DOMAIN points |->
             IF k <= last
             THEN [points[k] EXCEPT !.value = new[k].value, !.memory = new[k].memory]
             ELSE points[k]]
  BY DEF AdvanceAll, LastPoint, BadPoints
<1> HIDE DEF new
<1>6. \A k \in 1..last : new[k] = Advance(points, new, k, now, occupancy, chance[k])
  BY <1>4, Zenon DEF IsAdvance
<1>7. bad = {} => last = Len(points)
  BY DEF LastPoint
<1>8. IsAfter(points, now, occupancy, chance, new, AdvanceAll(points, now, occupancy, chance))
  BY <1>5, <1>6, Zenon DEF IsAfter
<1> QED
  BY <1>2, <1>3, <1>7, <1>8, Zenon

\* A walk keeps where it is, inside its interval; a point of states has the one
\* its index says; an occupancy stays, but for its noise, between two of the schedule.
InRange(point, schedule) ==
    LET profile == point.profile
    IN  /\ profile.kind = "random_walk" =>
              point.value \in profile.min..profile.max /\ point.memory.held = point.value
        /\ profile.kind = "multi_state" /\ profile.states # <<>> =>
              /\ point.memory.held \in DOMAIN profile.states
              /\ point.value = profile.states[point.memory.held]
        /\ profile.kind = "occupancy_linked" /\ Distinct(schedule) =>
              /\ point.value \in Int
              /\ \E low, high \in ValuesOf(schedule) :
                    /\ profile.base + profile.peak_delta * low - Spread(profile) <= point.value
                    /\ point.value <= profile.base + profile.peak_delta * high + Spread(profile)

\* What is derived shows what its source shows.
DerivedShow(points) ==
    \A k \in DOMAIN points : points[k].profile.kind = "derived_constant" =>
        LET labelled == {i \in 1..(k - 1) : points[i].label = points[k].profile.from}
        IN  labelled = {} \/ points[k].value = points[Max(labelled)].value

\* What chance adds to a random walk is a number, to an occupancy-linked value a number
\* no further than its noise reaches.
ChanceFine(profile, chance) ==
    /\ profile.kind = "random_walk" => chance \in Int
    /\ profile.kind = "occupancy_linked" => chance \in -Spread(profile)..Spread(profile)

\* It is what may be drawn for the point.
LEMMA ChanceIsNumber ==
    ASSUME NEW points, PointsIn(points), NEW chance \in Draws(points), NEW k \in DOMAIN points
    PROVE  ChanceFine(points[k].profile, chance[k])
<1> DEFINE random == {i \in DOMAIN points : Cardinality(Chances(points[i].profile)) > 1}
           steps == UNION {Chances(points[i].profile) : i \in random}
<1>1. PICK f \in [random -> steps] :
          /\ \A i \in random : f[i] \in Chances(points[i].profile)
          /\ chance = [i \in DOMAIN points |-> IF i \in random THEN f[i] ELSE 0]
  BY DEF Draws
<1> DEFINE profile == points[k].profile
<1>2. ProfileFine(profile)
  BY DEF PointsIn
<1>3. chance[k] = IF k \in random THEN f[k] ELSE 0
  BY <1>1
<1>4. k \in random => f[k] \in Chances(profile)
  BY <1>1
<1> HIDE DEF random, profile
<1>5. chance[k] = 0 \/ chance[k] \in Chances(profile)
  BY <1>3, <1>4
<1>6. ASSUME profile.kind = "random_walk"
      PROVE  chance[k] \in Int
  <2>1. profile.step \in Int
    BY <1>2, <1>6 DEF ProfileFine
  <2>2. Chances(profile) \subseteq Int
    BY <1>6, <2>1 DEF Chances
  <2> QED
    BY <1>5, <2>2
<1>7. ASSUME profile.kind = "occupancy_linked"
      PROVE  chance[k] \in -Spread(profile)..Spread(profile)
  <2>1. Spread(profile) \in Nat
    BY <1>2, <1>7 DEF ProfileFine, Spread
  <2>2. Chances(profile) = IF Spread(profile) > 0 THEN -Spread(profile)..Spread(profile) - 1 ELSE {0}
    BY <1>7 DEF Chances
  <2>3. Chances(profile) \subseteq -Spread(profile)..Spread(profile)
    BY <2>1, <2>2
  <2>4. 0 \in -Spread(profile)..Spread(profile)
    BY <2>1
  <2> QED
    BY <1>5, <2>3, <2>4
<1> QED
  BY <1>6, <1>7 DEF ChanceFine, profile

\* Whatever a point advances to, it has a value and a memory.
LEMMA AdvanceShape ==
    ASSUME NEW points, PointsIn(points), NEW k \in DOMAIN points, NEW new, NEW now,
           NEW occupancy, NEW chance
    PROVE  DOMAIN Advance(points, new, k, now, occupancy, chance).memory = {"held", "elapsed"}
<1> DEFINE profile == points[k].profile
           memory  == points[k].memory
           after   == Advance(points, new, k, now, occupancy, chance)
<1>1. DOMAIN memory = {"held", "elapsed"} /\ ProfileFine(profile)
  BY DEF PointsIn
<1>2. \/ after.memory = memory
      \/ \E v : after.memory = [memory EXCEPT !.held = v]
      \/ \E h, e : after.memory = [held |-> h, elapsed |-> e]
  <2>1. CASE profile.kind \in {"constant", "sine", "occupancy_linked"}
    BY <2>1 DEF Advance
  <2>2. CASE profile.kind \in {"binary_schedule", "ramp", "derived_constant"}
    BY <2>2 DEF Advance
  <2>3. CASE profile.kind \in {"temp_control", "integrator", "random_walk"}
    BY <2>3 DEF Advance
  <2>4. CASE profile.kind = "multi_state"
    BY <2>4 DEF Advance
  <2> QED
    BY <1>1, <2>1, <2>2, <2>3, <2>4 DEF ProfileFine
<1> HIDE DEF after, memory
<1> QED
  BY <1>1, <1>2 DEF after

\* Where a point is after it advanced.
LEMMA AdvanceInRange ==
    ASSUME NEW points, PointsIn(points), NEW k \in DOMAIN points, NEW new, NEW now \in Nat,
           NEW schedule \in Schedules, NEW chance,
           ChanceFine(points[k].profile, chance), InRange(points[k], schedule)
    PROVE  LET after == Advance(points, new, k, now, get_occupancy(schedule, now), chance)
           IN  InRange([points[k] EXCEPT !.value = after.value, !.memory = after.memory], schedule)
<1> DEFINE profile == points[k].profile
           memory  == points[k].memory
           occupancy == get_occupancy(schedule, now)
           after == Advance(points, new, k, now, occupancy, chance)
           point == [points[k] EXCEPT !.value = after.value, !.memory = after.memory]
<1>1. DOMAIN memory = {"held", "elapsed"} /\ ProfileFine(profile) /\ DOMAIN points[k] = PointFields
  BY DEF PointsIn
<1>2. point.profile = profile /\ point.value = after.value /\ point.memory = after.memory
  <2> HIDE DEF after
  <2> QED
    BY <1>1 DEF PointFields
<1> HIDE DEF point
<1>3. CASE profile.kind = "random_walk"
  <2>1. {profile.min, profile.max} \subseteq Int /\ profile.min <= profile.max
    BY <1>1, <1>3 DEF ProfileFine
  <2>2. memory.held \in Int
    BY <1>3, <2>1 DEF InRange
  <2>3. Clamp(memory.held + chance, profile.min, profile.max) \in profile.min..profile.max
    <3>1. chance \in Int
      BY <1>3 DEF ChanceFine
    <3> QED
      BY <2>1, <2>2, <3>1 DEF Clamp
  <2>4. /\ after.value = Clamp(memory.held + chance, profile.min, profile.max)
        /\ after.memory = [memory EXCEPT !.held = after.value]
    BY <1>3 DEF Advance
  <2> QED
    BY <1>1, <1>2, <1>3, <2>3, <2>4 DEF InRange
<1>4. CASE profile.kind = "multi_state"
  <2> SUFFICES ASSUME profile.states # <<>>
               PROVE  /\ after.memory.held \in DOMAIN profile.states
                      /\ after.value = profile.states[after.memory.held]
    BY <1>2, <1>4 DEF InRange
  <2>1. profile.states \in Seq(Int) /\ memory.held \in DOMAIN profile.states
    BY <1>1, <1>4 DEF ProfileFine, InRange
  <2>2. PICK due \in BOOLEAN : after.memory.held =
            IF due THEN (memory.held % Len(profile.states)) + 1 ELSE memory.held
    BY <1>4 DEF Advance
  <2>3. after.value = profile.states[after.memory.held]
    BY <1>4 DEF Advance, StateOf
  <2>4. (memory.held % Len(profile.states)) + 1 \in DOMAIN profile.states
    <3>1. Len(profile.states) \in Nat \ {0} /\ DOMAIN profile.states = 1..Len(profile.states)
      BY <2>1
    <3>2. ASSUME NEW m \in Nat \ {0}, NEW h \in 1..m
          PROVE  (h % m) + 1 \in 1..m
      BY <3>2
    <3> QED
      BY <2>1, <3>1, <3>2
  <2> QED
    BY <2>1, <2>2, <2>3, <2>4
<1>5. CASE profile.kind = "occupancy_linked"
  <2> SUFFICES ASSUME Distinct(schedule)
               PROVE  /\ after.value \in Int
                      /\ \E low, high \in ValuesOf(schedule) :
                            /\ profile.base + profile.peak_delta * low - Spread(profile) <= after.value
                            /\ after.value <= profile.base + profile.peak_delta * high + Spread(profile)
    BY <1>2, <1>5 DEF InRange
  <2> DEFINE base == profile.base
             delta == profile.peak_delta
             spread == Spread(profile)
  <2>1. base \in Int /\ delta \in Int /\ spread \in Nat /\ chance \in -spread..spread
    <3>1. {base, delta, profile.noise} \subseteq Int
      BY <1>1, <1>5 DEF ProfileFine
    <3>2. spread \in Nat
      BY <3>1 DEF Spread
    <3>3. chance \in -spread..spread
      BY <1>5 DEF ChanceFine
    <3> QED
      BY <3>1, <3>2, <3>3
  <2>2. ValuesOf(schedule) \subseteq Int /\ occupancy \in Int
    BY OccupancyBetween
  <2>3. PICK low \in ValuesOf(schedule), high \in ValuesOf(schedule) :
            low <= occupancy /\ occupancy <= high
    BY OccupancyBetween
  <2>4. after.value = base + delta * occupancy + chance
    <3>1. NaN \notin Int
      BY SimulatorAssumption DEF SimulatorAssumption
    <3>2. after.value = Plus(Plus(base, Times(delta, occupancy)), chance)
      BY <1>5 DEF Advance
    <3> HIDE DEF after, occupancy, base, delta, spread
    <3>3. delta * occupancy \in Int /\ chance \in Int
      BY <2>1, <2>2
    <3>4. Times(delta, occupancy) = delta * occupancy
      BY <2>1, <2>2, <3>1 DEF Times
    <3>5. Plus(base, Times(delta, occupancy)) = base + delta * occupancy
      BY <2>1, <3>1, <3>3, <3>4 DEF Plus
    <3>6. base + delta * occupancy \in Int
      BY <2>1, <3>3
    <3> QED
      BY <3>1, <3>2, <3>3, <3>5, <3>6 DEF Plus
  <2> HIDE DEF occupancy, base, delta, spread, after
  <2>a. chance \in Int /\ -spread <= chance /\ chance <= spread
    BY <2>1
  <2>5. ASSUME NEW a \in Int, NEW b \in Int, a <= b
        PROVE  /\ delta >= 0 => delta * a <= delta * b
               /\ delta <= 0 => delta * b <= delta * a
    <3>1. b - a \in Nat /\ delta * b = delta * a + delta * (b - a)
      BY <2>1, <2>5
    <3>2. delta >= 0 => delta * (b - a) >= 0
      BY <2>1, <3>1
    <3>3. delta <= 0 => delta * (b - a) <= 0
      BY <2>1, <3>1
    <3>4. delta * a \in Int /\ delta * (b - a) \in Int
      BY <2>1, <3>1
    <3> QED
      BY <3>1, <3>2, <3>3, <3>4
  <2>6. low \in Int /\ high \in Int /\ low <= occupancy /\ occupancy <= high
    BY <2>2, <2>3
  <2>7. delta * occupancy \in Int /\ delta * low \in Int /\ delta * high \in Int
    BY <2>1, <2>2, <2>6
  <2>8. CASE delta >= 0
    <3>1. delta * low <= delta * occupancy /\ delta * occupancy <= delta * high
      BY <2>2, <2>5, <2>6, <2>8
    <3>2. /\ base + delta * low - spread <= after.value
          /\ after.value <= base + delta * high + spread
      BY <2>1, <2>4, <2>7, <2>a, <3>1
    <3>3. after.value \in Int
      BY <2>1, <2>4, <2>7, <2>a
    <3> QED
      BY <3>2, <3>3 DEF base, delta, spread
  <2>9. CASE delta <= 0
    <3>1. delta * high <= delta * occupancy /\ delta * occupancy <= delta * low
      BY <2>2, <2>5, <2>6, <2>9
    <3>2. /\ base + delta * high - spread <= after.value
          /\ after.value <= base + delta * low + spread
      BY <2>1, <2>4, <2>7, <2>a, <3>1
    <3>3. after.value \in Int
      BY <2>1, <2>4, <2>7, <2>a
    <3> QED
      BY <3>2, <3>3 DEF base, delta, spread
  <2> QED
    BY <2>1, <2>8, <2>9
<1>6. CASE profile.kind \notin {"random_walk", "multi_state", "occupancy_linked"}
  BY <1>2, <1>6 DEF InRange
<1> QED
  BY <1>3, <1>4, <1>5, <1>6 DEF point

\* A tick of a device leaves its points in range, and where it comes to its end,
\* derived points show what their sources show.
LEMMA DeviceInRange ==
    ASSUME NEW points, PointsIn(points), NEW now \in Nat, NEW schedule \in Schedules,
           NEW chance \in Draws(points), \A k \in DOMAIN points : InRange(points[k], schedule)
    PROVE  LET after == AdvanceAll(points, now, get_occupancy(schedule, now), chance)
           IN  /\ PointsIn(after)
               /\ \A k \in DOMAIN after : InRange(after[k], schedule)
               /\ BadPoints(points) = {} => DerivedShow(after)
<1> DEFINE occupancy == get_occupancy(schedule, now)
           after == AdvanceAll(points, now, occupancy, chance)
           last == LastPoint(points)
<1> HIDE DEF occupancy
<1>1. /\ last \in 0..Len(points)
      /\ \A k \in 1..last : k \in DOMAIN points /\ ~Panics(points[k].profile)
      /\ BadPoints(points) = {} => last = Len(points)
  BY Advanced
<1>2. PICK new :
         /\ \A k \in 1..last : new[k] = Advance(points, new, k, now, occupancy, chance[k])
         /\ after = [k \in DOMAIN points |->
                       IF k <= last
                       THEN [points[k] EXCEPT !.value = new[k].value, !.memory = new[k].memory]
                       ELSE points[k]]
  <2>1. PICK new : IsAfter(points, now, occupancy, chance, new, after)
    BY Advanced, Zenon
  <2> QED
    BY <2>1, Zenon DEF IsAfter
<1> HIDE DEF after, last
<1>3. Len(points) \in Nat /\ DOMAIN points = 1..Len(points)
  BY DEF PointsIn
<1>4. DOMAIN after = DOMAIN points /\ Len(after) = Len(points)
  <2>1. DOMAIN after = DOMAIN points /\ after = [k \in DOMAIN after |-> after[k]]
    BY <1>2
  <2> QED
    BY <1>3, <2>1, LengthIs
<1>5. ASSUME NEW k \in 1..last
      PROVE  /\ after[k] = [points[k] EXCEPT !.value = new[k].value, !.memory = new[k].memory]
             /\ after[k].value = new[k].value /\ after[k].profile = points[k].profile
             /\ after[k].label = points[k].label /\ DOMAIN after[k] = PointFields
             /\ DOMAIN after[k].memory = {"held", "elapsed"}
             /\ InRange(after[k], schedule)
  <2>1. k \in DOMAIN points /\ k <= last
    BY <1>1
  <2>2. after[k] = [points[k] EXCEPT !.value = new[k].value, !.memory = new[k].memory]
    BY <1>2, <2>1
  <2>3. new[k] = Advance(points, new, k, now, occupancy, chance[k])
    BY <1>2
  <2>4. DOMAIN new[k].memory = {"held", "elapsed"}
    BY <2>1, <2>3, AdvanceShape
  <2>5. ChanceFine(points[k].profile, chance[k])
    BY <2>1, ChanceIsNumber
  <2>6. InRange(points[k], schedule)
    BY <2>1
  <2>7. InRange(after[k], schedule)
    <3> DEFINE a == Advance(points, new, k, now, get_occupancy(schedule, now), chance[k])
    <3>1. InRange([points[k] EXCEPT !.value = a.value, !.memory = a.memory], schedule)
      BY <2>1, <2>5, <2>6, AdvanceInRange
    <3>2. new[k] = a
      BY <2>3 DEF occupancy
    <3> HIDE DEF a
    <3> QED
      BY <2>2, <3>1, <3>2
  <2>8. DOMAIN points[k] = PointFields
    BY <2>1 DEF PointsIn
  <2> QED
    BY <2>2, <2>4, <2>7, <2>8 DEF PointFields
<1>6. ASSUME NEW k \in DOMAIN points, k \notin 1..last
      PROVE  after[k] = points[k]
  <2>1. ~(k <= last)
    <3>1. k \in Nat /\ k >= 1 /\ last \in Nat
      <4>1. last \in 0..Len(points) /\ k \in 1..Len(points) /\ Len(points) \in Nat
        BY <1>1, <1>3
      <4> HIDE DEF last
      <4> QED
        BY <4>1
    <3> QED
      BY <3>1, <1>6
  <2> QED
    BY <1>2, <2>1
<1>7. ASSUME NEW k \in DOMAIN points
      PROVE  /\ DOMAIN after[k] = PointFields /\ DOMAIN after[k].memory = {"held", "elapsed"}
             /\ after[k].profile = points[k].profile /\ after[k].label = points[k].label
             /\ InRange(after[k], schedule)
  BY <1>5, <1>6 DEF PointsIn
<1>8. PointsIn(after)
  BY <1>3, <1>4, <1>7 DEF PointsIn
<1>9. ASSUME BadPoints(points) = {}, NEW k \in DOMAIN points,
             points[k].profile.kind = "derived_constant"
      PROVE  LET labelled == {i \in 1..(k - 1) : after[i].label = after[k].profile.from}
             IN  labelled = {} \/ after[k].value = after[Max(labelled)].value
  <2> DEFINE from == points[k].profile.from
             labelled == {i \in DOMAIN points : points[i].label = from}
             ticked == {i \in labelled : i < k}
             before == {i \in 1..(k - 1) : after[i].label = after[k].profile.from}
  <2>1. k \in 1..last /\ last = Len(points)
    BY <1>1, <1>3, <1>9
  <2>2. after[k].value = Sibling(points, new, k, from)
    <3>1. new[k] = Advance(points, new, k, now, occupancy, chance[k])
      BY <1>2, <2>1
    <3>2. new[k].value = Sibling(points, new, k, from)
      BY <1>9, <3>1 DEF Advance
    <3> QED
      BY <1>5, <2>1, <3>2
  <2>3. before = ticked
    <3>1. \A i \in 1..(k - 1) : i \in DOMAIN points /\ i < k /\ i \in 1..last
      BY <1>3, <2>1
    <3>2. \A i \in DOMAIN points : i < k => i \in 1..(k - 1)
      BY <1>3
    <3>3. after[k].profile.from = from /\ \A i \in 1..(k - 1) : after[i].label = points[i].label
      BY <1>7, <3>1
    <3> QED
      BY <3>1, <3>2, <3>3
  <2> SUFFICES ASSUME ticked # {}
               PROVE  after[k].value = after[Max(ticked)].value
    BY <2>3
  <2>4. Max(ticked) \in ticked
    <3>1. ticked \in SUBSET (1..Len(points))
      BY <1>3
    <3> HIDE DEF ticked
    <3> QED
      BY <1>3, <3>1, Highest
  <2>5. Max(ticked) \in 1..last
    BY <1>3, <2>1, <2>4
  <2>6. Sibling(points, new, k, from) = new[Max(ticked)].value
    <3>1. labelled # {}
      BY <2>4
    <3> QED
      BY <3>1 DEF Sibling
  <2> HIDE DEF ticked
  <2> QED
    BY <1>5, <2>2, <2>5, <2>6
<1>10. BadPoints(points) = {} => DerivedShow(after)
  BY <1>4, <1>7, <1>9 DEF DerivedShow
<1> QED
  BY <1>4, <1>7, <1>8, <1>10 DEF after, occupancy

\* A device of a configuration, as it is written.
Written(device) ==
    /\ "points" \in DOMAIN device
    /\ Len(device.points) \in Nat /\ DOMAIN device.points = 1..Len(device.points)
    /\ \A k \in DOMAIN device.points :
          /\ DOMAIN device.points[k] = {"label", "object_type", "profile", "instance"}
          /\ ProfileFine(device.points[k].profile)

\* Every device a configuration expands to is written like that.
LEMMA ExpandedWritten ==
    ASSUME NEW c \in Configs, NEW d \in DOMAIN expand(c)
    PROVE  Written(expand(c)[d])
<1>1. PICK b \in DOMAIN c.instances : \E n : expand(c)[d] = DeviceAt(c, b, n)
  BY Expanded, SimulatorAssumption DEF SimulatorAssumption
<1>2. PICK n : expand(c)[d] = DeviceAt(c, b, n)
  BY <1>1
<1> DEFINE template == c.templates[c.instances[b].template]
           device == DeviceAt(c, b, n)
<1>3. /\ Len(template) \in Nat /\ DOMAIN template = 1..Len(template)
      /\ \A k \in DOMAIN template : ProfileFine(template[k].profile)
  BY SimulatorAssumption DEF SimulatorAssumption, DevicesFine, Expandable
<1>4. "points" \in DOMAIN device /\
      device.points = [k \in DOMAIN template |->
                          [label |-> template[k].label, object_type |-> template[k].object_type,
                           profile |-> template[k].profile,
                           instance |-> instance_counter(c, <<b, n, k>>)]]
  BY DEF DeviceAt
<1> HIDE DEF template, device
<1>5. /\ DOMAIN device.points = DOMAIN template
      /\ device.points = [k \in DOMAIN device.points |-> device.points[k]]
      /\ \A k \in DOMAIN template :
            /\ DOMAIN device.points[k] = {"label", "object_type", "profile", "instance"}
            /\ device.points[k].profile = template[k].profile
  BY <1>4
<1>6. Len(device.points) = Len(template)
  BY <1>3, <1>5, LengthIs
<1> QED
  BY <1>2, <1>3, <1>4, <1>5, <1>6 DEF Written, device

\* At first a point has the value its profile starts with.
LEMMA StartInRange ==
    ASSUME NEW device, Written(device), NEW schedule \in Schedules
    PROVE  LET points == WithState(Simulated(device)).points
           IN  PointsIn(points) /\ \A k \in DOMAIN points : InRange(points[k], schedule)
<1> DEFINE known == {k \in DOMAIN device.points :
                        Lowered[device.points[k].object_type] \in DOMAIN ObjectTypes}
           kept  == Simulated(device)
           points == WithState(kept).points
           n == Cardinality(known)
<1>1. /\ n \in Nat /\ DOMAIN InOrder(known) = 1..n
      /\ \A k \in 1..n : InOrder(known)[k] \in known
  <2>1. known \in SUBSET Nat /\ IsFiniteSet(known)
    <3>1. IsFiniteSet(1..Len(device.points)) /\ known \in SUBSET (1..Len(device.points))
      BY FS_Interval DEF Written
    <3> HIDE DEF known
    <3>2. IsFiniteSet(known)
      BY <3>1, FS_Subset
    <3> QED
      BY <3>1, <3>2
  <2> HIDE DEF known
  <2> QED
    BY <2>1, InOrderFacts
<1>2. /\ "points" \in DOMAIN kept
      /\ kept.points = [k \in 1..n |->
             [device.points[InOrder(known)[k]] EXCEPT
                 !.object_type = Lowered[device.points[InOrder(known)[k]].object_type]]]
  <2>1. kept = [device EXCEPT !.points =
                   [k \in DOMAIN InOrder(known) |->
                       [device.points[InOrder(known)[k]] EXCEPT !.object_type = Lowered[@]]]]
    BY DEF Simulated
  <2> HIDE DEF kept, known
  <2> QED
    BY <1>1, <2>1 DEF Written
<1> HIDE DEF n
<1>3. ASSUME NEW k \in 1..n
      PROVE  ProfileFine(kept.points[k].profile)
  <2>1. InOrder(known)[k] \in DOMAIN device.points
    BY <1>1
  <2> HIDE DEF known, kept
  <2>2. kept.points[k].profile = device.points[InOrder(known)[k]].profile
    BY <1>2, <2>1 DEF Written
  <2> QED
    BY <2>1, <2>2 DEF Written
<1>4. points = [k \in 1..n |->
          [label |-> kept.points[k].label, object_type |-> kept.points[k].object_type,
           instance |-> kept.points[k].instance, profile |-> kept.points[k].profile,
           value |-> initial_value(kept.points[k].profile),
           memory |-> Memory(kept.points[k].profile)]]
  <2> HIDE DEF kept
  <2>1. DOMAIN kept.points = 1..n
    BY <1>2
  <2> QED
    BY <1>2, <2>1 DEF WithState
<1> HIDE DEF points, kept, known
<1>5. DOMAIN points = 1..n /\ Len(points) = n
  <2>1. DOMAIN points = 1..n /\ points = [k \in DOMAIN points |-> points[k]]
    BY <1>4
  <2> QED
    BY <1>1, <2>1, LengthIs
<1>6. ASSUME NEW k \in 1..n
      PROVE  /\ DOMAIN points[k] = PointFields /\ ProfileFine(points[k].profile)
             /\ DOMAIN points[k].memory = {"held", "elapsed"}
             /\ points[k].value = initial_value(points[k].profile)
             /\ points[k].memory = Memory(points[k].profile)
  <2>1. ProfileFine(kept.points[k].profile)
    BY <1>3
  <2>2. DOMAIN Memory(kept.points[k].profile) = {"held", "elapsed"}
    BY DEF Memory
  <2> QED
    BY <1>4, <2>1, <2>2 DEF PointFields
<1>7. PointsIn(points)
  BY <1>1, <1>5, <1>6 DEF PointsIn
<1>8. ASSUME NEW k \in 1..n
      PROVE  InRange(points[k], schedule)
  <2> DEFINE profile == points[k].profile
  <2>1. /\ ProfileFine(profile) /\ points[k].value = initial_value(profile)
        /\ points[k].memory = Memory(profile)
    BY <1>6
  <2> HIDE DEF profile
  <2>2. CASE profile.kind = "random_walk"
    <3>1. {profile.base, profile.min, profile.max} \subseteq Int /\ profile.min <= profile.max
      BY <2>1, <2>2 DEF ProfileFine
    <3>2. Clamp(profile.base, profile.min, profile.max) \in profile.min..profile.max
      BY <3>1 DEF Clamp
    <3>3. Memory(profile).held = Clamp(profile.base, profile.min, profile.max)
      BY <2>2 DEF Memory
    <3>4. initial_value(profile) = Memory(profile).held
      BY <2>2 DEF initial_value
    <3> QED
      BY <2>1, <2>2, <3>2, <3>3, <3>4 DEF InRange, profile
  <2>3. CASE profile.kind = "multi_state"
    <3>1. profile.states \in Seq(Int)
      BY <2>1, <2>3 DEF ProfileFine
    <3>2. profile.states # <<>> => 1 \in DOMAIN profile.states
      BY <3>1
    <3>3. Memory(profile).held = 1
      BY <2>3 DEF Memory
    <3>4. profile.states # <<>> => initial_value(profile) = profile.states[1]
      BY <2>3 DEF initial_value, StateOf
    <3> QED
      BY <2>1, <2>3, <3>2, <3>3, <3>4 DEF InRange, profile
  <2>4. CASE profile.kind = "occupancy_linked"
    <3>1. profile.base \in Int /\ profile.peak_delta \in Int /\ Spread(profile) \in Nat
      BY <2>1, <2>4 DEF ProfileFine, Spread
    <3>2. initial_value(profile) = profile.base
      BY <2>4 DEF initial_value
    <3>3. 0 \in ValuesOf(schedule)
      BY DEF ValuesOf
    <3>4. /\ profile.base + profile.peak_delta * 0 - Spread(profile) <= profile.base
          /\ profile.base <= profile.base + profile.peak_delta * 0 + Spread(profile)
      BY <3>1
    <3> QED
      BY <2>1, <2>4, <3>1, <3>2, <3>3, <3>4 DEF InRange, profile
  <2>5. CASE profile.kind \notin {"random_walk", "multi_state", "occupancy_linked"}
    BY <2>5 DEF InRange, profile
  <2> QED
    BY <2>2, <2>3, <2>4, <2>5
<1> QED
  BY <1>5, <1>7, <1>8 DEF points, kept

\* Whether a device has come to the end of a tick since the start.
Settled(d) == IF ticker = "advancing" THEN d < next \/ clock > 1 ELSE clock > 0

TickerInv ==
    /\ Len(sim) \in Nat /\ DOMAIN sim = 1..Len(sim)
    /\ config.days[day] \in Schedules
    /\ clock \in Nat
    /\ ticker \in {"waiting", "advancing", "dead", "cancelled"}
    /\ ticker = "advancing" => lock = "tick" /\ next \in Nat /\ clock > 0

\* Every point of every device is in range, and derived points show what their
\* sources show wherever a device was advanced to its end.
PointsInv ==
    \A d \in DOMAIN sim :
        /\ "points" \in DOMAIN sim[d] /\ PointsIn(sim[d].points)
        /\ \A k \in DOMAIN sim[d].points : InRange(sim[d].points[k], config.days[day])
        /\ ticker # "dead" /\ Settled(d) => DerivedShow(sim[d].points)

\* At first every point has the value its profile starts with.
LEMMA InitValues ==
    ASSUME config \in Configs, EngineInit
    PROVE  TickerInv /\ PointsInv
<1> DEFINE ds == SimulatedDevices(config)
           n  == Len(expand(config))
<1>1. n \in Nat /\ DOMAIN expand(config) = 1..n
  BY Expanded, SimulatorAssumption DEF SimulatorAssumption
<1>2. ds = [d \in DOMAIN expand(config) |-> Simulated(expand(config)[d])]
  BY DEF SimulatedDevices
<1> HIDE DEF ds, n
<1>3. sim = [d \in 1..n |-> WithState(Simulated(expand(config)[d]))]
  BY <1>1, <1>2 DEF EngineInit, ds
<1>4. DOMAIN sim = 1..n /\ Len(sim) = n
  <2>1. DOMAIN sim = 1..n /\ sim = [d \in DOMAIN sim |-> sim[d]]
    BY <1>3
  <2> QED
    BY <1>1, <2>1, LengthIs
<1>5. config.days[day] \in Schedules
  <2>1. config.days \in [weekday : Schedules, weekend : Schedules]
    BY SimulatorAssumption DEF SimulatorAssumption
  <2>2. day \in {"weekday", "weekend"}
    BY DEF EngineInit
  <2> QED
    BY <2>1, <2>2
<1>6. TickerInv
  BY <1>1, <1>4, <1>5 DEF EngineInit, TickerInv
<1>7. ASSUME NEW d \in DOMAIN sim
      PROVE  /\ "points" \in DOMAIN sim[d] /\ PointsIn(sim[d].points)
             /\ \A k \in DOMAIN sim[d].points : InRange(sim[d].points[k], config.days[day])
             /\ ~Settled(d)
  <2>1. sim[d] = WithState(Simulated(expand(config)[d])) /\ d \in DOMAIN expand(config)
    BY <1>1, <1>3, <1>4
  <2>2. Written(expand(config)[d])
    BY <2>1, ExpandedWritten
  <2>3. "points" \in DOMAIN sim[d]
    BY <2>1, <2>2 DEF Written, Simulated, WithState
  <2>4. ~Settled(d)
    BY DEF EngineInit, Settled
  <2> QED
    BY <1>5, <2>1, <2>2, <2>3, <2>4, StartInRange
<1> QED
  BY <1>6, <1>7 DEF PointsInv

\* A tick leaves the points in range.
LEMMA TickValues ==
    ASSUME TickerInv, PointsInv, Tick \/ TickCancelled
    PROVE  TickerInv' /\ PointsInv'
<1>1. CASE TickBegins
  <2>1. /\ UNCHANGED <<config, sim, day>> /\ ticker = "waiting" /\ ticker' = "advancing"
        /\ lock' = "tick" /\ next' = 1 /\ clock' = clock + 1
    BY <1>1 DEF TickBegins
  <2>2. TickerInv'
    BY <2>1 DEF TickerInv
  <2>3. \A d \in DOMAIN sim : Settled(d)' => Settled(d)
    BY <2>1 DEF TickerInv, Settled
  <2> QED
    BY <2>1, <2>2, <2>3 DEF PointsInv
<1>2. CASE TickDevice
  <2> DEFINE points == sim[next].points
             schedule == config.days[day]
  <2>1. /\ UNCHANGED <<config, clock, day>> /\ ticker = "advancing" /\ next <= Len(sim)
        /\ \/ BadPoints(points) = {} /\ next' = next + 1 /\ UNCHANGED <<ticker, lock>>
           \/ ticker' = "dead"
    BY <1>2 DEF TickDevice, BadPoints
  <2>2. PICK chance \in Draws(points) :
            sim' = [sim EXCEPT ![next].points =
                       AdvanceAll(points, clock, get_occupancy(schedule, clock), chance)]
    BY <1>2 DEF TickDevice
  <2> DEFINE after == AdvanceAll(points, clock, get_occupancy(schedule, clock), chance)
  <2>3. /\ schedule \in Schedules /\ clock \in Nat /\ next \in Nat
        /\ Len(sim) \in Nat /\ DOMAIN sim = 1..Len(sim)
    BY <2>1 DEF TickerInv
  <2>4. ASSUME next \in DOMAIN sim
        PROVE  /\ PointsIn(after) /\ \A k \in DOMAIN after : InRange(after[k], schedule)
               /\ BadPoints(points) = {} => DerivedShow(after)
    <3>1. PointsIn(points) /\ \A k \in DOMAIN points : InRange(points[k], schedule)
      BY <2>4 DEF PointsInv
    <3> HIDE DEF points, schedule
    <3> QED
      BY <2>2, <2>3, <3>1, DeviceInRange
  <2> HIDE DEF after
  <2>5. /\ DOMAIN sim' = DOMAIN sim /\ Len(sim') = Len(sim)
        /\ \A d \in DOMAIN sim : d # next => sim'[d] = sim[d]
        /\ next \in DOMAIN sim => "points" \in DOMAIN sim'[next] /\ sim'[next].points = after
    <3>1. /\ DOMAIN sim' = DOMAIN sim /\ sim' = [d \in DOMAIN sim' |-> sim'[d]]
          /\ \A d \in DOMAIN sim : d # next => sim'[d] = sim[d]
      BY <2>2
    <3>2. Len(sim') = Len(sim)
      BY <2>3, <3>1, LengthIs
    <3>3. next \in DOMAIN sim => sim'[next] = [sim[next] EXCEPT !.points = after]
      BY <2>2 DEF after
    <3>4. next \in DOMAIN sim => "points" \in DOMAIN sim[next]
      BY DEF PointsInv
    <3> QED
      BY <3>1, <3>2, <3>3, <3>4
  <2>6. TickerInv'
    BY <2>1, <2>3, <2>5 DEF TickerInv
  <2>7. ASSUME NEW d \in DOMAIN sim
        PROVE  /\ "points" \in DOMAIN sim'[d] /\ PointsIn(sim'[d].points)
               /\ \A k \in DOMAIN sim'[d].points : InRange(sim'[d].points[k], schedule)
               /\ ticker' # "dead" /\ Settled(d)' => DerivedShow(sim'[d].points)
    <3>1. CASE d = next
      <4> HIDE DEF points, schedule
      <4> QED
        BY <2>1, <2>4, <2>5, <3>1
    <3>2. CASE d # next
      <4>1. ticker' # "dead" /\ Settled(d)' => ticker # "dead" /\ Settled(d)
        BY <2>1, <2>3, <3>2 DEF Settled
      <4> QED
        BY <2>5, <3>2, <4>1 DEF PointsInv
    <3> QED
      BY <3>1, <3>2
  <2> QED
    BY <2>1, <2>5, <2>6, <2>7 DEF PointsInv
<1>3. CASE TickEnds \/ TickCancelled
  <2>1. /\ UNCHANGED <<config, sim, day, clock>> /\ ticker # "dead"
        /\ ticker' \in {"waiting", "cancelled"}
    BY <1>3 DEF TickEnds, TickCancelled
  <2>2. TickerInv'
    BY <2>1 DEF TickerInv
  <2>3. \A d \in DOMAIN sim : Settled(d)' => Settled(d)
    <3>1. CASE TickCancelled
      BY <3>1, <2>1 DEF TickCancelled, Settled
    <3>2. CASE TickEnds
      <4>1. ticker = "advancing" /\ next > Len(sim) /\ next \in Nat
        BY <3>2 DEF TickEnds, TickerInv
      <4> QED
        BY <4>1 DEF TickerInv, Settled
    <3> QED
      BY <1>3, <3>1, <3>2
  <2> QED
    BY <2>1, <2>2, <2>3 DEF PointsInv
<1> QED
  BY <1>1, <1>2, <1>3 DEF Tick

\* Everybody else leaves the simulation alone.
LEMMA OthersValues ==
    ASSUME TickerInv, PointsInv, EngineKept, day' = day, lock' = lock \/ lock # "tick"
    PROVE  TickerInv' /\ PointsInv'
<1>1. TickerInv'
  BY DEF EngineKept, TickerInv
<1>2. \A d : Settled(d)' <=> Settled(d)
  BY DEF EngineKept, Settled
<1> QED
  BY <1>1, <1>2 DEF EngineKept, PointsInv

\* Values stay where their profiles say, for any configuration and whatever chance
\* adds: a random walk in its interval, a state among its states, an occupancy-linked
\* value within its noise of what two values of the schedule give, whatever the order
\* of its times as long as the first two differ; and between ticks a derived point
\* shows what the point it is derived from shows.
THEOREM ValuesAlways == Spec => []SimValuesAreInRange
<1> DEFINE ValuesInv == part = "servers" => TickerInv /\ PointsInv
<1>1. Init => ValuesInv
  <2> SUFFICES ASSUME Init, part = "servers"
               PROVE  TickerInv /\ PointsInv
    OBVIOUS
  <2>1. RunInit
    BY DEF Init, AddressesInit, ScreenInit
  <2> QED
    BY <2>1, InitValues DEF Init, RunInit
<1>2. ValuesInv /\ [Next]_<<part, vars, tui>> => ValuesInv'
  <2> SUFFICES ASSUME ValuesInv, [Next]_<<part, vars, tui>>, part' = "servers"
               PROVE  TickerInv' /\ PointsInv'
    OBVIOUS
  <2>1. part = "servers" /\ TickerInv /\ PointsInv
    BY DEF Next
  <2>2. CASE UNCHANGED vars
    <3>1. EngineKept /\ lock' = lock /\ day' = day
      BY <2>2 DEF vars, engine, EngineKept
    <3> QED
      BY <2>1, <3>1, OthersValues
  <2>3. CASE TickLoop \/ TickLoopCancelled
    BY <2>1, <2>3, TickValues DEF TickLoop, TickLoopCancelled
  <2>4. CASE Cancel \/ \E i \in DOMAIN listener : Serve(i) \/ ServeFails(i) \/ StopListener(i)
    <3>1. EngineKept /\ lock' = lock /\ day' = day
      BY <2>4 DEF Cancel, Serve, ServeFails, StopListener, engine, EngineKept
    <3> QED
      BY <2>1, <3>1, OthersValues
  <2>5. CASE Bacnet \/ Modbus
    <3>1. EngineKept /\ day' = day /\ (lock' = lock \/ lock # "tick")
      BY <2>5 DEF Bacnet, Modbus, ReceiveReadMultiple, LockForRead, ReadReference, AnswerRead,
                  ReceiveWhoIs, SendIAm, ReceiveReadRegisters, LockForRegisters, ReadWord,
                  AnswerRegisters, engine, SimUnchanged, EngineKept, Acquire, Release
    <3> QED
      BY <2>1, <3>1, OthersValues
  <2>6. CASE Refresh
    <3>1. EngineKept /\ day' = day /\ (lock' = lock \/ lock # "tick")
      BY <2>6 DEF Refresh, RefreshBegins, CopyPoint, CopyEnds, WriteCache, engine, SimUnchanged,
                  EngineKept, Acquire, Release
    <3> QED
      BY <2>1, <3>1, OthersValues
  <2>7. CASE OpcuaRead
    <3>1. EngineKept /\ day' = day /\ lock' = lock
      BY <2>7 DEF OpcuaRead, ReadNode, AnswerNodes, engine, EngineKept
    <3> QED
      BY <2>1, <3>1, OthersValues
  <2> QED
    BY <2>1, <2>2, <2>3, <2>4, <2>5, <2>6, <2>7 DEF Next, ServersNext
<1>3. ValuesInv => SimValuesAreInRange
  <2> SUFFICES ASSUME TickerInv, PointsInv
               PROVE  ValuesAreInRange
    BY DEF SimValuesAreInRange
  <2> SUFFICES ASSUME NEW d \in DOMAIN sim, NEW k \in DOMAIN sim[d].points
               PROVE  LET point == sim[d].points[k]
                          source(label) == {i \in 1..k - 1 : sim[d].points[i].label = label}
                          Within(v, lo, hi) == v # NaN /\ lo <= v /\ v <= hi
                          values == {config.days[day][i].value : i \in DOMAIN config.days[day]} \cup {0}
                          delta == point.profile.peak_delta
                          spread == Spread(point.profile)
                      IN  CASE point.profile.kind = "random_walk" ->
                                 Within(point.value, point.profile.min, point.profile.max)
                            [] point.profile.kind = "multi_state" ->
                                 point.value \in Range(point.profile.states) \/ point.profile.states = <<>>
                            [] point.profile.kind = "occupancy_linked" /\ Distinct(config.days[day]) ->
                                 \E low, high \in values :
                                    Within(point.value, point.profile.base + delta * low - spread,
                                                        point.profile.base + delta * high + spread)
                            [] point.profile.kind = "derived_constant" /\ lock = "free" /\ ticker # "dead" ->
                                 LET labelled == source(point.profile.from)
                                 IN  clock = 0 \/ labelled = {} \/ point.value = sim[d].points[Max(labelled)].value
                            [] OTHER -> TRUE
    BY DEF ValuesAreInRange
  <2> DEFINE point == sim[d].points[k]
             profile == point.profile
             schedule == config.days[day]
  <2>0. NaN \notin Int
    BY SimulatorAssumption DEF SimulatorAssumption
  <2>1. PointsIn(sim[d].points) /\ InRange(point, schedule) /\ ProfileFine(profile)
    BY DEF PointsInv, PointsIn
  <2>2. CASE profile.kind = "random_walk"
    <3>1. point.value \in profile.min..profile.max /\ {profile.min, profile.max} \subseteq Int
      BY <2>1, <2>2 DEF InRange, ProfileFine
    <3> HIDE DEF point
    <3>2. point.value # NaN /\ profile.min <= point.value /\ point.value <= profile.max
      BY <2>0, <3>1
    <3> QED
      BY <2>2, <3>2 DEF point
  <2>3. CASE profile.kind = "multi_state"
    <3>1. profile.states = <<>> \/ point.value \in Range(profile.states)
      BY <2>1, <2>3 DEF InRange, Range
    <3> QED
      BY <2>3, <3>1
  <2>4. CASE profile.kind = "occupancy_linked" /\ Distinct(schedule)
    <3>1. /\ point.value \in Int
          /\ \E low, high \in ValuesOf(schedule) :
                /\ profile.base + profile.peak_delta * low - Spread(profile) <= point.value
                /\ point.value <= profile.base + profile.peak_delta * high + Spread(profile)
      BY <2>1, <2>4 DEF InRange
    <3>2. point.value # NaN
      BY <2>0, <3>1
    <3> QED
      BY <2>4, <3>1, <3>2 DEF ValuesOf
  <2>5. CASE profile.kind = "derived_constant" /\ lock = "free" /\ ticker # "dead"
    <3>1. clock # 0 => Settled(d)
      BY <2>5 DEF TickerInv, Settled
    <3>2. clock # 0 => DerivedShow(sim[d].points)
      BY <2>5, <3>1 DEF PointsInv
    <3>3. clock # 0 =>
             LET labelled == {i \in 1..(k - 1) : sim[d].points[i].label = profile.from}
             IN  labelled = {} \/ point.value = sim[d].points[Max(labelled)].value
      BY <2>5, <3>2 DEF DerivedShow
    <3> QED
      BY <2>5, <3>3
  <2>6. CASE /\ profile.kind \notin {"random_walk", "multi_state"}
             /\ ~(profile.kind = "occupancy_linked" /\ Distinct(schedule))
             /\ ~(profile.kind = "derived_constant" /\ lock = "free" /\ ticker # "dead")
    BY <2>6
  <2> QED
    BY <2>2, <2>3, <2>4, <2>5, <2>6
<1> QED
  BY <1>1, <1>2, <1>3, PTL DEF Spec

-----------------------------------------------------------------------------
(* The addresses of a configuration: its positions, one by one. *)

\* Where a device of the expansion comes from.
From(c, d, b, n) ==
    /\ b \in DOMAIN c.instances /\ n \in 1..c.instances[b].count
    /\ expand(c)[d] = DeviceAt(c, b, n)

TemplateAt(c, b) == c.templates[c.instances[b].template]

LEMMA DeviceFrom ==
    ASSUME NEW c, DevicesFine(c), NEW d \in DOMAIN expand(c)
    PROVE  \E b, n : From(c, d, b, n)
<1>1. /\ DOMAIN c.instances = 1..Len(c.instances)
      /\ MadeOf(expand(c), BlocksOf(c), Len(c.instances))
  BY Expanded
<1>2. Drawn(BlocksOf(c), Len(c.instances), expand(c)[d])
  BY <1>1 DEF MadeOf
<1>3. PICK b \in 1..Len(c.instances) : \E i \in DOMAIN BlocksOf(c)[b] :
          expand(c)[d] = BlocksOf(c)[b][i]
  BY <1>2 DEF Drawn
<1>4. PICK i \in DOMAIN BlocksOf(c)[b] : expand(c)[d] = BlocksOf(c)[b][i]
  BY <1>3
<1>5. BlocksOf(c)[b] = [n \in 1..c.instances[b].count |-> DeviceAt(c, b, n)]
  BY <1>1 DEF BlocksOf
<1>6. i \in 1..c.instances[b].count /\ BlocksOf(c)[b][i] = DeviceAt(c, b, i)
  BY <1>4, <1>5
<1> QED
  BY <1>1, <1>4, <1>6 DEF From

LEMMA FromOne ==
    ASSUME NEW c, DevicesFine(c), Expandable(c), IdsFit(c), NEW b, NEW n,
           NEW d \in DOMAIN expand(c), NEW e \in DOMAIN expand(c), From(c, d, b, n), From(c, e, b, n)
    PROVE  d = e
  BY DevicesOf DEF From, DevicesIn

\* The points of a device are those of its template.
LEMMA PointsFrom ==
    ASSUME NEW c, DevicesFine(c), Expandable(c), NEW d \in DOMAIN expand(c), NEW b, NEW n,
           From(c, d, b, n)
    PROVE  /\ DOMAIN expand(c)[d].points = DOMAIN TemplateAt(c, b)
           /\ Len(TemplateAt(c, b)) \in Nat
           /\ DOMAIN TemplateAt(c, b) = 1..Len(TemplateAt(c, b))
           /\ \A k \in DOMAIN TemplateAt(c, b) :
                 /\ <<b, n, k>> \in Positions(c)
                 /\ expand(c)[d].points[k].label = TemplateAt(c, b)[k].label
                 /\ expand(c)[d].points[k].object_type = SpelledAt(c, <<b, n, k>>)
                 /\ expand(c)[d].points[k].instance = instance_counter(c, <<b, n, k>>)
                 /\ DOMAIN expand(c)[d].points[k] = {"label", "object_type", "profile", "instance"}
<1> DEFINE template == TemplateAt(c, b)
           device == DeviceAt(c, b, n)
<1>1. /\ b \in DOMAIN c.instances /\ n \in 1..c.instances[b].count /\ expand(c)[d] = device
  BY DEF From
<1>2. Len(template) \in Nat /\ DOMAIN template = 1..Len(template)
  BY <1>1 DEF DevicesFine, Expandable, TemplateAt
<1>3. device.points = [k \in DOMAIN template |->
                          [label |-> template[k].label, object_type |-> template[k].object_type,
                           profile |-> template[k].profile,
                           instance |-> instance_counter(c, <<b, n, k>>)]]
  BY DEF DeviceAt, TemplateAt
<1>4. ASSUME NEW k \in DOMAIN template
      PROVE  <<b, n, k>> \in Positions(c) /\ SpelledAt(c, <<b, n, k>>) = template[k].object_type
  <2>1. <<b, n, k>> \in {b} \X (1..c.instances[b].count) \X DOMAIN template
    BY <1>1
  <2>2. <<b, n, k>> \in Positions(c)
    BY <1>1, <2>1 DEF Positions, TemplateAt
  <2>3. <<b, n, k>>[1] = b /\ <<b, n, k>>[3] = k
    OBVIOUS
  <2> QED
    BY <2>2, <2>3 DEF SpelledAt, TemplateAt
<1> HIDE DEF template, device
<1> QED
  BY <1>1, <1>2, <1>3, <1>4 DEF template

-----------------------------------------------------------------------------
(* The order of positions. *)

Triples == Int \X Int \X Int

LEMMA TripleOrder ==
    ASSUME NEW p \in Triples, NEW q \in Triples
    PROVE  /\ p[1] \in Int /\ p[2] \in Int /\ p[3] \in Int
           /\ p = q <=> (p[1] = q[1] /\ p[2] = q[2] /\ p[3] = q[3])
           /\ AtOrBefore(p, q) <=>
                 \/ p[1] < q[1]
                 \/ p[1] = q[1] /\ p[2] < q[2]
                 \/ p[1] = q[1] /\ p[2] = q[2] /\ p[3] <= q[3]
<1>1. /\ p[1] \in Int /\ p[2] \in Int /\ p[3] \in Int
      /\ q[1] \in Int /\ q[2] \in Int /\ q[3] \in Int
      /\ p = q <=> (p[1] = q[1] /\ p[2] = q[2] /\ p[3] = q[3])
      /\ DOMAIN q = {1, 2, 3}
  BY DEF Triples
<1>2. (\E i \in DOMAIN q : p[i] < q[i] /\ \A j \in 1..i - 1 : p[j] = q[j]) <=>
         \/ p[1] < q[1]
         \/ p[1] = q[1] /\ p[2] < q[2]
         \/ p[1] = q[1] /\ p[2] = q[2] /\ p[3] < q[3]
  <2>1. 1..1 - 1 = {} /\ 1..2 - 1 = {1} /\ 1..3 - 1 = {1, 2}
    OBVIOUS
  <2> QED
    BY <1>1, <2>1
<1> QED
  BY <1>1, <1>2 DEF AtOrBefore

LEMMA OrderIsTotal ==
    ASSUME NEW p \in Triples, NEW q \in Triples
    PROVE  /\ AtOrBefore(p, p)
           /\ AtOrBefore(p, q) \/ AtOrBefore(q, p)
           /\ AtOrBefore(p, q) /\ AtOrBefore(q, p) => p = q
           /\ \A r \in Triples : AtOrBefore(p, q) /\ AtOrBefore(q, r) => AtOrBefore(p, r)
  BY TripleOrder

\* Of two elements of a finite set the one with the later key has more at or
\* before it.
LEMMA PlacesApart ==
    ASSUME NEW S, IsFiniteSet(S), NEW key, \A x \in S : key[x] \in Triples,
           \A x, y \in S : key[x] = key[y] => x = y,
           NEW p \in S, NEW q \in S, p # q
    PROVE  Cardinality({r \in S : AtOrBefore(key[r], key[p])})
               # Cardinality({r \in S : AtOrBefore(key[r], key[q])})
<1> DEFINE Upto(x) == {r \in S : AtOrBefore(key[r], key[x])}
<1>1. ASSUME NEW x \in S, NEW y \in S, AtOrBefore(key[x], key[y]), x # y
      PROVE  Cardinality(Upto(x)) # Cardinality(Upto(y))
  <2>1. Upto(x) \subseteq Upto(y)
    BY <1>1, OrderIsTotal
  <2>2. y \in Upto(y) /\ y \notin Upto(x)
    BY <1>1, OrderIsTotal
  <2>3. IsFiniteSet(Upto(y))
    BY FS_Subset
  <2> HIDE DEF Upto
  <2> QED
    BY <2>1, <2>2, <2>3, FS_Subset
<1>2. AtOrBefore(key[p], key[q]) \/ AtOrBefore(key[q], key[p])
  BY OrderIsTotal
<1> HIDE DEF Upto
<1>3. Cardinality(Upto(p)) # Cardinality(Upto(q))
  BY <1>1, <1>2
<1> QED
  BY <1>3 DEF Upto

\* A configuration has finitely many points.
LEMMA FinitePositions ==
    ASSUME NEW c, DevicesFine(c), Expandable(c)
    PROVE  Positions(c) \in SUBSET Triples /\ IsFiniteSet(Positions(c))
<1> DEFINE L == Len(c.instances)
           N(b) == c.instances[b].count
           K(b) == Len(TemplateAt(c, b))
           Of(b) == {b} \X (1..N(b)) \X (1..K(b))
<1>1. /\ L \in Nat /\ DOMAIN c.instances = 1..L
      /\ \A b \in 1..L : N(b) \in Nat /\ K(b) \in Nat /\ DOMAIN TemplateAt(c, b) = 1..K(b)
  <2>1. c.instances \in Seq([template : STRING, prefix : Seq(STRING), count : Nat])
    BY DEF DevicesFine
  <2>2. L \in Nat /\ DOMAIN c.instances = 1..L
    BY <2>1, LenProperties
  <2>3. ASSUME NEW b \in 1..L
        PROVE  N(b) \in Nat /\ K(b) \in Nat /\ DOMAIN TemplateAt(c, b) = 1..K(b)
    <3>1. c.instances[b] \in [template : STRING, prefix : Seq(STRING), count : Nat]
      BY <2>1, <2>2, ElementOfSeq, Zenon
    <3>2. c.instances[b].template \in DOMAIN c.templates
      BY <2>2 DEF Expandable
    <3> QED
      BY <3>1, <3>2 DEF DevicesFine, TemplateAt
  <2> HIDE DEF L
  <2> QED
    BY <2>2, <2>3
<1>2. Positions(c) = UNION {Of(b) : b \in 1..L}
  BY <1>1 DEF Positions, TemplateAt
<1> HIDE DEF L, N, K
<1>3. ASSUME NEW b \in 1..L
      PROVE  IsFiniteSet(Of(b)) /\ Of(b) \in SUBSET Triples
  <2> DEFINE A == (1..N(b)) \X (1..K(b))
             f == [x \in A |-> <<b, x[1], x[2]>>]
  <2>1. IsFiniteSet(A)
    <3>1. N(b) \in Int /\ K(b) \in Int
      BY <1>1
    <3>2. IsFiniteSet(1..N(b)) /\ IsFiniteSet(1..K(b))
      BY <3>1, FS_Interval
    <3> QED
      BY <3>2, FS_Product
  <2>2. ASSUME NEW t \in Of(b)
        PROVE  \E x \in A : f[x] = t
    <3>1. t[1] = b /\ t = <<t[1], t[2], t[3]>> /\ <<t[2], t[3]>> \in A
      OBVIOUS
    <3>2. f[<<t[2], t[3]>>] = t
      BY <3>1
    <3> QED
      BY <3>1, <3>2
  <2>3. f \in Surjection(A, Of(b))
    <3>1. f \in [A -> Of(b)]
      OBVIOUS
    <3> HIDE DEF f, A, Of
    <3> QED
      BY <2>2, <3>1 DEF Surjection
  <2>4. IsFiniteSet(Of(b))
    <3> HIDE DEF f, A, Of
    <3> QED
      BY <2>1, <2>3, FS_Surjection
  <2>5. Of(b) \in SUBSET Triples
    BY <1>1 DEF Triples
  <2> QED
    BY <2>4, <2>5
<1> DEFINE S == {Of(b) : b \in 1..L}
           g == [b \in 1..L |-> Of(b)]
<1>4. g \in Surjection(1..L, S)
  <2> HIDE DEF Of
  <2> QED
    BY DEF Surjection
<1>5. IsFiniteSet(1..L)
  BY <1>1, FS_Interval
<1>6. IsFiniteSet(S)
  <2> HIDE DEF g, S
  <2> QED
    BY <1>4, <1>5, FS_Surjection
<1>7. \A T \in S : IsFiniteSet(T) /\ T \in SUBSET Triples
  <2> HIDE DEF Of
  <2> QED
    BY <1>3
<1> HIDE DEF S
<1>8. IsFiniteSet(UNION S) /\ UNION S \in SUBSET Triples
  BY <1>6, <1>7, FS_UNION
<1> QED
  BY <1>2, <1>8 DEF S

\* Points of one spelling are counted apart.
LEMMA CountersApart ==
    ASSUME NEW c, DevicesFine(c), Expandable(c), NEW p \in Positions(c), NEW q \in Positions(c),
           SpelledAt(c, p) = SpelledAt(c, q), instance_counter(c, p) = instance_counter(c, q)
    PROVE  p = q
<1> DEFINE S == {r \in Positions(c) : SpelledAt(c, r) = SpelledAt(c, p)}
<1>1. Positions(c) \in SUBSET Triples /\ IsFiniteSet(Positions(c))
  BY FinitePositions
<1>2. S \in SUBSET Triples /\ IsFiniteSet(S) /\ p \in S /\ q \in S
  BY <1>1, FS_Subset
<1> DEFINE key == [x \in S |-> x]
<1>3. /\ instance_counter(c, p) = Cardinality({r \in S : AtOrBefore(key[r], key[p])})
      /\ instance_counter(c, q) = Cardinality({r \in S : AtOrBefore(key[r], key[q])})
  <2>1. /\ {r \in S : AtOrBefore(key[r], key[p])} =
               {r \in Positions(c) : AtOrBefore(r, p) /\ SpelledAt(c, r) = SpelledAt(c, p)}
        /\ {r \in S : AtOrBefore(key[r], key[q])} =
               {r \in Positions(c) : AtOrBefore(r, q) /\ SpelledAt(c, r) = SpelledAt(c, q)}
    BY <1>2
  <2> QED
    BY <2>1 DEF instance_counter
<1>4. (\A x \in S : key[x] \in Triples) /\ \A x, y \in S : key[x] = key[y] => x = y
  BY <1>2
<1> HIDE DEF S, key
<1>5. p # q => Cardinality({r \in S : AtOrBefore(key[r], key[p])})
                   # Cardinality({r \in S : AtOrBefore(key[r], key[q])})
  BY <1>2, <1>4, PlacesApart
<1> QED
  BY <1>3, <1>5

\* The counters count.
LEMMA CountersCount ==
    ASSUME NEW c, DevicesFine(c), Expandable(c), NEW p
    PROVE  instance_counter(c, p) \in Nat
<1>1. IsFiniteSet(Positions(c))
  BY FinitePositions
<1>2. IsFiniteSet({q \in Positions(c) : AtOrBefore(q, p) /\ SpelledAt(c, q) = SpelledAt(c, p)})
  BY <1>1, FS_Subset
<1> QED
  BY <1>2, FS_CardinalityType DEF instance_counter

-----------------------------------------------------------------------------
(* The points that are simulated. *)

\* Where a simulated point comes from: the device of block b and number n, and
\* its template's point k.
Made(c, p, b, n, k) ==
    LET devices == SimulatedDevices(c)
    IN  /\ From(c, p[1], b, n) /\ k \in DOMAIN TemplateAt(c, b)
        /\ <<b, n, k>> \in Positions(c)
        /\ PointAt(devices, p).label = TemplateAt(c, b)[k].label
        /\ PointAt(devices, p).object_type = Lowered[SpelledAt(c, <<b, n, k>>)]
        /\ PointAt(devices, p).instance = instance_counter(c, <<b, n, k>>)
        /\ PointAt(devices, p).object_type \in DOMAIN ObjectTypes

LEMMA SimulatedShape ==
    ASSUME NEW c, DevicesFine(c), Expandable(c), IdsFit(c)
    PROVE  LET devices == SimulatedDevices(c)
           IN  /\ DevicesIn(devices) /\ DOMAIN devices = DOMAIN expand(c)
               /\ \A d \in DOMAIN devices :
                     /\ devices[d].device_id = expand(c)[d].device_id
                     /\ devices[d].name = expand(c)[d].name
<1> DEFINE ds == expand(c)
           devices == SimulatedDevices(c)
<1>1. DevicesIn(ds)
  BY DevicesOf
<1>2. devices = [d \in DOMAIN ds |-> Simulated(ds[d])]
  BY DEF SimulatedDevices
<1>3. \A d \in DOMAIN ds : "name" \in DOMAIN ds[d] /\ "device_id" \in DOMAIN ds[d]
  <2> TAKE d \in DOMAIN ds
  <2>1. PICK b, n : ds[d] = DeviceAt(c, b, n)
    BY Expanded
  <2> QED
    BY <2>1 DEF DeviceAt
<1> HIDE DEF ds, devices
<1>4. DOMAIN devices = DOMAIN ds /\ Len(devices) = Len(ds)
  BY <1>1, <1>2, LengthIs DEF DevicesIn
<1>5. \A d \in DOMAIN ds : \E x : devices[d] = [ds[d] EXCEPT !.points = x]
  BY <1>2 DEF Simulated
<1>6. DevicesIn(devices)
  BY <1>1, <1>4, <1>5, DevicesKept
<1>7. \A d \in DOMAIN ds : devices[d].device_id = ds[d].device_id /\ devices[d].name = ds[d].name
  BY <1>3, <1>5
<1> QED
  BY <1>4, <1>6, <1>7 DEF ds, devices

\* Every simulated point is one of its device's, and no point twice.
LEMMA KeptPoints ==
    ASSUME NEW c, DevicesFine(c), Expandable(c), IdsFit(c), NEW d \in DOMAIN expand(c),
           NEW b, NEW n, From(c, d, b, n)
    PROVE  LET devices == SimulatedDevices(c)
           IN  \E K \in Nat : \E at_template \in [1..K -> DOMAIN TemplateAt(c, b)] :
                  /\ DOMAIN devices[d].points = 1..K
                  /\ \A i, j \in 1..K : at_template[i] = at_template[j] => i = j
                  /\ \A i \in 1..K : Made(c, <<d, i>>, b, n, at_template[i])
<1> DEFINE device == expand(c)[d]
           template == TemplateAt(c, b)
           S == {k \in DOMAIN device.points : Lowered[device.points[k].object_type] \in DOMAIN ObjectTypes}
           K == Cardinality(S)
           known == InOrder(S)
           devices == SimulatedDevices(c)
<1>1. /\ DOMAIN device.points = DOMAIN template /\ DOMAIN template = 1..Len(template)
      /\ Len(template) \in Nat
      /\ \A k \in DOMAIN template :
            /\ <<b, n, k>> \in Positions(c)
            /\ device.points[k].label = template[k].label
            /\ device.points[k].object_type = SpelledAt(c, <<b, n, k>>)
            /\ device.points[k].instance = instance_counter(c, <<b, n, k>>)
            /\ DOMAIN device.points[k] = {"label", "object_type", "profile", "instance"}
  BY PointsFrom
<1>2. S \in SUBSET Nat /\ IsFiniteSet(S)
  <2>1. S \in SUBSET (1..Len(template))
    BY <1>1
  <2>2. IsFiniteSet(1..Len(template))
    <3>1. Len(template) \in Int
      BY <1>1
    <3> HIDE DEF template
    <3> QED
      BY <3>1, FS_Interval
  <2> HIDE DEF S, template
  <2>3. IsFiniteSet(S)
    BY <2>1, <2>2, FS_Subset
  <2> QED
    BY <1>1, <2>1, <2>3
<1>3. devices[d] = Simulated(device)
  <2>1. devices = [e \in DOMAIN expand(c) |-> Simulated(expand(c)[e])]
    BY DEF SimulatedDevices
  <2> HIDE DEF devices
  <2> QED
    BY <2>1
<1>4. "points" \in DOMAIN device
  <2>1. device = DeviceAt(c, b, n)
    BY Zenon DEF From
  <2> HIDE DEF device
  <2>2. "points" \in DOMAIN DeviceAt(c, b, n)
    BY DEF DeviceAt
  <2> QED
    BY <2>1, <2>2
<1>5. devices[d].points =
          [k \in DOMAIN known |-> [device.points[known[k]] EXCEPT !.object_type = Lowered[@]]]
  <2>1. Simulated(device) =
            [device EXCEPT !.points =
                [k \in DOMAIN known |-> [device.points[known[k]] EXCEPT !.object_type = Lowered[@]]]]
    BY DEF Simulated
  <2> HIDE DEF device, known, devices
  <2> QED
    BY <1>3, <1>4, <2>1
<1>6. /\ K \in Nat /\ DOMAIN known = 1..K /\ known \in [1..K -> S]
      /\ \A i, j \in 1..K : known[i] = known[j] => i = j
  <2> HIDE DEF S
  <2> QED
    BY <1>2, InOrderFacts
<1>7. S \subseteq DOMAIN template /\ \A k \in S : Lowered[device.points[k].object_type] \in DOMAIN ObjectTypes
  BY <1>1
<1> HIDE DEF S, known, K, device, devices, template
<1>8. DOMAIN devices[d].points = 1..K /\ known \in [1..K -> DOMAIN template]
  BY <1>5, <1>6, <1>7
<1>9. ASSUME NEW i \in 1..K
      PROVE  Made(c, <<d, i>>, b, n, known[i])
  <2>1. known[i] \in S /\ known[i] \in DOMAIN template
    BY <1>6, <1>7
  <2>2. devices[d].points[i] = [device.points[known[i]] EXCEPT !.object_type = Lowered[@]]
    BY <1>5, <1>6
  <2>3. /\ devices[d].points[i].label = device.points[known[i]].label
        /\ devices[d].points[i].object_type = Lowered[device.points[known[i]].object_type]
        /\ devices[d].points[i].instance = device.points[known[i]].instance
    BY <1>1, <2>1, <2>2
  <2>4. PointAt(devices, <<d, i>>) = devices[d].points[i]
    BY DEF PointAt
  <2> QED
    BY <1>1, <1>7, <2>1, <2>3, <2>4 DEF Made, template, devices
<1> QED
  BY <1>6, <1>8, <1>9 DEF devices, template

LEMMA PointsMade ==
    ASSUME NEW c, DevicesFine(c), Expandable(c), IdsFit(c),
           NEW p \in SimulatedPoints(SimulatedDevices(c))
    PROVE  /\ p = <<p[1], p[2]>> /\ p[1] \in DOMAIN SimulatedDevices(c)
           /\ p[2] \in DOMAIN SimulatedDevices(c)[p[1]].points
           /\ \E b, n, k : Made(c, p, b, n, k)
<1> DEFINE devices == SimulatedDevices(c)
<1>1. PICK d \in DOMAIN devices : p \in {d} \X DOMAIN devices[d].points
  BY DEF SimulatedPoints
<1>2. p = <<p[1], p[2]>> /\ p[1] = d /\ p[2] \in DOMAIN devices[d].points
  BY <1>1
<1>3. DOMAIN devices = DOMAIN expand(c)
  BY SimulatedShape
<1>4. PICK b, n : From(c, d, b, n)
  BY <1>1, <1>3, DeviceFrom
<1>5. \E K \in Nat : \E at_template \in [1..K -> DOMAIN TemplateAt(c, b)] :
         DOMAIN devices[d].points = 1..K /\ \A i \in 1..K : Made(c, <<d, i>>, b, n, at_template[i])
  BY <1>1, <1>3, <1>4, KeptPoints
<1>6. \E k : Made(c, <<d, p[2]>>, b, n, k)
  BY <1>2, <1>5
<1> QED
  BY <1>1, <1>2, <1>6

\* What is simulated is told apart by type and instance, whatever the device.
Unmistakable(devices) ==
    /\ DevicesIn(devices)
    /\ \A p, q \in SimulatedPoints(devices) :
          /\ PointAt(devices, p).object_type = PointAt(devices, q).object_type
          /\ PointAt(devices, p).instance = PointAt(devices, q).instance
          => p = q
    /\ \A p \in SimulatedPoints(devices) :
          /\ p = <<p[1], p[2]>> /\ p[1] \in DOMAIN devices /\ p[2] \in DOMAIN devices[p[1]].points
          /\ PointAt(devices, p).object_type \in DOMAIN ObjectTypes
          /\ PointAt(devices, p).instance \in Nat
    /\ \A d \in DOMAIN devices : \E K \in Nat : DOMAIN devices[d].points = 1..K

\* Positions of two points of one type and instance are the same.
LEMMA MadeAlike ==
    ASSUME NEW c, DevicesFine(c), Expandable(c), Plain(c),
           NEW p, NEW b, NEW n, NEW k, Made(c, p, b, n, k),
           NEW q, NEW h, NEW m, NEW l, Made(c, q, h, m, l),
           PointAt(SimulatedDevices(c), p).object_type = PointAt(SimulatedDevices(c), q).object_type,
           PointAt(SimulatedDevices(c), p).instance = PointAt(SimulatedDevices(c), q).instance
    PROVE  b = h /\ n = m /\ k = l
<1>1. /\ <<b, n, k>> \in Positions(c) /\ <<h, m, l>> \in Positions(c)
      /\ Lowered[SpelledAt(c, <<b, n, k>>)] = Lowered[SpelledAt(c, <<h, m, l>>)]
      /\ instance_counter(c, <<b, n, k>>) = instance_counter(c, <<h, m, l>>)
  BY DEF Made
<1>2. SpelledAt(c, <<b, n, k>>) = SpelledAt(c, <<h, m, l>>)
  BY <1>1 DEF Plain
<1>3. <<b, n, k>> = <<h, m, l>>
  BY <1>1, <1>2, CountersApart
<1> QED
  BY <1>3

LEMMA PlainIsUnmistakable ==
    ASSUME NEW c, DevicesFine(c), Expandable(c), Plain(c)
    PROVE  Unmistakable(SimulatedDevices(c))
<1> DEFINE devices == SimulatedDevices(c)
<1>1. IdsFit(c)
  BY DEF Plain
<1>2. DevicesIn(devices) /\ DOMAIN devices = DOMAIN expand(c)
  BY <1>1, SimulatedShape
<1>3. ASSUME NEW d \in DOMAIN devices
      PROVE  \E K \in Nat : DOMAIN devices[d].points = 1..K
  <2>1. PICK b, n : From(c, d, b, n)
    BY <1>2, DeviceFrom
  <2> QED
    BY <1>1, <1>2, <2>1, KeptPoints
<1>4. ASSUME NEW p \in SimulatedPoints(devices)
      PROVE  /\ p = <<p[1], p[2]>> /\ p[1] \in DOMAIN devices /\ p[2] \in DOMAIN devices[p[1]].points
             /\ PointAt(devices, p).object_type \in DOMAIN ObjectTypes
             /\ PointAt(devices, p).instance \in Nat
  <2>1. /\ p = <<p[1], p[2]>> /\ p[1] \in DOMAIN devices /\ p[2] \in DOMAIN devices[p[1]].points
        /\ \E b, n, k : Made(c, p, b, n, k)
    BY <1>1, PointsMade
  <2> QED
    BY <2>1, CountersCount DEF Made
<1>5. ASSUME NEW p \in SimulatedPoints(devices), NEW q \in SimulatedPoints(devices),
             PointAt(devices, p).object_type = PointAt(devices, q).object_type,
             PointAt(devices, p).instance = PointAt(devices, q).instance
      PROVE  p = q
  <2>1. /\ p = <<p[1], p[2]>> /\ p[1] \in DOMAIN devices /\ p[2] \in DOMAIN devices[p[1]].points
        /\ q = <<q[1], q[2]>> /\ q[1] \in DOMAIN devices /\ q[2] \in DOMAIN devices[q[1]].points
    BY <1>4
  <2>2. PICK b, n, k : Made(c, p, b, n, k)
    BY <1>1, PointsMade
  <2>3. PICK h, m, l : Made(c, q, h, m, l)
    BY <1>1, PointsMade
  <2>4. b = h /\ n = m
    BY <1>5, <2>2, <2>3, MadeAlike
  <2>5. From(c, p[1], b, n) /\ From(c, q[1], b, n)
    BY <2>2, <2>3, <2>4 DEF Made
  <2>6. p[1] = q[1]
    BY <1>1, <1>2, <2>1, <2>5, FromOne
  <2>7. PICK K \in Nat : \E f \in [1..K -> DOMAIN TemplateAt(c, b)] :
            /\ DOMAIN devices[p[1]].points = 1..K
            /\ \A i, j \in 1..K : f[i] = f[j] => i = j
            /\ \A i \in 1..K : Made(c, <<p[1], i>>, b, n, f[i])
    BY <1>1, <1>2, <2>1, <2>5, KeptPoints
  <2>8. PICK f \in [1..K -> DOMAIN TemplateAt(c, b)] :
            /\ DOMAIN devices[p[1]].points = 1..K
            /\ \A i, j \in 1..K : f[i] = f[j] => i = j
            /\ \A i \in 1..K : Made(c, <<p[1], i>>, b, n, f[i])
    BY <2>7
  <2>9. Made(c, p, b, n, f[p[2]]) /\ Made(c, q, b, n, f[q[2]])
    BY <2>1, <2>6, <2>8
  <2>10. f[p[2]] = f[q[2]]
    BY <1>5, <2>9, MadeAlike
  <2> QED
    BY <2>1, <2>6, <2>8, <2>10
<1> QED
  BY <1>2, <1>3, <1>4, <1>5 DEF Unmistakable

\* Each point is found by its type and instance, on its device and on any.
LEMMA OnlyOne == \A x \in Int : Min({x}) = x
  BY DEF Min

LEMMA LookupLeadsHome ==
    ASSUME NEW devices, Unmistakable(devices), NEW p \in SimulatedPoints(devices)
    PROVE  LET point == PointAt(devices, p)
           IN  /\ Lookup(devices, devices[p[1]].device_id, point.object_type, point.instance) = p
               /\ resolve_property_read(devices, point.object_type, point.instance) = p
<1> DEFINE point == PointAt(devices, p)
           ds == {d \in DOMAIN devices : devices[d].device_id = devices[p[1]].device_id}
           ks == {k \in DOMAIN devices[p[1]].points :
                     /\ devices[p[1]].points[k].object_type = point.object_type
                     /\ devices[p[1]].points[k].instance = point.instance}
           ps == {q \in SimulatedPoints(devices) :
                     /\ PointAt(devices, q).object_type = point.object_type
                     /\ PointAt(devices, q).instance = point.instance}
<1>1. p = <<p[1], p[2]>> /\ p[1] \in DOMAIN devices /\ p[2] \in DOMAIN devices[p[1]].points
  BY DEF Unmistakable
<1>2. p[1] \in Int /\ p[2] \in Int
  <2>1. DOMAIN devices = 1..Len(devices) /\ Len(devices) \in Nat
    BY DEF Unmistakable, DevicesIn
  <2>2. PICK K \in Nat : DOMAIN devices[p[1]].points = 1..K
    BY <1>1 DEF Unmistakable
  <2> QED
    BY <1>1, <2>1, <2>2
<1>3. ds = {p[1]}
  BY <1>1 DEF Unmistakable, DevicesIn
<1>4. ks = {p[2]}
  <2>1. p[2] \in ks
    BY <1>1 DEF PointAt
  <2>2. ASSUME NEW k \in ks
        PROVE  k = p[2]
    <3>1. <<p[1], k>> \in SimulatedPoints(devices) /\ PointAt(devices, <<p[1], k>>) = devices[p[1]].points[k]
      <4>1. <<p[1], k>> \in {p[1]} \X DOMAIN devices[p[1]].points
        BY <2>2
      <4> QED
        BY <1>1, <4>1 DEF SimulatedPoints, PointAt
    <3>2. <<p[1], k>> = p
      BY <2>2, <3>1 DEF Unmistakable
    <3> QED
      BY <1>1, <3>2
  <2> QED
    BY <2>1, <2>2
<1>5. ps = {p}
  BY DEF Unmistakable
<1>6. Lookup(devices, devices[p[1]].device_id, point.object_type, point.instance) =
          IF ds = {} \/ {k \in DOMAIN devices[Min(ds)].points :
                            /\ devices[Min(ds)].points[k].object_type = point.object_type
                            /\ devices[Min(ds)].points[k].instance = point.instance} = {}
          THEN NoPosition
          ELSE <<Min(ds), Min({k \in DOMAIN devices[Min(ds)].points :
                            /\ devices[Min(ds)].points[k].object_type = point.object_type
                            /\ devices[Min(ds)].points[k].instance = point.instance})>>
  BY DEF Lookup
<1>7. Min(ds) = p[1] /\ Min(ks) = p[2]
  BY <1>2, <1>3, <1>4, OnlyOne
<1>8. Lookup(devices, devices[p[1]].device_id, point.object_type, point.instance) = p
  <2> HIDE DEF ds, point
  <2>1. Lookup(devices, devices[p[1]].device_id, point.object_type, point.instance) =
            IF ds = {} \/ ks = {} THEN NoPosition ELSE <<p[1], Min(ks)>>
    BY <1>6, <1>7
  <2> HIDE DEF ks
  <2> QED
    BY <1>1, <1>3, <1>4, <1>7, <2>1
<1>9. (CHOOSE x \in ps : \A q \in ps : AtOrBefore(x, q)) = p
  <2>1. AtOrBefore(p, p)
    BY DEF AtOrBefore
  <2> HIDE DEF ps
  <2> QED
    BY <1>5, <2>1
<1>10. resolve_property_read(devices, point.object_type, point.instance) =
           Lookup(devices, devices[(CHOOSE x \in ps : \A q \in ps : AtOrBefore(x, q))[1]].device_id,
                  point.object_type, point.instance)
  <2>1. ps # {}
    BY <1>5
  <2> QED
    BY <2>1 DEF resolve_property_read
<1> HIDE DEF ps, point
<1> QED
  BY <1>8, <1>9, <1>10 DEF point

\* The object list of a device has each of its points.
LEMMA ObjectListed ==
    ASSUME NEW devices, Unmistakable(devices), NEW p \in SimulatedPoints(devices)
    PROVE  LET point == PointAt(devices, p)
           IN  <<point.object_type, point.instance>> \in Range(object_list(devices[p[1]]))
<1> DEFINE d == p[1]
           device == devices[d]
           dom == DOMAIN device.points
           key == [k \in dom |->
                      <<ObjectTypes[device.points[k].object_type].key, device.points[k].instance, k>>]
           Key(k) == <<ObjectTypes[device.points[k].object_type].key, device.points[k].instance, k>>
           Place(k) == Cardinality({j \in dom : AtOrBefore(Key(j), Key(k))})
           sorted == [i \in dom |-> device.points[CHOOSE k \in dom : Place(k) = i]]
<1>1. d \in DOMAIN devices /\ p[2] \in dom
  BY DEF Unmistakable
<1>2. PICK K \in Nat : dom = 1..K
  BY <1>1 DEF Unmistakable
<1>3. IsFiniteSet(dom) /\ Cardinality(dom) = K
  BY <1>2, FS_Interval
<1>4. ASSUME NEW k \in dom
      PROVE  key[k] \in Triples /\ key[k][3] = k
  <2>1. <<d, k>> \in SimulatedPoints(devices) /\ PointAt(devices, <<d, k>>) = device.points[k]
    <3>1. <<d, k>> \in {d} \X DOMAIN devices[d].points
      OBVIOUS
    <3> QED
      BY <1>1, <3>1 DEF SimulatedPoints, PointAt
  <2>2. device.points[k].object_type \in DOMAIN ObjectTypes /\ device.points[k].instance \in Nat
    BY <2>1 DEF Unmistakable
  <2>3. ObjectTypes[device.points[k].object_type].key \in Nat
    BY <2>2, SimulatorAssumption DEF SimulatorAssumption, SimConfigAssumption
  <2>4. key[k] = <<ObjectTypes[device.points[k].object_type].key, device.points[k].instance, k>>
    OBVIOUS
  <2> HIDE DEF key
  <2> QED
    BY <1>2, <2>2, <2>3, <2>4 DEF Triples
<1>5. object_list(device) = [i \in DOMAIN sorted |-> <<sorted[i].object_type, sorted[i].instance>>]
  BY Zenon DEF object_list
<1>a. \A k \in dom : Place(k) = Cardinality({j \in dom : AtOrBefore(key[j], key[k])})
  <2> TAKE k \in dom
  <2>1. \A j \in dom : key[j] = Key(j)
    OBVIOUS
  <2> HIDE DEF key, Key, dom
  <2>2. {j \in dom : AtOrBefore(key[j], key[k])} = {j \in dom : AtOrBefore(Key(j), Key(k))}
    BY <2>1
  <2> QED
    BY <2>2
<1> HIDE DEF dom, key, Place, sorted, device
<1>6. ASSUME NEW k \in dom, Place(k) = Place(p[2])
      PROVE  k = p[2]
  <2> SUFFICES ASSUME k # p[2]
               PROVE  FALSE
    OBVIOUS
  <2>1. \A x, y \in dom : key[x] = key[y] => x = y
    BY <1>4
  <2>2. \A x \in dom : key[x] \in Triples
    BY <1>4
  <2>3. Cardinality({j \in dom : AtOrBefore(key[j], key[k])})
            # Cardinality({j \in dom : AtOrBefore(key[j], key[p[2]])})
    BY <1>1, <1>3, <2>1, <2>2, PlacesApart
  <2>4. Place(k) = Cardinality({j \in dom : AtOrBefore(key[j], key[k])})
        /\ Place(p[2]) = Cardinality({j \in dom : AtOrBefore(key[j], key[p[2]])})
    BY <1>1, <1>a
  <2> QED
    BY <1>6, <2>3, <2>4
<1>7. Place(p[2]) \in dom
  <2> DEFINE T == {j \in dom : AtOrBefore(key[j], key[p[2]])}
  <2>1. T \in SUBSET dom /\ p[2] \in T
    BY <1>1, <1>4, OrderIsTotal
  <2> HIDE DEF T
  <2>2. IsFiniteSet(T) /\ Cardinality(T) <= K /\ Cardinality(T) \in Nat
    BY <1>3, <2>1, FS_Subset, FS_CardinalityType
  <2>3. Cardinality(T) # 0
    BY <2>1, <2>2, FS_EmptySet
  <2> QED
    BY <1>1, <1>2, <1>a, <2>2, <2>3 DEF T
<1>8. sorted[Place(p[2])] = device.points[p[2]] /\ Place(p[2]) \in DOMAIN sorted
  <2>1. (CHOOSE k \in dom : Place(k) = Place(p[2])) = p[2]
    BY <1>1, <1>6
  <2> QED
    BY <1>7, <2>1 DEF sorted
<1>9. object_list(device)[Place(p[2])] = <<device.points[p[2]].object_type, device.points[p[2]].instance>>
      /\ Place(p[2]) \in DOMAIN object_list(device)
  BY <1>5, <1>8
<1>10. PointAt(devices, p) = device.points[p[2]]
  BY DEF PointAt, device
<1> QED
  BY <1>9, <1>10 DEF Range, device

-----------------------------------------------------------------------------
(* The keys under which the devices publish. *)

\* A name is of one prefix and one number.
LEMMA NameIsOfOne ==
    ASSUME NEW prefix \in Seq(STRING), NEW x, NEW other \in Seq(STRING), NEW y,
           Append(prefix, x) = Append(other, y)
    PROVE  prefix = other /\ x = y
<1> DEFINE T == STRING \cup {x}
           U == STRING \cup {y}
<1>1. prefix \in Seq(T) /\ x \in T
  OBVIOUS
<1>2. /\ Len(Append(prefix, x)) = Len(prefix) + 1 /\ Len(prefix) \in Nat
      /\ \A i \in 1..Len(prefix) : Append(prefix, x)[i] = prefix[i]
      /\ Append(prefix, x)[Len(prefix) + 1] = x
  BY <1>1, AppendProperties
<1>3. other \in Seq(U) /\ y \in U
  OBVIOUS
<1>4. /\ Len(Append(other, y)) = Len(other) + 1 /\ Len(other) \in Nat
      /\ \A i \in 1..Len(other) : Append(other, y)[i] = other[i]
      /\ Append(other, y)[Len(other) + 1] = y
  BY <1>3, AppendProperties
<1>5. Len(prefix) = Len(other)
  BY <1>2, <1>4
<1>6. x = y /\ \A i \in 1..Len(prefix) : prefix[i] = other[i]
  BY <1>2, <1>4, <1>5
<1> QED
  BY <1>5, <1>6, SeqEqual

\* The key of a name is its prefix if the number has three digits.
LEMMA NumberedName ==
    ASSUME NEW prefix \in Seq(STRING), NEW x
    PROVE  LET name == Append(prefix, x)
           IN  base_key(name) = IF Len(prefix) > 0 /\ x \in ThreeDigits THEN prefix ELSE name
<1> DEFINE T == STRING \cup {x}
           name == Append(prefix, x)
<1>1. prefix \in Seq(T) /\ x \in T
  OBVIOUS
<1>2. /\ name \in Seq(T) /\ Len(name) = Len(prefix) + 1 /\ Len(prefix) \in Nat
      /\ \A i \in 1..Len(prefix) : name[i] = prefix[i]
      /\ name[Len(prefix) + 1] = x
  BY <1>1, AppendProperties
<1>3. Front(name) = prefix
  <2>1. SubSeq(name, 1, Len(prefix)) = [i \in 1..Len(prefix) |-> name[i]]
    BY <1>2
  <2>2. prefix = [i \in 1..Len(prefix) |-> prefix[i]]
    OBVIOUS
  <2>3. Len(name) - 1 = Len(prefix)
    BY <1>2
  <2> HIDE DEF name
  <2> QED
    BY <1>2, <2>1, <2>2, <2>3 DEF Front
<1> HIDE DEF name
<1>4. name[Len(name)] = x
  BY <1>2
<1>5. base_key(name) = IF Len(prefix) > 0 /\ x \in ThreeDigits THEN prefix ELSE name
  <2>1. Len(name) > 1 <=> Len(prefix) > 0
    BY <1>2
  <2> QED
    BY <1>3, <1>4, <2>1 DEF base_key
<1> QED
  BY <1>5 DEF name

\* No two devices of a plain configuration publish under one key: a key is either
\* a name, and no other's, or a prefix that no other device has.
LEMMA KeysApart ==
    ASSUME NEW c \in Layouts, Expandable(c), Plain(c),
           NEW d \in DOMAIN expand(c), NEW e \in DOMAIN expand(c),
           device_key(expand(c), d) = device_key(expand(c), e)
    PROVE  d = e
<1> DEFINE ds == expand(c)
           Base(x) == base_key(ds[x].name)
           Shared(x) == \E y \in DOMAIN ds : y # x /\ Base(y) = Base(x)
<1>1. DevicesFine(c) /\ IdsFit(c) /\ IsInjective(Numbered)
      /\ \A b \in DOMAIN c.instances :
            /\ 1..c.instances[b].count \subseteq DOMAIN Numbered
            /\ c.instances[b].prefix \in Seq(STRING)
  <2>1. c.instances \in Seq([template : STRING, prefix : Seq(STRING), count : Nat])
    BY SimulatorAssumption DEF SimulatorAssumption, DevicesFine
  <2>2. \A b \in DOMAIN c.instances :
           c.instances[b] \in [template : STRING, prefix : Seq(STRING), count : Nat]
    BY <2>1, ElementOfSeq, LenProperties, Zenon
  <2> QED
    BY <2>2, SimulatorAssumption DEF SimulatorAssumption, SimConfigAssumption, Plain
<1>2. ASSUME NEW x \in DOMAIN ds, NEW b, NEW n, From(c, x, b, n)
      PROVE  /\ ds[x].name = Append(c.instances[b].prefix, Numbered[n])
             /\ c.instances[b].prefix \in Seq(STRING) /\ n \in DOMAIN Numbered
  <2>1. ds[x] = DeviceAt(c, b, n)
    BY <1>2, Zenon DEF From
  <2>2. DeviceAt(c, b, n).name = Append(c.instances[b].prefix, Numbered[n])
    BY DEF DeviceAt
  <2>3. b \in DOMAIN c.instances /\ n \in 1..c.instances[b].count
    BY <1>2, Zenon DEF From
  <2>4. c.instances[b].prefix \in Seq(STRING) /\ 1..c.instances[b].count \subseteq DOMAIN Numbered
    BY <1>1, <2>3
  <2>5. n \in DOMAIN Numbered
    BY <2>3, <2>4
  <2> HIDE DEF ds
  <2>6. ds[x].name = Append(c.instances[b].prefix, Numbered[n])
    BY <2>1, <2>2
  <2> QED
    BY <2>4, <2>5, <2>6
<1>3. ASSUME NEW x \in DOMAIN ds, NEW y \in DOMAIN ds, ds[x].name = ds[y].name
      PROVE  x = y
  <2>1. PICK b, n : From(c, x, b, n)
    BY <1>1, DeviceFrom
  <2>2. PICK h, m : From(c, y, h, m)
    BY <1>1, DeviceFrom
  <2>3. /\ Append(c.instances[b].prefix, Numbered[n]) = Append(c.instances[h].prefix, Numbered[m])
        /\ c.instances[b].prefix \in Seq(STRING) /\ c.instances[h].prefix \in Seq(STRING)
        /\ n \in DOMAIN Numbered /\ m \in DOMAIN Numbered
    <3> HIDE DEF ds
    <3>1. /\ ds[x].name = Append(c.instances[b].prefix, Numbered[n])
          /\ c.instances[b].prefix \in Seq(STRING) /\ n \in DOMAIN Numbered
      BY <1>2, <2>1
    <3>2. /\ ds[y].name = Append(c.instances[h].prefix, Numbered[m])
          /\ c.instances[h].prefix \in Seq(STRING) /\ m \in DOMAIN Numbered
      BY <1>2, <2>2
    <3> QED
      BY <1>3, <3>1, <3>2
  <2>4. c.instances[b].prefix = c.instances[h].prefix /\ Numbered[n] = Numbered[m]
    <3> DEFINE pb == c.instances[b].prefix
               ph == c.instances[h].prefix
               xn == Numbered[n]
               xm == Numbered[m]
    <3>1. pb \in Seq(STRING) /\ ph \in Seq(STRING) /\ Append(pb, xn) = Append(ph, xm)
      BY <2>3
    <3> HIDE DEF pb, ph, xn, xm
    <3>2. pb = ph /\ xn = xm
      BY ONLY <3>1, NameIsOfOne
    <3> QED
      BY <3>2 DEF pb, ph, xn, xm
  <2>5. n = m
    BY <1>1, <2>3, <2>4 DEF IsInjective
  <2>6. b = h
    BY <2>1, <2>2, <2>4 DEF From, Plain
  <2> QED
    BY <1>1, <2>1, <2>2, <2>5, <2>6, FromOne
<1>4. ASSUME NEW x \in DOMAIN ds, NEW y \in DOMAIN ds, x # y, ds[x].name = Base(y)
      PROVE  Base(x) = Base(y)
  <2>1. PICK b, n : From(c, x, b, n)
    BY <1>1, DeviceFrom
  <2>2. PICK h, m : From(c, y, h, m)
    BY <1>1, DeviceFrom
  <2> DEFINE px == c.instances[b].prefix
             py == c.instances[h].prefix
  <2>3. /\ ds[x].name = Append(px, Numbered[n]) /\ ds[y].name = Append(py, Numbered[m])
        /\ px \in Seq(STRING) /\ py \in Seq(STRING)
    BY <1>2, <2>1, <2>2
  <2>4. Base(y) # ds[y].name
    BY <1>3, <1>4
  <2>5. base_key(py) = py
    BY <2>2 DEF From, Plain
  <2> HIDE DEF px, py
  <2>6. Base(y) = py
    BY <2>3, <2>4, NumberedName
  <2>7. py = Append(px, Numbered[n])
    BY <1>4, <2>3, <2>6
  <2>8. base_key(Append(px, Numbered[n])) = Append(px, Numbered[n])
    BY <2>5, <2>7
  <2> QED
    BY <2>3, <2>6, <2>7, <2>8
<1>5. \A x \in DOMAIN ds : device_key(ds, x) = IF Shared(x) THEN ds[x].name ELSE Base(x)
  BY DEF device_key
<1> HIDE DEF ds
<1> SUFFICES ASSUME d # e
             PROVE  FALSE
  OBVIOUS
<1>6. d \in DOMAIN ds /\ e \in DOMAIN ds /\ device_key(ds, d) = device_key(ds, e)
  BY DEF ds
<1>7. CASE Shared(d) /\ Shared(e)
  BY <1>3, <1>5, <1>6, <1>7
<1>8. CASE ~Shared(d) /\ ~Shared(e)
  BY <1>5, <1>6, <1>8
<1>9. CASE Shared(d) /\ ~Shared(e)
  BY <1>4, <1>5, <1>6, <1>9
<1>10. CASE ~Shared(d) /\ Shared(e)
  BY <1>4, <1>5, <1>6, <1>10
<1> QED
  BY <1>7, <1>8, <1>9, <1>10

-----------------------------------------------------------------------------
(* The cells of the Modbus server. *)

\* Sequences without a common element put together.
LEMMA FlatOnce ==
    ASSUME NEW S, NEW L \in Nat, NEW ss \in [1..L -> Seq(S)],
           \A b, h \in 1..L : \A i \in DOMAIN ss[b], j \in DOMAIN ss[h] :
              ss[b][i] = ss[h][j] => b = h /\ i = j
    PROVE  IsInjective(FlattenSeq(ss))
<1> DEFINE flat == FlattenSeq(ss)
<1>1. MadeOf(flat, ss, L)
  BY Flattened
<1> HIDE DEF flat
<1>2. ASSUME NEW x \in DOMAIN flat, NEW y \in DOMAIN flat, x # y
      PROVE  flat[x] # flat[y]
  <2>1. Apart(ss, L, flat[x], flat[y])
    BY <1>1, <1>2 DEF MadeOf
  <2>2. PICK b, h \in 1..L : \E i \in DOMAIN ss[b], j \in DOMAIN ss[h] :
            flat[x] = ss[b][i] /\ flat[y] = ss[h][j] /\ (b # h \/ i # j)
    BY <2>1 DEF Apart
  <2>3. PICK i \in DOMAIN ss[b], j \in DOMAIN ss[h] :
            flat[x] = ss[b][i] /\ flat[y] = ss[h][j] /\ (b # h \/ i # j)
    BY <2>2
  <2> QED
    BY <2>3
<1> QED
  BY <1>2 DEF IsInjective, flat

\* Lists of lists of elements of S, each element in one place.
ListsApart(lists, counts, D, S) ==
    /\ D \in Nat /\ \A d \in 1..D : counts[d] \in Nat
    /\ \A d \in 1..D : lists[d] \in [1..counts[d] -> Seq(S)]
    /\ \A d, e \in 1..D : \A k \in 1..counts[d], l \in 1..counts[e] :
          \A i \in DOMAIN lists[d][k], j \in DOMAIN lists[e][l] :
             lists[d][k][i] = lists[e][l][j] => d = e /\ k = l /\ i = j

\* A sequence of just these elements, each once.
OfLists(flat, lists, counts, D, S) ==
    /\ flat \in Seq(S) /\ IsInjective(flat)
    /\ \A x \in DOMAIN flat : \E d \in 1..D : \E k \in 1..counts[d] :
          \E i \in DOMAIN lists[d][k] : flat[x] = lists[d][k][i]
    /\ \A d \in 1..D : \A k \in 1..counts[d] : \A i \in DOMAIN lists[d][k] :
          \E x \in DOMAIN flat : flat[x] = lists[d][k][i]

LEMMA ListsOnce ==
    ASSUME NEW S, NEW D, NEW counts, NEW lists, ListsApart(lists, counts, D, S)
    PROVE  OfLists(FlattenSeq([d \in 1..D |-> FlattenSeq(lists[d])]), lists, counts, D, S)
<1>a. /\ D \in Nat /\ \A d \in 1..D : counts[d] \in Nat
      /\ \A d \in 1..D : lists[d] \in [1..counts[d] -> Seq(S)]
  BY DEF ListsApart
<1>b. \A d, e \in 1..D : \A k \in 1..counts[d], l \in 1..counts[e] :
         \A i \in DOMAIN lists[d][k], j \in DOMAIN lists[e][l] :
            lists[d][k][i] = lists[e][l][j] => d = e /\ k = l /\ i = j
  BY DEF ListsApart
<1> DEFINE inner(d) == FlattenSeq(lists[d])
           ss       == [d \in 1..D |-> inner(d)]
           flat     == FlattenSeq(ss)
<1>1. ASSUME NEW d \in 1..D
      PROVE  /\ inner(d) \in Seq(S) /\ MadeOf(inner(d), lists[d], counts[d])
             /\ IsInjective(inner(d))
  <2>1. inner(d) \in Seq(S) /\ MadeOf(inner(d), lists[d], counts[d])
    BY <1>a, Flattened
  <2>2. counts[d] \in Nat /\ lists[d] \in [1..counts[d] -> Seq(S)]
    BY <1>a
  <2>3. \A k, l \in 1..counts[d] : \A i \in DOMAIN lists[d][k], j \in DOMAIN lists[d][l] :
           lists[d][k][i] = lists[d][l][j] => k = l /\ i = j
    BY <1>b
  <2>4. IsInjective(inner(d))
    BY <2>2, <2>3, FlatOnce
  <2> QED
    BY <2>1, <2>4
<1> HIDE DEF inner
<1>2. ASSUME NEW d \in 1..D, NEW i \in DOMAIN inner(d)
      PROVE  \E k \in 1..counts[d] : \E j \in DOMAIN lists[d][k] : inner(d)[i] = lists[d][k][j]
  <2>1. Drawn(lists[d], counts[d], inner(d)[i])
    BY <1>1 DEF MadeOf
  <2> QED
    BY <2>1 DEF Drawn
<1>3. ss \in [1..D -> Seq(S)] /\ \A d \in 1..D : ss[d] = inner(d)
  BY <1>1, <1>a
<1> HIDE DEF ss
<1>4. ASSUME NEW d \in 1..D, NEW e \in 1..D, NEW i \in DOMAIN ss[d], NEW j \in DOMAIN ss[e],
             ss[d][i] = ss[e][j]
      PROVE  d = e /\ i = j
  <2>a. ss[d] = inner(d) /\ ss[e] = inner(e)
    BY <1>3
  <2>b. i \in DOMAIN inner(d) /\ j \in DOMAIN inner(e)
    BY <2>a
  <2>1. PICK k \in 1..counts[d] : \E m \in DOMAIN lists[d][k] : inner(d)[i] = lists[d][k][m]
    BY <1>2, <2>b
  <2>2. PICK l \in 1..counts[e] : \E m \in DOMAIN lists[e][l] : inner(e)[j] = lists[e][l][m]
    BY <1>2, <2>b
  <2>c. PICK m \in DOMAIN lists[d][k] : inner(d)[i] = lists[d][k][m]
    BY <2>1
  <2>d. PICK q \in DOMAIN lists[e][l] : inner(e)[j] = lists[e][l][q]
    BY <2>2
  <2>e. lists[d][k][m] = lists[e][l][q]
    BY <1>4, <2>a, <2>c, <2>d
  <2>3. d = e
    BY <1>b, <2>e
  <2> QED
    BY <1>1, <1>3, <1>4, <2>3 DEF IsInjective
<1>5. flat \in Seq(S) /\ MadeOf(flat, ss, D) /\ IsInjective(flat)
  <2>1. flat \in Seq(S) /\ MadeOf(flat, ss, D)
    BY <1>3, <1>a, Flattened
  <2>2. IsInjective(flat)
    BY <1>3, <1>4, <1>a, FlatOnce
  <2> QED
    BY <2>1, <2>2
<1> HIDE DEF flat
<1>6. ASSUME NEW x \in DOMAIN flat
      PROVE  \E d \in 1..D : \E k \in 1..counts[d] : \E i \in DOMAIN lists[d][k] :
                flat[x] = lists[d][k][i]
  <2>1. PICK d \in 1..D : \E i \in DOMAIN ss[d] : flat[x] = ss[d][i]
    BY <1>5 DEF MadeOf, Drawn
  <2> QED
    BY <1>2, <1>3, <2>1
<1>7. ASSUME NEW d \in 1..D, NEW k \in 1..counts[d], NEW i \in DOMAIN lists[d][k]
      PROVE  \E x \in DOMAIN flat : flat[x] = lists[d][k][i]
  <2>1. PICK j \in DOMAIN ss[d] : ss[d][j] = lists[d][k][i]
    BY <1>1, <1>3 DEF MadeOf
  <2> QED
    BY <1>5, <2>1 DEF MadeOf
<1> QED
  BY <1>5, <1>6, <1>7 DEF OfLists, flat, ss, inner

\* The cells of a point.
CellsOf(devices, p) ==
    {Cell(devices[p[1]], PointAt(devices, p), enc) : enc \in {"high", "low", "whole", "bit"}}

LEMMA PointCells ==
    ASSUME NEW devices, Unmistakable(devices), NEW p \in SimulatedPoints(devices)
    PROVE  LET r == RegistersOf(devices[p[1]], PointAt(devices, p))
               b == BitsOf(devices[p[1]], PointAt(devices, p))
           IN  /\ r \in Seq(CellsOf(devices, p)) /\ b \in Seq(CellsOf(devices, p))
               /\ DOMAIN r # {} \/ DOMAIN b # {}
               /\ \A i, j \in DOMAIN r : r[i] = r[j] => i = j
               /\ \A i, j \in DOMAIN b : b[i] = b[j] => i = j
               /\ \A i \in DOMAIN r, j \in DOMAIN b : r[i] # b[j]
<1> DEFINE C(enc) == Cell(devices[p[1]], PointAt(devices, p), enc)
           T       == CellsOf(devices, p)
           r       == RegistersOf(devices[p[1]], PointAt(devices, p))
           b       == BitsOf(devices[p[1]], PointAt(devices, p))
           kind    == ObjectTypes[PointAt(devices, p).object_type].kind
           Goal    == /\ r \in Seq(T) /\ b \in Seq(T)
                      /\ DOMAIN r # {} \/ DOMAIN b # {}
                      /\ \A i, j \in DOMAIN r : r[i] = r[j] => i = j
                      /\ \A i, j \in DOMAIN b : b[i] = b[j] => i = j
                      /\ \A i \in DOMAIN r, j \in DOMAIN b : r[i] # b[j]
<1>1. kind \in {"analog", "binary", "multi_state"}
  BY SimulatorAssumption DEF SimulatorAssumption, SimConfigAssumption, Unmistakable
<1>2. C("high") \in T /\ C("low") \in T /\ C("whole") \in T /\ C("bit") \in T
  BY DEF CellsOf
<1>3. C("high") # C("low")
  <2>1. C("high").enc = "high" /\ C("low").enc = "low"
    BY DEF Cell
  <2> HIDE DEF C
  <2> QED
    BY <2>1
<1>4. /\ kind = "analog" => r = <<C("high"), C("low")>>
      /\ kind = "multi_state" => r = <<C("whole")>>
      /\ kind = "binary" => r = <<>>
  BY DEF RegistersOf
<1>5. /\ kind = "binary" => b = <<C("bit")>>
      /\ kind # "binary" => b = <<>>
  BY DEF BitsOf
<1> HIDE DEF C, T, r, b, kind
<1>6. ASSUME kind = "analog"
      PROVE  Goal
  <2>1. r = <<C("high"), C("low")>> /\ b = <<>>
    BY <1>4, <1>5, <1>6
  <2> QED
    BY <1>2, <1>3, <2>1
<1>7. ASSUME kind = "multi_state"
      PROVE  Goal
  <2>1. r = <<C("whole")>> /\ b = <<>>
    BY <1>4, <1>5, <1>7
  <2> QED
    BY <1>2, <2>1
<1>8. ASSUME kind = "binary"
      PROVE  Goal
  <2>1. r = <<>> /\ b = <<C("bit")>>
    BY <1>4, <1>5, <1>8
  <2> QED
    BY <1>2, <2>1
<1>9. Goal
  BY <1>1, <1>6, <1>7, <1>8
<1> QED
  BY <1>9 DEF r, b, T

\* A cell is of one point, and looked up by its label it leads to that point.
LEMMA CellLeadsHome ==
    ASSUME NEW devices, Unmistakable(devices), NEW p \in SimulatedPoints(devices),
           NEW x \in CellsOf(devices, p)
    PROVE  /\ Lookup(devices, x.device_id, x.object_type, x.instance) = p
           /\ \A q \in SimulatedPoints(devices) : x \in CellsOf(devices, q) => p = q
<1>1. ASSUME NEW q, x \in CellsOf(devices, q)
      PROVE  /\ x.device_id = devices[q[1]].device_id
             /\ x.object_type = PointAt(devices, q).object_type
             /\ x.instance = PointAt(devices, q).instance
  <2>1. PICK enc : x = Cell(devices[q[1]], PointAt(devices, q), enc)
    BY <1>1 DEF CellsOf
  <2> QED
    BY <2>1 DEF Cell
<1>2. Lookup(devices, x.device_id, x.object_type, x.instance) = p
  <2>1. /\ x.device_id = devices[p[1]].device_id
        /\ x.object_type = PointAt(devices, p).object_type
        /\ x.instance = PointAt(devices, p).instance
    BY <1>1
  <2> QED
    BY <2>1, LookupLeadsHome
<1>3. ASSUME NEW q \in SimulatedPoints(devices), x \in CellsOf(devices, q)
      PROVE  p = q
  <2>1. x.object_type = PointAt(devices, p).object_type /\ x.instance = PointAt(devices, p).instance
    BY <1>1
  <2>2. x.object_type = PointAt(devices, q).object_type /\ x.instance = PointAt(devices, q).instance
    BY <1>1, <1>3
  <2> QED
    BY <2>1, <2>2 DEF Unmistakable
<1> QED
  BY <1>2, <1>3

\* Where the cells fit, a request can name them all.
LEMMA AllAddressed ==
    ASSUME NEW S, NEW cells \in Seq(S), Len(cells) <= RegisterSpace
    PROVE  Addressable(cells) = cells
<1>1. RegisterSpace \in Nat
  BY SimulatorAssumption DEF SimulatorAssumption, SimConfigAssumption
<1>2. DOMAIN cells = 1..Len(cells) /\ Len(cells) \in Nat
  OBVIOUS
<1>3. DOMAIN cells \cap (1..RegisterSpace) = DOMAIN cells
  BY <1>1, <1>2
<1>4. cells = [i \in DOMAIN cells |-> cells[i]]
  OBVIOUS
<1> QED
  BY <1>3, <1>4 DEF Addressable

\* Two lists of a device and point each, of which no two have an element in common.
LEMMA ImageLeadsHome ==
    ASSUME NEW devices, Unmistakable(devices), CellsFit(devices)
    PROVE  LET image == Addressable(regs(devices)) \o Addressable(bits(devices))
           IN  /\ IsInjective(image)
               /\ \A p \in SimulatedPoints(devices) : \E x \in DOMAIN image :
                     Lookup(devices, image[x].device_id, image[x].object_type, image[x].instance) = p
<1> DEFINE points == SimulatedPoints(devices)
           D  == Len(devices)
           counts == [d \in 1..D |-> CHOOSE K \in Nat : DOMAIN devices[d].points = 1..K]
           S  == UNION {CellsOf(devices, p) : p \in points}
           rl == [d \in 1..D |-> [k \in 1..counts[d] |-> RegistersOf(devices[d], devices[d].points[k])]]
           bl == [d \in 1..D |-> [k \in 1..counts[d] |-> BitsOf(devices[d], devices[d].points[k])]]
           rs == regs(devices)
           bs == bits(devices)
<1>1. /\ D \in Nat /\ DOMAIN devices = 1..D
      /\ \A d \in 1..D : counts[d] \in Nat /\ DOMAIN devices[d].points = 1..counts[d]
  <2>1. D \in Nat /\ DOMAIN devices = 1..D
    BY DEF Unmistakable, DevicesIn
  <2>2. \A d \in 1..D : \E K \in Nat : DOMAIN devices[d].points = 1..K
    BY <2>1 DEF Unmistakable
  <2> HIDE DEF D
  <2> QED
    BY <2>1, <2>2
<1>2. ASSUME NEW d \in 1..D, NEW k \in 1..counts[d]
      PROVE  /\ <<d, k>> \in points /\ devices[d].points[k] = PointAt(devices, <<d, k>>)
             /\ rl[d][k] = RegistersOf(devices[d], PointAt(devices, <<d, k>>))
             /\ bl[d][k] = BitsOf(devices[d], PointAt(devices, <<d, k>>))
  <2>1. k \in DOMAIN devices[d].points /\ d \in DOMAIN devices
    BY <1>1
  <2>2. <<d, k>> \in {d} \X DOMAIN devices[d].points
    BY <2>1
  <2>3. <<d, k>> \in points
    BY <2>1, <2>2 DEF SimulatedPoints
  <2>4. devices[d].points[k] = PointAt(devices, <<d, k>>)
    BY DEF PointAt
  <2>5. rl[d][k] = RegistersOf(devices[d], devices[d].points[k])
        /\ bl[d][k] = BitsOf(devices[d], devices[d].points[k])
    <3> HIDE DEF counts, D
    <3> QED
      OBVIOUS
  <2> HIDE DEF points, rl, bl
  <2> QED
    BY <2>3, <2>4, <2>5
<1>3. rs = FlattenSeq([d \in 1..D |-> FlattenSeq(rl[d])])
      /\ bs = FlattenSeq([d \in 1..D |-> FlattenSeq(bl[d])])
  <2>1. [d \in DOMAIN devices |-> FlattenSeq([k \in DOMAIN devices[d].points |->
                                     RegistersOf(devices[d], devices[d].points[k])])]
          = [d \in 1..D |-> FlattenSeq(rl[d])]
    <3>1. \A d \in 1..D : rl[d] = [k \in DOMAIN devices[d].points |->
                                     RegistersOf(devices[d], devices[d].points[k])]
      <4> HIDE DEF D, counts
      <4> QED
        BY <1>1
    <3> HIDE DEF rl, D
    <3> QED
      BY <1>1, <3>1
  <2>2. [d \in DOMAIN devices |-> FlattenSeq([k \in DOMAIN devices[d].points |->
                                     BitsOf(devices[d], devices[d].points[k])])]
          = [d \in 1..D |-> FlattenSeq(bl[d])]
    <3>1. \A d \in 1..D : bl[d] = [k \in DOMAIN devices[d].points |->
                                     BitsOf(devices[d], devices[d].points[k])]
      <4> HIDE DEF D, counts
      <4> QED
        BY <1>1
    <3> HIDE DEF bl, D
    <3> QED
      BY <1>1, <3>1
  <2> HIDE DEF rl, bl, D
  <2>3. rs = FlattenSeq([d \in DOMAIN devices |-> FlattenSeq([k \in DOMAIN devices[d].points |->
                                     RegistersOf(devices[d], devices[d].points[k])])])
    BY DEF regs, Image
  <2>4. bs = FlattenSeq([d \in DOMAIN devices |-> FlattenSeq([k \in DOMAIN devices[d].points |->
                                     BitsOf(devices[d], devices[d].points[k])])])
    BY DEF bits, Image
  <2> QED
    BY <2>1, <2>2, <2>3, <2>4
<1> HIDE DEF rs, bs
<1>4. ASSUME NEW d \in 1..D, NEW k \in 1..counts[d]
      PROVE  /\ rl[d][k] \in Seq(CellsOf(devices, <<d, k>>)) /\ bl[d][k] \in Seq(CellsOf(devices, <<d, k>>))
             /\ DOMAIN rl[d][k] # {} \/ DOMAIN bl[d][k] # {}
             /\ \A i, j \in DOMAIN rl[d][k] : rl[d][k][i] = rl[d][k][j] => i = j
             /\ \A i, j \in DOMAIN bl[d][k] : bl[d][k][i] = bl[d][k][j] => i = j
             /\ \A i \in DOMAIN rl[d][k], j \in DOMAIN bl[d][k] : rl[d][k][i] # bl[d][k][j]
  <2> DEFINE p == <<d, k>>
             r == RegistersOf(devices[p[1]], PointAt(devices, p))
             b == BitsOf(devices[p[1]], PointAt(devices, p))
  <2>1. p \in points
    BY <1>2
  <2>2. rl[d][k] = r /\ bl[d][k] = b
    BY <1>2
  <2> HIDE DEF p
  <2>3. /\ r \in Seq(CellsOf(devices, p)) /\ b \in Seq(CellsOf(devices, p))
        /\ DOMAIN r # {} \/ DOMAIN b # {}
        /\ \A i, j \in DOMAIN r : r[i] = r[j] => i = j
        /\ \A i, j \in DOMAIN b : b[i] = b[j] => i = j
        /\ \A i \in DOMAIN r, j \in DOMAIN b : r[i] # b[j]
    BY <2>1, PointCells
  <2> HIDE DEF r, b, rl, bl
  <2>4. /\ rl[d][k] \in Seq(CellsOf(devices, p)) /\ bl[d][k] \in Seq(CellsOf(devices, p))
        /\ DOMAIN rl[d][k] # {} \/ DOMAIN bl[d][k] # {}
        /\ \A i, j \in DOMAIN rl[d][k] : rl[d][k][i] = rl[d][k][j] => i = j
        /\ \A i, j \in DOMAIN bl[d][k] : bl[d][k][i] = bl[d][k][j] => i = j
        /\ \A i \in DOMAIN rl[d][k], j \in DOMAIN bl[d][k] : rl[d][k][i] # bl[d][k][j]
    BY <2>2, <2>3
  <2> QED
    BY <2>4 DEF p
<1> HIDE DEF rl, bl, counts, D, S, points
<1>5. ASSUME NEW d \in 1..D, NEW e \in 1..D, NEW k \in 1..counts[d], NEW l \in 1..counts[e],
             NEW x \in CellsOf(devices, <<d, k>>), x \in CellsOf(devices, <<e, l>>)
      PROVE  d = e /\ k = l
  <2>1. <<d, k>> \in points /\ <<e, l>> \in points
    BY <1>2
  <2>2. <<d, k>> = <<e, l>>
    BY <1>5, <2>1, CellLeadsHome DEF points
  <2> QED
    BY <2>2
<1>6. ASSUME NEW d \in 1..D, NEW k \in 1..counts[d]
      PROVE  /\ rl[d][k] \in Seq(S) /\ bl[d][k] \in Seq(S)
             /\ \A i \in DOMAIN rl[d][k] : rl[d][k][i] \in CellsOf(devices, <<d, k>>)
             /\ \A i \in DOMAIN bl[d][k] : bl[d][k][i] \in CellsOf(devices, <<d, k>>)
  <2> DEFINE T == CellsOf(devices, <<d, k>>)
             r == rl[d][k]
             b == bl[d][k]
  <2>1. r \in Seq(T) /\ b \in Seq(T)
    BY <1>4
  <2>2. T \subseteq S
    BY <1>2 DEF S
  <2> HIDE DEF T, r, b
  <2>3. /\ \A i \in DOMAIN r : r[i] \in T
        /\ \A i \in DOMAIN b : b[i] \in T
    BY <2>1
  <2>4. r \in Seq(S) /\ b \in Seq(S)
    BY <2>1, <2>2
  <2> QED
    BY <2>3, <2>4 DEF T, r, b
<1>7. ASSUME NEW d \in 1..D, NEW e \in 1..D, NEW k \in 1..counts[d], NEW l \in 1..counts[e]
      PROVE  /\ \A i \in DOMAIN rl[d][k], j \in DOMAIN rl[e][l] :
                   rl[d][k][i] = rl[e][l][j] => d = e /\ k = l /\ i = j
             /\ \A i \in DOMAIN bl[d][k], j \in DOMAIN bl[e][l] :
                   bl[d][k][i] = bl[e][l][j] => d = e /\ k = l /\ i = j
             /\ \A i \in DOMAIN rl[d][k], j \in DOMAIN bl[e][l] : rl[d][k][i] # bl[e][l][j]
  <2>1. ASSUME NEW i \in DOMAIN rl[d][k], NEW j \in DOMAIN rl[e][l], rl[d][k][i] = rl[e][l][j]
        PROVE  d = e /\ k = l /\ i = j
    <3>1. rl[d][k][i] \in CellsOf(devices, <<d, k>>) /\ rl[e][l][j] \in CellsOf(devices, <<e, l>>)
      BY <1>6
    <3>2. d = e /\ k = l
      BY <1>5, <2>1, <3>1
    <3> QED
      BY <1>4, <2>1, <3>2
  <2>2. ASSUME NEW i \in DOMAIN bl[d][k], NEW j \in DOMAIN bl[e][l], bl[d][k][i] = bl[e][l][j]
        PROVE  d = e /\ k = l /\ i = j
    <3>1. bl[d][k][i] \in CellsOf(devices, <<d, k>>) /\ bl[e][l][j] \in CellsOf(devices, <<e, l>>)
      BY <1>6
    <3>2. d = e /\ k = l
      BY <1>5, <2>2, <3>1
    <3> QED
      BY <1>4, <2>2, <3>2
  <2>3. ASSUME NEW i \in DOMAIN rl[d][k], NEW j \in DOMAIN bl[e][l], rl[d][k][i] = bl[e][l][j]
        PROVE  FALSE
    <3>1. rl[d][k][i] \in CellsOf(devices, <<d, k>>) /\ bl[e][l][j] \in CellsOf(devices, <<e, l>>)
      BY <1>6
    <3>2. d = e /\ k = l
      BY <1>5, <2>3, <3>1
    <3>3. j \in DOMAIN bl[d][k] /\ rl[d][k][i] = bl[d][k][j]
      BY <2>3, <3>2
    <3> QED
      BY <1>4, <3>3
  <2> QED
    BY <2>1, <2>2, <2>3
<1>8. \A d \in 1..D : /\ rl[d] \in [1..counts[d] -> Seq(S)]
                      /\ bl[d] \in [1..counts[d] -> Seq(S)]
  <2> TAKE d \in 1..D
  <2>1. rl[d] = [k \in 1..counts[d] |-> rl[d][k]] /\ bl[d] = [k \in 1..counts[d] |-> bl[d][k]]
    BY DEF rl, bl
  <2>2. \A k \in 1..counts[d] : rl[d][k] \in Seq(S) /\ bl[d][k] \in Seq(S)
    BY <1>6
  <2> QED
    BY <2>1, <2>2
<1>9. /\ rs \in Seq(S) /\ IsInjective(rs)
      /\ \A x \in DOMAIN rs : \E d \in 1..D : \E k \in 1..counts[d] :
            \E i \in DOMAIN rl[d][k] : rs[x] = rl[d][k][i]
      /\ \A d \in 1..D : \A k \in 1..counts[d] : \A i \in DOMAIN rl[d][k] :
            \E x \in DOMAIN rs : rs[x] = rl[d][k][i]
  <2>1. D \in Nat /\ \A d \in 1..D : counts[d] \in Nat
    BY <1>1
  <2>2. \A d \in 1..D : rl[d] \in [1..counts[d] -> Seq(S)]
    BY <1>8
  <2>3. \A d, e \in 1..D : \A k \in 1..counts[d], l \in 1..counts[e] :
           \A i \in DOMAIN rl[d][k], j \in DOMAIN rl[e][l] :
              rl[d][k][i] = rl[e][l][j] => d = e /\ k = l /\ i = j
    BY <1>7
  <2>4. ListsApart(rl, counts, D, S)
    BY <2>1, <2>2, <2>3 DEF ListsApart
  <2>5. OfLists(rs, rl, counts, D, S)
    BY <1>3, <2>4, ListsOnce
  <2> QED
    BY <2>5 DEF OfLists
<1>10. /\ bs \in Seq(S) /\ IsInjective(bs)
       /\ \A x \in DOMAIN bs : \E d \in 1..D : \E k \in 1..counts[d] :
             \E i \in DOMAIN bl[d][k] : bs[x] = bl[d][k][i]
       /\ \A d \in 1..D : \A k \in 1..counts[d] : \A i \in DOMAIN bl[d][k] :
             \E x \in DOMAIN bs : bs[x] = bl[d][k][i]
  <2>1. D \in Nat /\ \A d \in 1..D : counts[d] \in Nat
    BY <1>1
  <2>2. \A d \in 1..D : bl[d] \in [1..counts[d] -> Seq(S)]
    BY <1>8
  <2>3. \A d, e \in 1..D : \A k \in 1..counts[d], l \in 1..counts[e] :
           \A i \in DOMAIN bl[d][k], j \in DOMAIN bl[e][l] :
              bl[d][k][i] = bl[e][l][j] => d = e /\ k = l /\ i = j
    BY <1>7
  <2>4. ListsApart(bl, counts, D, S)
    BY <2>1, <2>2, <2>3 DEF ListsApart
  <2>5. OfLists(bs, bl, counts, D, S)
    BY <1>3, <2>4, ListsOnce
  <2> QED
    BY <2>5 DEF OfLists
<1>11. ASSUME NEW x \in DOMAIN rs, NEW y \in DOMAIN bs
       PROVE  rs[x] # bs[y]
  <2>1. PICK d \in 1..D : \E k \in 1..counts[d] : \E i \in DOMAIN rl[d][k] : rs[x] = rl[d][k][i]
    BY <1>9
  <2>2. PICK k \in 1..counts[d] : \E i \in DOMAIN rl[d][k] : rs[x] = rl[d][k][i]
    BY <2>1
  <2>3. PICK i \in DOMAIN rl[d][k] : rs[x] = rl[d][k][i]
    BY <2>2
  <2>4. PICK e \in 1..D : \E l \in 1..counts[e] : \E j \in DOMAIN bl[e][l] : bs[y] = bl[e][l][j]
    BY <1>10
  <2>5. PICK l \in 1..counts[e] : \E j \in DOMAIN bl[e][l] : bs[y] = bl[e][l][j]
    BY <2>4
  <2>6. PICK j \in DOMAIN bl[e][l] : bs[y] = bl[e][l][j]
    BY <2>5
  <2>7. rl[d][k][i] # bl[e][l][j]
    BY <1>7
  <2> QED
    BY <2>3, <2>6, <2>7
<1> DEFINE image == rs \o bs
<1>12. /\ Len(rs) \in Nat /\ DOMAIN rs = 1..Len(rs) /\ Len(bs) \in Nat /\ DOMAIN bs = 1..Len(bs)
       /\ Len(image) = Len(rs) + Len(bs) /\ DOMAIN image = 1..Len(image)
       /\ \A x \in DOMAIN rs : x \in DOMAIN image /\ image[x] = rs[x]
       /\ \A x \in DOMAIN bs : Len(rs) + x \in DOMAIN image /\ image[Len(rs) + x] = bs[x]
       /\ \A x \in DOMAIN image : x \in DOMAIN rs \/ x - Len(rs) \in DOMAIN bs
  BY <1>9, <1>10
<1> HIDE DEF image
<1>13. ASSUME NEW x \in DOMAIN image, NEW y \in DOMAIN image, image[x] = image[y]
       PROVE  x = y
  <2>1. x \in Int /\ y \in Int /\ Len(rs) \in Int
    BY <1>12
  <2>2. CASE x \in DOMAIN rs /\ y \in DOMAIN rs
    BY <1>9, <1>12, <1>13, <2>2 DEF IsInjective
  <2>3. CASE x \in DOMAIN rs /\ y - Len(rs) \in DOMAIN bs
    <3>1. Len(rs) + (y - Len(rs)) = y
      BY <2>1
    <3>2. image[y] = bs[y - Len(rs)]
      BY <1>12, <2>3, <3>1
    <3> QED
      BY <1>11, <1>12, <1>13, <2>3, <3>2
  <2>4. CASE x - Len(rs) \in DOMAIN bs /\ y \in DOMAIN rs
    <3>1. Len(rs) + (x - Len(rs)) = x
      BY <2>1
    <3>2. image[x] = bs[x - Len(rs)]
      BY <1>12, <2>4, <3>1
    <3> QED
      BY <1>11, <1>12, <1>13, <2>4, <3>2
  <2>5. CASE x - Len(rs) \in DOMAIN bs /\ y - Len(rs) \in DOMAIN bs
    <3>1. Len(rs) + (x - Len(rs)) = x /\ Len(rs) + (y - Len(rs)) = y
      BY <2>1
    <3>2. image[x] = bs[x - Len(rs)] /\ image[y] = bs[y - Len(rs)]
      BY <1>12, <2>5, <3>1
    <3>3. x - Len(rs) = y - Len(rs)
      BY <1>10, <1>13, <2>5, <3>2 DEF IsInjective
    <3> QED
      BY <2>1, <3>3
  <2> QED
    BY <1>12, <2>2, <2>3, <2>4, <2>5
<1>14. ASSUME NEW p \in points
       PROVE  \E x \in DOMAIN image :
                 Lookup(devices, image[x].device_id, image[x].object_type, image[x].instance) = p
  <2>1. p = <<p[1], p[2]>> /\ p[1] \in 1..D /\ p[2] \in 1..counts[p[1]]
    <3>1. p = <<p[1], p[2]>> /\ p[1] \in DOMAIN devices /\ p[2] \in DOMAIN devices[p[1]].points
      BY DEF Unmistakable, points
    <3> QED
      BY <1>1, <3>1
  <2> DEFINE d == p[1]
             k == p[2]
  <2>2. d \in 1..D /\ k \in 1..counts[d] /\ p = <<d, k>>
    BY <2>1
  <2> HIDE DEF d, k
  <2>3. \A c \in CellsOf(devices, p) :
           Lookup(devices, c.device_id, c.object_type, c.instance) = p
    BY CellLeadsHome DEF points
  <2>4. \E x \in DOMAIN image : image[x] \in CellsOf(devices, p)
    <3>1. CASE DOMAIN rl[d][k] # {}
      <4>1. PICK i \in DOMAIN rl[d][k] : TRUE
        BY <3>1
      <4>2. PICK x \in DOMAIN rs : rs[x] = rl[d][k][i]
        BY <1>9, <2>2
      <4>3. rl[d][k][i] \in CellsOf(devices, p)
        BY <1>6, <2>2
      <4> QED
        BY <1>12, <4>2, <4>3
    <3>2. CASE DOMAIN bl[d][k] # {}
      <4>1. PICK i \in DOMAIN bl[d][k] : TRUE
        BY <3>2
      <4>2. PICK x \in DOMAIN bs : bs[x] = bl[d][k][i]
        BY <1>10, <2>2
      <4>3. bl[d][k][i] \in CellsOf(devices, p)
        BY <1>6, <2>2
      <4> QED
        BY <1>12, <4>2, <4>3
    <3> QED
      BY <1>4, <2>2, <3>1, <3>2
  <2> QED
    BY <2>3, <2>4
<1>15. Addressable(regs(devices)) = rs /\ Addressable(bits(devices)) = bs
  <2>1. regs(devices) = rs /\ bits(devices) = bs
    BY DEF rs, bs
  <2>2. Len(rs) <= RegisterSpace /\ Len(bs) <= RegisterSpace
    BY <2>1 DEF CellsFit
  <2> QED
    BY <1>9, <1>10, <2>1, <2>2, AllAddressed
<1>16. Addressable(regs(devices)) \o Addressable(bits(devices)) = image
  BY <1>15 DEF image
<1> HIDE DEF rs, bs
<1> QED
  BY <1>13, <1>14, <1>16 DEF IsInjective, points

-----------------------------------------------------------------------------
(* The exported configuration. *)

\* The export of a point is found, and found once: it says the label, the type and
\* the instance of the point.
LEMMA ExportLeadsHome ==
    ASSUME NEW c, DevicesFine(c), Expandable(c), Plain(c),
           NEW p \in SimulatedPoints(SimulatedDevices(c))
    PROVE  LET devices == SimulatedDevices(c)
               e == ExportAt(c, devices, p)
           IN  /\ e.tag_path = PointAt(devices, p).label
               /\ Lowered[e.object_type] = PointAt(devices, p).object_type
               /\ e.object_instance = PointAt(devices, p).instance
<1> DEFINE devices == SimulatedDevices(c)
           ds      == expand(c)
           Export(q) == [device_key |-> device_key(ds, q[1]),
                         tag_path |-> PointAt(ds, q).label,
                         device_instance |-> ds[q[1]].device_id,
                         object_type |-> PointAt(ds, q).object_type,
                         object_instance |-> PointAt(ds, q).instance]
           Fits(e) == /\ e.device_instance = devices[p[1]].device_id
                      /\ Lowered[e.object_type] = PointAt(devices, p).object_type
                      /\ e.object_instance = PointAt(devices, p).instance
<1>1. IdsFit(c)
  BY DEF Plain
<1>2. PICK b, n, k : Made(c, p, b, n, k)
  BY <1>1, PointsMade
<1>3. /\ From(c, p[1], b, n) /\ k \in DOMAIN TemplateAt(c, b) /\ <<b, n, k>> \in Positions(c)
      /\ PointAt(devices, p).label = TemplateAt(c, b)[k].label
      /\ PointAt(devices, p).object_type = Lowered[SpelledAt(c, <<b, n, k>>)]
      /\ PointAt(devices, p).instance = instance_counter(c, <<b, n, k>>)
  BY <1>2 DEF Made
<1>4. p[1] \in DOMAIN ds /\ DOMAIN devices = DOMAIN ds /\ DevicesIn(devices)
      /\ \A d \in DOMAIN ds : devices[d].device_id = ds[d].device_id
  <2>1. p[1] \in DOMAIN devices
    BY <1>1, PointsMade
  <2>2. DevicesIn(devices) /\ DOMAIN devices = DOMAIN ds
        /\ \A d \in DOMAIN devices : devices[d].device_id = ds[d].device_id
    BY <1>1, SimulatedShape
  <2> HIDE DEF devices, ds
  <2> QED
    BY <2>1, <2>2
<1>5. /\ DOMAIN ds[p[1]].points = DOMAIN TemplateAt(c, b)
      /\ \A l \in DOMAIN TemplateAt(c, b) :
            /\ <<b, n, l>> \in Positions(c)
            /\ ds[p[1]].points[l].label = TemplateAt(c, b)[l].label
            /\ ds[p[1]].points[l].object_type = SpelledAt(c, <<b, n, l>>)
            /\ ds[p[1]].points[l].instance = instance_counter(c, <<b, n, l>>)
  BY <1>3, <1>4, PointsFrom
<1>6. ExportedPoints(c) = {Export(q) : q \in SimulatedPoints(ds)}
  BY DEF ExportedPoints
<1>7. ASSUME NEW q
      PROVE  /\ Export(q).tag_path = ds[q[1]].points[q[2]].label
             /\ Export(q).device_instance = ds[q[1]].device_id
             /\ Export(q).object_type = ds[q[1]].points[q[2]].object_type
             /\ Export(q).object_instance = ds[q[1]].points[q[2]].instance
  BY DEF PointAt
<1> HIDE DEF devices, ds, Export
<1>8. \E e \in ExportedPoints(c) : Fits(e)
  <2> DEFINE q == <<p[1], k>>
  <2>1. q \in SimulatedPoints(ds)
    <3>1. q \in {p[1]} \X DOMAIN ds[p[1]].points
      BY <1>3, <1>5
    <3> HIDE DEF q
    <3> QED
      BY <1>4, <3>1 DEF SimulatedPoints
  <2>2. /\ Export(q).device_instance = ds[p[1]].device_id
        /\ Export(q).object_type = ds[p[1]].points[k].object_type
        /\ Export(q).object_instance = ds[p[1]].points[k].instance
    BY <1>7
  <2> HIDE DEF q
  <2>3. Fits(Export(q))
    BY <1>3, <1>4, <1>5, <2>2
  <2> HIDE DEF Fits
  <2> QED
    BY <1>6, <2>1, <2>3
<1>9. ASSUME NEW e \in ExportedPoints(c), Fits(e)
      PROVE  e.tag_path = PointAt(devices, p).label
  <2>1. PICK q \in SimulatedPoints(ds) : e = Export(q)
    BY <1>6
  <2>2. /\ e.tag_path = ds[q[1]].points[q[2]].label
        /\ e.device_instance = ds[q[1]].device_id
        /\ e.object_type = ds[q[1]].points[q[2]].object_type
        /\ e.object_instance = ds[q[1]].points[q[2]].instance
    BY <1>7, <2>1
  <2>3. q[1] \in DOMAIN ds /\ q[2] \in DOMAIN ds[q[1]].points
    BY DEF SimulatedPoints
  <2>4. q[1] = p[1]
    BY <1>4, <1>9, <2>2, <2>3 DEF DevicesIn
  <2> DEFINE l == q[2]
  <2>5. l \in DOMAIN TemplateAt(c, b)
    BY <1>5, <2>3, <2>4
  <2>6. /\ e.tag_path = TemplateAt(c, b)[l].label
        /\ e.object_type = SpelledAt(c, <<b, n, l>>)
        /\ e.object_instance = instance_counter(c, <<b, n, l>>)
        /\ <<b, n, l>> \in Positions(c)
    BY <1>5, <2>2, <2>4, <2>5
  <2> HIDE DEF l
  <2>7. Lowered[SpelledAt(c, <<b, n, l>>)] = Lowered[SpelledAt(c, <<b, n, k>>)]
        /\ instance_counter(c, <<b, n, l>>) = instance_counter(c, <<b, n, k>>)
    BY <1>3, <1>9, <2>6
  <2>8. SpelledAt(c, <<b, n, l>>) = SpelledAt(c, <<b, n, k>>)
    BY <1>3, <2>6, <2>7 DEF Plain
  <2>9. <<b, n, l>> = <<b, n, k>>
    BY <1>1, <1>3, <2>6, <2>7, <2>8, CountersApart
  <2>10. l = k
    BY <2>9
  <2> QED
    BY <1>3, <2>6, <2>10
<1>10. ExportAt(c, devices, p) = CHOOSE e \in ExportedPoints(c) : Fits(e)
  BY DEF ExportAt
<1>11. ExportAt(c, devices, p) \in ExportedPoints(c) /\ Fits(ExportAt(c, devices, p))
  <2> HIDE DEF Fits
  <2> QED
    BY <1>8, <1>10
<1> QED
  BY <1>9, <1>11 DEF devices

-----------------------------------------------------------------------------
(* All addresses of a plain configuration. *)

\* What holds of the addresses of a plain configuration, part by part.
LEMMA PlainLeadsHome ==
    ASSUME NEW c \in Layouts, Expandable(c), Plain(c)
    PROVE  AddressesLeadHome(c)
<1> DEFINE devices == SimulatedDevices(c)
           points  == SimulatedPoints(devices)
           image   == Addressable(regs(devices)) \o Addressable(bits(devices))
           ds      == expand(c)
<1>1. DevicesFine(c) /\ IdsFit(c) /\ CellsFit(devices)
  BY SimulatorAssumption DEF SimulatorAssumption, Plain
<1>2. Unmistakable(devices)
  BY <1>1, PlainIsUnmistakable
<1>3. ASSUME NEW p \in points
      PROVE  LET e == ExportAt(c, devices, p)
             IN  /\ resolve_property_read(devices, Lowered[e.object_type], e.object_instance) = p
                 /\ e.tag_path = PointAt(devices, p).label
                 /\ <<Lowered[e.object_type], e.object_instance>>
                        \in Range(object_list(devices[p[1]]))
  <2> DEFINE e == ExportAt(c, devices, p)
             point == PointAt(devices, p)
  <2>1. /\ e.tag_path = point.label
        /\ Lowered[e.object_type] = point.object_type
        /\ e.object_instance = point.instance
    BY <1>1, ExportLeadsHome
  <2>2. resolve_property_read(devices, point.object_type, point.instance) = p
    BY <1>2, LookupLeadsHome
  <2>3. <<point.object_type, point.instance>> \in Range(object_list(devices[p[1]]))
    BY <1>2, ObjectListed
  <2> HIDE DEF e, point, devices
  <2>4. /\ resolve_property_read(devices, Lowered[e.object_type], e.object_instance) = p
        /\ <<Lowered[e.object_type], e.object_instance>> \in Range(object_list(devices[p[1]]))
    BY <2>1, <2>2, <2>3
  <2> QED
    BY <2>1, <2>4 DEF e, point
<1>4. ASSUME NEW p \in points, NEW q \in points, node_id(devices, p) = node_id(devices, q)
      PROVE  p = q
  <2>1. PointAt(devices, p).object_type = PointAt(devices, q).object_type
        /\ PointAt(devices, p).instance = PointAt(devices, q).instance
    BY <1>4 DEF node_id
  <2> QED
    BY <1>2, <2>1 DEF Unmistakable
<1>5. ASSUME NEW p \in points, NEW q \in points,
             device_key(devices, p[1]) = device_key(devices, q[1])
      PROVE  p[1] = q[1]
  <2>1. /\ DOMAIN devices = DOMAIN ds
        /\ \A d \in DOMAIN devices : devices[d].name = ds[d].name
    BY <1>1, SimulatedShape
  <2>2. p[1] \in DOMAIN devices /\ q[1] \in DOMAIN devices
    BY <1>2 DEF Unmistakable
  <2> HIDE DEF devices, ds
  <2>3. ASSUME NEW d \in DOMAIN devices
        PROVE  device_key(devices, d) = device_key(ds, d)
    <3>1. \A e \in DOMAIN devices : base_key(devices[e].name) = base_key(ds[e].name)
      BY <2>1
    <3> QED
      BY <2>1, <3>1 DEF device_key
  <2>4. device_key(ds, p[1]) = device_key(ds, q[1]) /\ p[1] \in DOMAIN ds /\ q[1] \in DOMAIN ds
    BY <1>5, <2>1, <2>2, <2>3
  <2> QED
    BY <2>4, KeysApart DEF ds
<1>6. /\ IsInjective(image)
      /\ \A p \in points : \E x \in DOMAIN image :
            Lookup(devices, image[x].device_id, image[x].object_type, image[x].instance) = p
  BY <1>1, <1>2, ImageLeadsHome
<1> QED
  BY <1>3, <1>4, <1>5, <1>6, Zenon DEF AddressesLeadHome

\* The generated addresses of a plain configuration lead back to its points, whatever
\* its templates and its blocks of devices are: counting in expand, sorting in the
\* object list, what emit_republisher_config writes and what the servers look up agree.
THEOREM AddressesAlways == Spec => []SimAddressesLeadHome
<1> DEFINE Inv == part = "addresses" => config \in Layouts /\ Expandable(config)
<1>1. Init => Inv
  BY DEF Init, AddressesInit, RunInit, ScreenInit
<1>2. Inv /\ [Next]_<<part, vars, tui>> => Inv'
  <2> SUFFICES ASSUME Inv, [Next]_<<part, vars, tui>>, part' = "addresses"
               PROVE  config' \in Layouts /\ Expandable(config')
    OBVIOUS
  <2>1. part = "addresses" /\ UNCHANGED vars
    BY DEF Next
  <2>2. config' = config
    BY <2>1 DEF vars, engine
  <2> QED
    BY <2>1, <2>2
<1>3. Inv => SimAddressesLeadHome
  BY PlainLeadsHome DEF SimAddressesLeadHome
<1> QED
  BY <1>1, <1>2, <1>3, PTL DEF Spec
=============================================================================
