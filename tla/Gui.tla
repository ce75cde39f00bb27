--------------------------------- MODULE Gui ---------------------------------
(***************************************************************************)
(* The republisher GUI as a whole.  Its state falls into four parts that   *)
(* meet in little: the table of points and its file, the connection and    *)
(* MQTT forms, the addressing of points, and the statuses it shows.  Each  *)
(* has messages of its own and keeps its fields while the others change,   *)
(* so a behaviour follows one of them.  What they share is named where one *)
(* part depends on it: the table stands in SettingsForm as the enabled     *)
(* points, and PointForms takes the selected protocol as its own.          *)
(***************************************************************************)
EXTENDS PointTable, SettingsForm, PointForms, StatusFeed

VARIABLE part   \* "table", "settings", "forms" or "feed"

GuiInit ==
    /\ part \in {"table", "settings", "forms", "feed"}
    /\ Init /\ SettingsInit /\ PointFormsInit /\ StatusFeedInit
    /\ part # "table" => points = (CHOOSE t \in Tables : TRUE) /\ mqttValid
    /\ part # "settings" => disk = (CHOOSE f \in FormFiles : TRUE) /\ env = ""
    /\ part # "forms" => entries = (CHOOSE f \in PointFiles : TRUE) /\ picked = "bacnet"

GuiNext ==
    /\ UNCHANGED part
    /\ \/ part = "table" /\ Next /\ UNCHANGED <<settings, pointForms, statusFeed>>
       \/ part = "settings" /\ SettingsNext /\ UNCHANGED <<vars, pointForms, statusFeed>>
       \/ part = "forms" /\ PointFormsNext /\ UNCHANGED <<vars, settings, statusFeed>>
       \/ part = "feed" /\ StatusFeedNext /\ UNCHANGED <<vars, settings, pointForms>>

gui == <<vars, settings, pointForms, statusFeed, part>>
GuiSpec == GuiInit /\ [][GuiNext]_gui

-----------------------------------------------------------------------------
(* Properties: those of the part; each is stated and explained in its module. *)

\* The forms mean what they show, when used and when kept.
GuiSettingsAreTrue == part = "settings" => SettingsAreTrue

\* With the channel drained the GUI and the worker tell the same story.
GuiFeedIsFaithful == part = "feed" => FeedIsFaithful

\* Storing a point that was loaded changes what was typed and nothing else,
\* and what is added is of the selected protocol.
GuiEditorIsTrue ==
    [][part = "forms" => (Stored => UntouchedIsKept /\ ShownIsStored) /\ AddedInKind]_gui
=============================================================================
