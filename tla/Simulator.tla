------------------------------ MODULE Simulator ------------------------------
(***************************************************************************)
(* The simulator as a whole.  Its configuration, its running servers and   *)
(* its terminal UI meet in little: the servers run what was loaded, the UI *)
(* shows it and may end the program.  A behaviour follows one of them: the *)
(* addresses of a configuration, the servers (where the end of the UI is a *)
(* step), or the screen.                                                   *)
(***************************************************************************)
EXTENDS SimServers, SimTui

CONSTANTS
    Layouts,   \* configurations whose addresses are compared
    Configs    \* configurations that are run

VARIABLES part \* "addresses", "servers" or "screen"

\* What the types of a configuration say of a profile; f32::clamp panics on an
\* interval without an inside, before anything is served.
ProfileFine(profile) ==
    /\ profile.kind \in {"constant", "sine", "occupancy_linked", "temp_control", "integrator",
                        "random_walk", "binary_schedule", "multi_state", "ramp",
                        "derived_constant"}
    /\ profile.kind = "random_walk" =>
          {profile.base, profile.step, profile.min, profile.max} \subseteq Int /\ profile.min <= profile.max
    /\ profile.kind = "multi_state" => profile.states \in Seq(Int)
    /\ profile.kind = "occupancy_linked" =>
          {profile.base, profile.peak_delta, profile.noise} \subseteq Int

Schedules == Seq([time : Nat, value : Int])

\* What they say of the devices it expands to.
DevicesFine(c) ==
    /\ c.base \in Nat /\ c.block \in Nat
    /\ c.instances \in Seq([template : STRING, prefix : Seq(STRING), count : Nat])
    /\ \A t \in DOMAIN c.templates :
          Len(c.templates[t]) \in Nat /\ DOMAIN c.templates[t] = 1..Len(c.templates[t])

\* (Numbered has a text for every device of a layout.)
ASSUME SimulatorAssumption ==
    /\ NaN \notin Int
    /\ SimConfigAssumption /\ SimTuiAssumption
    /\ \A c \in Configs :
          /\ DevicesFine(c) /\ Expandable(c)
          /\ c.days \in [weekday : Schedules, weekend : Schedules]
          /\ \A t \in DOMAIN c.templates :
                \A k \in DOMAIN c.templates[t] : ProfileFine(c.templates[t][k].profile)
    /\ \A c \in Layouts :
          /\ DevicesFine(c)
          /\ \A b \in DOMAIN c.instances : 1..c.instances[b].count \subseteq DOMAIN Numbered

AddressesInit == part = "addresses" /\ config \in {c \in Layouts : Expandable(c)}
RunInit == part = "servers" /\ config \in Configs
ScreenInit == part = "screen" /\ config = CHOOSE c \in Configs : TRUE

Init ==
    /\ AddressesInit \/ RunInit \/ ScreenInit
    /\ EngineInit /\ ServersInit /\ TuiInit
    /\ part # "servers" => day = "weekday"
    /\ part # "screen" => file = File("written")

Next ==
    \/ part = "servers" /\ ServersNext /\ UNCHANGED <<part, tui>>
    \/ part = "screen" /\ TuiNext /\ UNCHANGED <<part, vars>>

\* Nothing in a task waits but for the mutex, which is handed out in order.
Running == part = "servers"
ServersFairness ==
    /\ SF_<<ticker, next>>(Running /\ TickProgress) /\ SF_vars(Running /\ Refresh)
    /\ WF_vars(Running /\ (ReadReference \/ AnswerRead))
    /\ WF_vars(Running /\ (ReadWord \/ AnswerRegisters))

Spec == Init /\ [][Next]_<<part, vars, tui>> /\ ServersFairness

-----------------------------------------------------------------------------
(* Properties: those of the part; each is stated and explained in its module. *)

\* The generated addresses of a plain configuration lead back to its points.
SimAddressesLeadHome == part = "addresses" /\ Plain(config) => AddressesLeadHome(config)

\* Every BACnet and Modbus answer and the OPC UA cache belong to one tick; an OPC UA
\* answer does not go back in time.
SimAnswersFollowTicks == part = "servers" => AnswersFollowTicks

\* Values stay in the interval of their profile, derived ones follow their source.
SimValuesAreInRange == part = "servers" => ValuesAreInRange

\* The cache of the OPC UA server catches up with the simulation.
SimCacheCatchesUp == part = "servers" /\ CacheBehind ~> CacheCaughtUp

\* Selection, detail and the offer to restart are what the screen says they are.
SimScreenIsTrue == part = "screen" => ScreenIsTrue
=============================================================================
