----------------------------- MODULE Simulation -----------------------------
(***************************************************************************)
(* The simulation and its tick loop (src/crates/sim-core/src/simulation/   *)
(* and the tick loop of app/mod.rs).  The devices are shared with the      *)
(* protocol servers under one mutex; the loop advances them one by one     *)
(* while it holds it.  Numbers stand for the floating-point values; what   *)
(* a random or a trigonometric profile adds is chosen from an interval.    *)
(***************************************************************************)
EXTENDS SimConfig

CONSTANTS
    NaN,        \* the float that is not a number
    OUTSIDE,    \* outside temperature
    MaxTicks    \* bound: ticks

VARIABLES
    config,
    sim,        \* the devices: a sequence of [device_id, name, points]
    lock,       \* holder of the mutex, "free" if nobody
    ticker,     \* the tick loop: "waiting", "advancing", "dead" or "cancelled"
    next,       \* the device to advance next
    clock,      \* ticks done, also the minute of the day
    day,        \* "weekday" or "weekend"
    stamps      \* [devices -> the tick that advanced them last]

engine == <<config, sim, lock, ticker, next, clock, day, stamps>>

-----------------------------------------------------------------------------
(* SeasonalityEngine::get_occupancy *)

\* Steps of the schedule that are over.  The first two must differ: at their
\* minute the code divides zero by zero.
Over(schedule, now) ==
    {i \in 2..Len(schedule) : \A j \in 2..i : now > schedule[j].time}

get_occupancy(schedule, now) ==
    IF schedule = <<>> THEN 0
    ELSE IF now < schedule[1].time THEN schedule[1].value
    ELSE LET prev == schedule[1 + Cardinality(Over(schedule, now))]
             rest == Len(schedule) - 1 - Cardinality(Over(schedule, now))
             succ == schedule[Len(schedule) - rest + 1]
         IN  IF rest = 0 THEN prev.value
             ELSE IF succ.time = prev.time THEN NaN
             ELSE prev.value
                  + ((now - prev.time) * (succ.value - prev.value)) \div (succ.time - prev.time)

-----------------------------------------------------------------------------
(* Profiles *)

Distinct(schedule) == Len(schedule) < 2 \/ schedule[1].time # schedule[2].time

Clamp(v, lo, hi) == IF v < lo THEN lo ELSE IF v > hi THEN hi ELSE v
Plus(a, b) == IF a = NaN \/ b = NaN THEN NaN ELSE a + b
Times(a, b) == IF a = NaN \/ b = NaN THEN NaN ELSE a * b
Half(a) == IF a = NaN THEN NaN ELSE a \div 2

\* The state of an index; 1 if there are no states.
StateOf(profile, held) == IF profile.states = <<>> THEN 1 ELSE profile.states[held]

\* ProfileState::from_spec: the memory of a profile, an accumulator, a current
\* value or an index, and the seconds a state has lasted.
Memory(profile) ==
    [held |-> CASE profile.kind = "temp_control" -> profile.initial
                [] profile.kind = "random_walk" -> Clamp(profile.base, profile.min, profile.max)
                [] profile.kind = "multi_state" -> 1
                [] OTHER -> 0,
     elapsed |-> 0]

initial_value(profile) ==
    CASE profile.kind = "constant" -> profile.value
      [] profile.kind \in {"sine", "occupancy_linked"} -> profile.base
      [] profile.kind \in {"temp_control", "random_walk"} -> Memory(profile).held
      [] profile.kind = "multi_state" -> StateOf(profile, 1)
      [] profile.kind = "ramp" -> profile.start
      [] OTHER -> 0

\* SimulatedPoint::from_spec of the points of an expanded device.
WithState(device) ==
    [device EXCEPT !.points =
        [k \in DOMAIN device.points |->
            [label |-> device.points[k].label, object_type |-> device.points[k].object_type,
             instance |-> device.points[k].instance, profile |-> device.points[k].profile,
             value |-> initial_value(device.points[k].profile),
             memory |-> Memory(device.points[k].profile)]]]

\* How far noise reaches; none is drawn where it is not positive.
Spread(profile) == IF profile.noise > 0 THEN profile.noise ELSE 0

\* What chance may add to the value of a profile: gen_range(-step..step), sample_noise
\* and the like.
Chances(profile) ==
    CASE profile.kind = "random_walk" -> -profile.step..profile.step - 1
      [] profile.kind = "sine" -> -profile.amplitude..profile.amplitude
      [] profile.kind \in {"occupancy_linked", "temp_control"} /\ Spread(profile) > 0 ->
            -Spread(profile)..Spread(profile) - 1
      [] OTHER -> {0}

Panics(profile) == Chances(profile) = {}

Draws(points) ==
    LET random == {k \in DOMAIN points : Cardinality(Chances(points[k].profile)) > 1}
        steps  == UNION {Chances(points[k].profile) : k \in random}
    IN  {[k \in DOMAIN points |-> IF k \in random THEN chance[k] ELSE 0] :
            chance \in {f \in [random -> steps] :
                          \A k \in random : f[k] \in Chances(points[k].profile)}}

\* The siblings as they were before the tick began.
SiblingBefore(points, new, k, label) ==
    LET named == {i \in DOMAIN points : points[i].label = label}
    IN  IF named = {} THEN 0 ELSE points[Max(named)].value

\* The sibling seen by point k: points of the label that were advanced in this
\* tick (new) come first, then the ones of the tick before.
Sibling(points, new, k, label) ==
    LET named == {i \in DOMAIN points : points[i].label = label}
        ticked == {i \in named : i < k}
    IN  IF named = {} THEN 0
        ELSE IF ticked # {} THEN new[Max(ticked)].value ELSE points[Max(named)].value

\* ProfileState::tick of point k, dt being one second and now the ticks done: its new value and memory.
Advance(points, new, k, now, occupancy, chance) ==
    LET profile == points[k].profile
        memory  == points[k].memory
        Keep(v) == [value |-> v, memory |-> [memory EXCEPT !.held = v]]
        Show(v) == [value |-> v, memory |-> memory]
    IN  CASE profile.kind = "constant" -> Show(points[k].value)
          [] profile.kind = "sine" -> Show(profile.base + chance)
          [] profile.kind = "occupancy_linked" ->
                Show(Plus(Plus(profile.base, Times(profile.peak_delta, occupancy)), chance))
          [] profile.kind = "temp_control" ->
                LET target == Plus(profile.setpoint
                                       + profile.outside_influence * (OUTSIDE - profile.setpoint),
                                   Half(occupancy))
                IN  Keep(Plus(memory.held,
                              Plus(Times(profile.gain, Plus(target, Times(-1, memory.held))), chance)))
          [] profile.kind = "integrator" ->
                Keep(Plus(memory.held,
                          Times(profile.scale, Sibling(points, new, k, profile.rate_source))))
          [] profile.kind = "random_walk" ->
                Keep(Clamp(memory.held + chance, profile.min, profile.max))
          [] profile.kind = "binary_schedule" ->
                Show(IF occupancy # NaN /\ occupancy > profile.threshold THEN 1 ELSE 0)
          [] profile.kind = "multi_state" ->
                LET due  == memory.elapsed + 1 >= profile.change_every /\ profile.states # <<>>
                    held == IF due THEN (memory.held % Len(profile.states)) + 1 ELSE memory.held
                IN  [value |-> StateOf(profile, held),
                     memory |-> [held |-> held,
                                 elapsed |-> IF due THEN 0 ELSE memory.elapsed + 1]]
          [] profile.kind = "ramp" ->
                LET p == Max({profile.period, 1})
                IN  Show(profile.start + ((profile.end - profile.start) * (now % p)) \div p)
          [] profile.kind = "derived_constant" -> Show(Sibling(points, new, k, profile.from))

\* SimulatedDevice::tick up to the first point whose profile panics: the points
\* before it have their new values.
AdvanceAll(points, now, occupancy, chance) ==
    LET bad == {k \in DOMAIN points : Panics(points[k].profile)}
        last == IF bad = {} THEN Len(points) ELSE Min(bad) - 1
        new[k \in 1..last] == Advance(points, new, k, now, occupancy, chance[k])
    IN  [k \in DOMAIN points |->
            IF k <= last
            THEN [points[k] EXCEPT !.value = new[k].value, !.memory = new[k].memory]
            ELSE points[k]]

-----------------------------------------------------------------------------
(* The tick loop *)

EngineInit ==
    /\ sim = [d \in DOMAIN SimulatedDevices(config) |-> WithState(SimulatedDevices(config)[d])]
    /\ lock = "free" /\ ticker = "waiting" /\ next = 1
    /\ clock = 0 /\ day \in {"weekday", "weekend"}
    /\ stamps = [d \in DOMAIN sim |-> 0]

\* The interval fires and the loop gets the mutex.
TickBegins ==
    /\ ticker = "waiting" /\ lock = "free" /\ clock < MaxTicks
    /\ ticker' = "advancing" /\ lock' = "tick"
    /\ next' = 1 /\ clock' = clock + 1
    /\ UNCHANGED <<config, sim, day, stamps>>

\* The next device.  A profile that panics ends the loop; the mutex is not
\* poisoned and the other tasks go on.
TickDevice ==
    /\ ticker = "advancing" /\ next <= Len(sim)
    /\ LET points == sim[next].points
           occupancy == get_occupancy(config.days[day], clock)
           bad == {k \in DOMAIN points : Panics(points[k].profile)}
       IN  /\ \E chance \in Draws(points) :
                sim' = [sim EXCEPT ![next].points = AdvanceAll(points, clock, occupancy, chance)]
           /\ stamps' = [stamps EXCEPT ![next] = clock]
           /\ IF bad = {} THEN /\ next' = next + 1
                              /\ UNCHANGED <<ticker, lock>>
                         ELSE /\ ticker' = "dead" /\ lock' = "free"
                              /\ UNCHANGED next
    /\ UNCHANGED <<config, clock, day>>

TickEnds ==
    /\ ticker = "advancing" /\ next > Len(sim)
    /\ ticker' = "waiting" /\ lock' = "free"
    /\ UNCHANGED <<config, sim, next, clock, day, stamps>>

\* The runtime is dropped, and the loop ends where it waits.
TickCancelled ==
    /\ ticker = "waiting"
    /\ ticker' = "cancelled"
    /\ UNCHANGED <<config, sim, lock, next, clock, day, stamps>>

Tick == TickBegins \/ TickDevice \/ TickEnds

\* A step of Tick as its loop sees it; no other step of a running program is one.
TickProgress ==
    \/ ticker = "waiting" /\ lock = "free" /\ clock < MaxTicks /\ ticker' = "advancing" /\ next' = 1
    \/ ticker = "advancing" /\ next <= Len(sim) /\ next' \in {next, next + 1}
       /\ ticker' = IF next' = next THEN "dead" ELSE ticker
    \/ ticker = "advancing" /\ next > Len(sim) /\ ticker' = "waiting" /\ UNCHANGED next

-----------------------------------------------------------------------------
(* Properties *)

\* Between ticks, a random walk is in its interval, a state is one of its states, and
\* an occupancy-linked value is no further than its noise from what two values of the
\* schedule give, whatever the order of the schedule, as long as its first two steps
\* differ; and what a derived point shows is what its source, listed before it, shows.
ValuesAreInRange ==
    \A d \in DOMAIN sim : \A k \in DOMAIN sim[d].points :
        LET point == sim[d].points[k]
            source(label) == {i \in 1..k - 1 : sim[d].points[i].label = label}
            Within(v, lo, hi) == v # NaN /\ lo <= v /\ v <= hi
            values == {config.days[day][i].value : i \in DOMAIN config.days[day]} \cup {0}
            delta == point.profile.peak_delta
            spread == Spread(point.profile)
        IN  CASE point.profile.kind = "random_walk" ->
                   Within(point.value, point.profile.min, point.profile.max)
              [] point.profile.kind = "multi_state" ->
                   point.value \in Range(point.profile.states) \/ point.profile.states = <<>>
              [] point.profile.kind = "occupancy_linked" /\ Distinct(config.days[day]) ->
                   \E low, high \in values :
                      Within(point.value, point.profile.base + delta * low - spread,
                                          point.profile.base + delta * high + spread)
              [] point.profile.kind = "derived_constant" /\ lock = "free" /\ ticker # "dead" ->
                   LET named == source(point.profile.from)
                   IN  clock = 0 \/ named = {} \/ point.value = sim[d].points[Max(named)].value
              [] OTHER -> TRUE
=============================================================================
