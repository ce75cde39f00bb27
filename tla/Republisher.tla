----------------------------- MODULE Republisher -----------------------------
(***************************************************************************)
(* The continuous poll -> publish worker of republish-core                 *)
(* (src/crates/republish-core/src/worker/mod.rs and worker/backoff.rs):    *)
(* one thread that owns all of the state below, except the stop flag it    *)
(* shares with its owner.  A call to a protocol adapter is an await: it    *)
(* starts in one step and returns in a later one, after 0..MaxAwait units  *)
(* of time.  An enqueue to MQTT never waits, so it is part of the step     *)
(* that makes it.                                                          *)
(*                                                                         *)
(* Configured points are members of Points.  Two of them may have the same *)
(* addressing, hence the same PointIdentity: status and poll history are   *)
(* kept per identity (Ids).  The BACnet device instance is part of the     *)
(* addressing, so it is a function of the identity; points of the other    *)
(* protocols have NoDevice.                                                *)
(***************************************************************************)
EXTENDS Integers, AdapterAnswers

CONSTANTS
    Points,            \* configured or discoverable points
    Ids,               \* point identities
    Devices,           \* BACnet device instances
    NoDevice,          \* device_instance() = None
    IdOf,              \* [Points -> Ids]: PointIdentity::from_point
    InstanceOf,        \* [Ids -> Devices \cup {NoDevice}]: device_instance
    PollInterval,      \* [Points -> Nat]: poll_interval_secs
    Enabled,           \* the points with enabled = true
    DiscoverOnStart,   \* config.discover_on_start
    DiscoverySupported,\* supports_discovery(capabilities)
    BackoffInitial,    \* DEVICE_BACKOFF_INITIAL
    BackoffMax,        \* device_backoff_max(conn), never below the initial
    Reresolve,         \* DEVICE_RERESOLVE_INTERVAL
    Keepalive,         \* DEVICE_TABLE_KEEPALIVE_INTERVAL
    HealthInterval,    \* HEALTH_INTERVAL
    StopTimeout,       \* CLIENT_STOP_TIMEOUT
    MaxAwait,          \* bound: longest adapter call that returns
    MaxClock           \* bound: no time passes beyond it until a stop request

ASSUME ConstantsAssumption ==
    /\ NoDevice \notin Devices
    /\ IdOf \in [Points -> Ids]
    /\ InstanceOf \in [Ids -> Devices \cup {NoDevice}]
    /\ PollInterval \in [Points -> Nat]
    /\ Enabled \subseteq Points
    /\ DiscoverOnStart \in BOOLEAN
    /\ DiscoverySupported \in BOOLEAN
    /\ BackoffInitial \in Nat \ {0}
    /\ BackoffMax \in Nat
    /\ BackoffInitial <= BackoffMax
    /\ Reresolve \in Nat \ {0}
    /\ Keepalive \in Nat \ {0}
    /\ HealthInterval \in Nat
    /\ StopTimeout \in Nat
    /\ MaxAwait \in Nat
    /\ MaxClock \in Nat

VARIABLES
    pc,              \* where the worker is
    lifecycle,       \* the last WorkerEvent::Lifecycle it sent
    stop,            \* the AtomicBool shared with the owner
    clock,           \* Instant::now()
    points,          \* the point list this worker was given or discovered
    now,             \* `now` of the current iteration
    unresolved,      \* unresolved_devices
    backoff,         \* device_backoffs
    lastPoll,        \* last_poll
    status,          \* point_status, reduced to the stale flag
    lastResolve,     \* last_resolve_attempt
    lastFull,        \* last_full_refresh
    lastHealth,      \* last_health
    failedReads,     \* cycle_failed_reads > 0
    failedPublishes, \* cycle_failed_publishes > 0
    due,             \* the points of the poll in flight
    health           \* status field of the last health message enqueued

link    == <<lifecycle, stop, points>>
timers  == <<lastResolve, lastFull, lastHealth>>
cycle   == <<failedReads, failedPublishes, health>>
devices == <<unresolved, backoff>>
history == <<lastPoll, status>>

vars == <<pc, link, clock, now, devices, history, timers, cycle, due>>

Never     == -1                          \* no entry in last_poll
NoBackoff == [delay |-> 0, until |-> 0]  \* no entry in device_backoffs

PCs == {"spawned", "starting", "discovering", "linking", "refreshing", "top",
        "keepalive", "reresolving", "due", "polling", "health", "sleeping",
        "stopping", "done"}

\* The states in which a call to the protocol adapter is outstanding.
AdapterCalls == {"discovering", "refreshing", "keepalive", "reresolving", "polling"}

-----------------------------------------------------------------------------
(* Pure parts of the worker. *)

DeviceOf(p) == InstanceOf[IdOf[p]]

Active(ps) == ps \cap Enabled

DevicesOf(ps) == {DeviceOf(p) : p \in ps} \ {NoDevice}

IdsOf(ps) == {IdOf[p] : p \in ps}

\* unique_device_instances: the devices of the enabled points.
unique_device_instances(ps) == DevicesOf(Active(ps))

\* device_blocked: unresolved, or inside a backoff window at the (possibly
\* old) instant `at`.
device_blocked(p, at) ==
    /\ DeviceOf(p) # NoDevice
    /\ \/ DeviceOf(p) \in unresolved
       \/ at < backoff[DeviceOf(p)].until

\* due_points: enabled, not blocked, and past its interval.
due_points(at) ==
    {p \in Active(points) :
        /\ ~device_blocked(p, at)
        /\ \/ lastPoll[IdOf[p]] = Never
           \/ at - lastPoll[IdOf[p]] >= PollInterval[p]}

Lesser(a, b) == IF a <= b THEN a ELSE b

\* Mutant of NextDelay: doubles without the cap.
NextDelayUncapped(b) == IF b = NoBackoff THEN BackoffInitial ELSE 2 * b.delay

\* The delay of a device that failed again, or for the first time.
NextDelay(b) ==
    IF b = NoBackoff THEN Lesser(BackoffInitial, BackoffMax)
                     ELSE Lesser(2 * b.delay, BackoffMax)

\* Mutant of update_device_backoffs: a polled device without a sample counts as
\* failed even when no failure was reported for it.
BackoffWithoutFailure(bs, samples, failures, at) ==
    [d \in Devices |->
        IF d \in DevicesOf(samples) THEN NoBackoff
        ELSE IF d \in DevicesOf(due)
             THEN [delay |-> NextDelay(bs[d]), until |-> at + NextDelay(bs[d])]
             ELSE bs[d]]

\* update_device_backoffs: a device with a sample is healthy; one with
\* failures only backs off from `at`; one the outcome does not mention stays.
update_device_backoffs(bs, samples, failures, at) ==
    [d \in Devices |->
        IF d \in DevicesOf(samples) THEN NoBackoff
        ELSE IF d \in DevicesOf(failures)
             THEN [delay |-> NextDelay(bs[d]), until |-> at + NextDelay(bs[d])]
             ELSE bs[d]]

\* Mutant of record_unresolved_failures: leaves a status that already exists.
MarkOnlyNewStatuses(st, ds) ==
    [i \in Ids |->
        IF /\ st[i] = "none"
           /\ i \in IdsOf({p \in Active(points) : DeviceOf(p) \in ds})
        THEN "stale" ELSE st[i]]

\* record_unresolved_failures: every enabled point of these devices goes stale.
record_unresolved_failures(st, ds) ==
    [i \in Ids |->
        IF i \in IdsOf({p \in Active(points) : DeviceOf(p) \in ds})
        THEN "stale" ELSE st[i]]

\* The read failures of a poll are recorded first, its samples after them.
record_outcome(st, samples, failures) ==
    [i \in Ids |->
        IF i \in IdsOf(samples) THEN "fresh"
        ELSE IF i \in IdsOf(failures) THEN "stale" ELSE st[i]]

\* Mutant of HealthStatus: looks at the counters of the interval only.
HealthFromCounters == IF ~failedReads /\ ~failedPublishes THEN "ok" ELSE "degraded"

\* HealthSnapshot::status over the counters and the stale points.
HealthStatus ==
    IF ~failedReads /\ ~failedPublishes /\ \A i \in Ids : status[i] # "stale"
    THEN "ok" ELSE "degraded"

-----------------------------------------------------------------------------
Init ==
    /\ pc = "spawned"
    /\ lifecycle = "None"
    /\ stop = FALSE
    /\ clock = 0
    /\ points \in SUBSET Points
    /\ now = 0
    /\ unresolved = {}
    /\ backoff = [d \in Devices |-> NoBackoff]
    /\ lastPoll = [i \in Ids |-> Never]
    /\ status = [i \in Ids |-> "none"]
    /\ lastResolve = 0
    /\ lastFull = 0
    /\ lastHealth = 0
    /\ failedReads = FALSE
    /\ failedPublishes = FALSE
    /\ due = {}
    /\ health = "none"

GoTo(from, to) == pc = from /\ pc' = to

\* Time that passes in an await or a sleep.
Elapse(dt) ==
    /\ stop \/ clock + dt <= MaxClock
    /\ clock' = clock + dt

\* The owner's stop_flag.store(true).
RequestStop ==
    /\ ~stop
    /\ stop' = TRUE
    /\ UNCHANGED <<pc, lifecycle, points, clock, now, devices, history, timers, cycle, due>>

Fails(from) ==
    /\ GoTo(from, "done")
    /\ lifecycle' = "Failed"
    /\ UNCHANGED <<stop, points, clock, now, devices, history, timers, cycle, due>>

-----------------------------------------------------------------------------
(* spawn_republisher *)

\* build_worker_runtime fails: Failed is the only lifecycle event.
RuntimeFails == Fails("spawned")

EmitStarting ==
    /\ GoTo("spawned", "starting")
    /\ lifecycle' = "Starting"
    /\ UNCHANGED <<stop, points, clock, now, devices, history, timers, cycle, due>>

UsePoints ==
    /\ Active(points) # {}
    /\ GoTo("starting", "linking")
    /\ UNCHANGED <<link, clock, now, devices, history, timers, cycle, due>>

StartDiscovery ==
    /\ Active(points) = {}
    /\ DiscoverOnStart /\ DiscoverySupported
    /\ GoTo("starting", "discovering")
    /\ UNCHANGED <<link, clock, now, devices, history, timers, cycle, due>>

NothingToPublish ==
    /\ Active(points) = {}
    /\ ~(DiscoverOnStart /\ DiscoverySupported)
    /\ Fails("starting")

\* discover_points returns enabled points, one per identity; none is a failure.
DiscoveryReturns(dt) ==
    /\ pc = "discovering"
    /\ Elapse(dt)
    /\ \E found \in SUBSET Enabled :
         /\ \A p, q \in found : IdOf[p] = IdOf[q] => p = q
         /\ points' = found
         /\ IF found = {} THEN pc' = "done" /\ lifecycle' = "Failed"
                          ELSE pc' = "linking" /\ UNCHANGED lifecycle
    /\ UNCHANGED <<stop, now, devices, history, timers, cycle, due>>

DiscoveryFails(dt) ==
    /\ GoTo("discovering", "done")
    /\ Elapse(dt)
    /\ lifecycle' = "Failed"
    /\ UNCHANGED <<stop, points, now, devices, history, timers, cycle, due>>

\* RumqttPublisher::new returned an error (certificates, keep-alive range).
LinkFails == Fails("linking")

\* run_republisher begins: Running, and a first refresh of the device table.
EnterLoop ==
    /\ GoTo("linking", "refreshing")
    /\ lifecycle' = "Running"
    /\ UNCHANGED <<stop, points, clock, now, devices, history, timers, cycle, due>>

\* The first refresh: `missing` stays empty when the call returned an error.
\* last_health starts one interval back, or now if Instant cannot go there.
FirstRefreshReturns(dt, missing) ==
    /\ GoTo("refreshing", "top")
    /\ Elapse(dt)
    /\ unresolved' = missing
    /\ status' = record_unresolved_failures(status, missing)
    /\ lastResolve' = clock'
    /\ lastFull' = clock'
    /\ lastHealth' \in {clock' - HealthInterval, clock'}
    /\ UNCHANGED <<link, now, backoff, lastPoll, cycle, due>>

-----------------------------------------------------------------------------
(* The loop of run_republisher *)

KeepaliveDue == clock - lastFull >= Keepalive

\* Mutant of ReresolveDue: the interval must be exceeded.
ReresolveLate == unresolved # {} /\ clock - lastResolve > Reresolve

ReresolveDue == unresolved # {} /\ clock - lastResolve >= Reresolve

\* while !stop: nothing to refresh in this iteration.
BeginCycle ==
    /\ ~stop /\ ~KeepaliveDue /\ ~ReresolveDue
    /\ GoTo("top", "due")
    /\ now' = clock
    /\ UNCHANGED <<link, clock, devices, history, timers, cycle, due>>

\* A full refresh also counts as an attempt to resolve.
StartKeepalive ==
    /\ ~stop /\ KeepaliveDue
    /\ GoTo("top", "keepalive")
    /\ now' = clock
    /\ lastFull' = clock
    /\ lastResolve' = clock
    /\ UNCHANGED <<link, clock, devices, history, lastHealth, cycle, due>>

StartReresolve ==
    /\ ~stop /\ ~KeepaliveDue /\ ReresolveDue
    /\ GoTo("top", "reresolving")
    /\ now' = clock
    /\ lastResolve' = clock
    /\ UNCHANGED <<link, clock, devices, history, lastFull, lastHealth, cycle, due>>

\* The devices the outstanding refresh asked for.
Requested ==
    IF pc = "keepalive" THEN unique_device_instances(points) ELSE unresolved

\* apply_refresh_state: a device that answered leaves the unresolved set and
\* loses its backoff.
apply_refresh_state(answered, missing) ==
    /\ unresolved' = (unresolved \ answered) \cup missing
    /\ backoff' = [d \in Devices |-> IF d \in answered THEN NoBackoff ELSE backoff[d]]

\* emit_refresh_state_change: the points of a newly missing device are marked.
emit_refresh_state_change(missing) ==
    status' = record_unresolved_failures(status, missing \ unresolved)

\* A refresh that returns says of every requested device which of the two it is.
RefreshReturns(dt, missing) ==
    /\ pc \in {"keepalive", "reresolving"}
    /\ pc' = "due"
    /\ Elapse(dt)
    /\ IsRefreshAnswer(Requested, Requested \ missing, missing)
    /\ apply_refresh_state(Requested \ missing, missing)
    /\ emit_refresh_state_change(missing)
    /\ UNCHANGED <<link, now, lastPoll, timers, cycle, due>>

\* A refresh that returns an error is logged and changes nothing.
RefreshFails(dt) ==
    /\ pc \in {"keepalive", "reresolving"}
    /\ pc' = "due"
    /\ Elapse(dt)
    /\ UNCHANGED <<link, now, devices, history, timers, cycle, due>>

\* due_points is computed with the instant taken before the refresh.
StartPoll ==
    /\ GoTo("due", "polling")
    /\ due_points(now) # {}
    /\ due' = due_points(now)
    /\ UNCHANGED <<link, clock, now, devices, history, timers, cycle>>

NothingDue ==
    /\ GoTo("due", "health")
    /\ due_points(now) = {}
    /\ UNCHANGED <<link, clock, now, devices, history, timers, cycle, due>>

\* A poll that returned samples and failures, at most one of them per point;
\* the samples are published and `rejected` says whether an enqueue failed.
PollReturns(dt, samples, failures, rejected) ==
    /\ GoTo("polling", "health")
    /\ Elapse(dt)
    /\ IsPollAnswer(due, samples, failures)
    /\ rejected => samples # {}
    /\ backoff' = update_device_backoffs(backoff, samples, failures, now)
    /\ lastPoll' = [i \in Ids |-> IF i \in IdsOf(due) THEN now ELSE lastPoll[i]]
    /\ status' = record_outcome(status, samples, failures)
    /\ failedReads' = (failedReads \/ failures # {})
    /\ failedPublishes' = (failedPublishes \/ rejected)
    /\ due' = {}
    /\ UNCHANGED <<link, now, unresolved, timers, health>>

\* A poll that failed as a whole leaves no trace but a log line.
PollFails(dt) ==
    /\ GoTo("polling", "health")
    /\ Elapse(dt)
    /\ due' = {}
    /\ UNCHANGED <<link, now, devices, history, timers, cycle>>

HealthDue == clock - lastHealth >= HealthInterval

SkipHealth ==
    /\ ~HealthDue
    /\ GoTo("health", "sleeping")
    /\ UNCHANGED <<link, clock, now, devices, history, timers, cycle, due>>

\* The message may be refused by a full channel (health stays what the last
\* accepted one said); the counters restart in either case.
PublishHealth ==
    /\ HealthDue
    /\ GoTo("health", "sleeping")
    /\ health' \in {HealthStatus, health}
    /\ lastHealth' = clock
    /\ failedReads' = FALSE
    /\ failedPublishes' = FALSE
    /\ UNCHANGED <<link, clock, now, devices, history, lastResolve, lastFull, due>>

\* tokio::time::sleep(poll_tick): one unit of time.
Sleep ==
    /\ GoTo("sleeping", "top")
    /\ Elapse(1)
    /\ UNCHANGED <<link, now, devices, history, timers, cycle, due>>

\* Mutant of LeaveLoop: waits for the unresolved devices first.
LeaveWhenResolved ==
    /\ stop
    /\ unresolved = {}
    /\ GoTo("top", "stopping")
    /\ lifecycle' = "Stopping"
    /\ UNCHANGED <<stop, points, clock, now, devices, history, timers, cycle, due>>

LeaveLoop ==
    /\ stop
    /\ GoTo("top", "stopping")
    /\ lifecycle' = "Stopping"
    /\ UNCHANGED <<stop, points, clock, now, devices, history, timers, cycle, due>>

Finish ==
    /\ GoTo("stopping", "done")
    /\ Elapse(StopTimeout)
    /\ lifecycle' = "Stopped"
    /\ UNCHANGED <<stop, points, now, devices, history, timers, cycle, due>>

\* Mutant of Crash: the thread also reports a failure after it has stopped.
CrashAfterStop == \E from \in AdapterCalls \cup {"done"} : Fails(from)

\* An adapter panics inside a call: run_async catches it and the thread
\* reports Failed.
Crash == \E from \in AdapterCalls : Fails(from)

-----------------------------------------------------------------------------
Discovery == \E dt \in 0..MaxAwait : DiscoveryReturns(dt) \/ DiscoveryFails(dt)

Spawn ==
    \/ RuntimeFails \/ EmitStarting \/ UsePoints \/ StartDiscovery
    \/ NothingToPublish \/ LinkFails \/ EnterLoop

FirstRefresh ==
    \E dt \in 0..MaxAwait : \E missing \in SUBSET unique_device_instances(points) :
        FirstRefreshReturns(dt, missing)

Refresh ==
    \/ \E dt \in 0..MaxAwait : \E missing \in SUBSET Devices : RefreshReturns(dt, missing)
    \/ \E dt \in 0..MaxAwait : RefreshFails(dt)

Poll ==
    \/ \E dt \in 0..MaxAwait, samples \in SUBSET due, failures \in SUBSET due,
         rejected \in BOOLEAN : PollReturns(dt, samples, failures, rejected)
    \/ \E dt \in 0..MaxAwait : PollFails(dt)

Health == SkipHealth \/ PublishHealth

\* The steps of the loop the worker takes by itself: it computes, enqueues,
\* sleeps, or starts a call to the adapter.
OwnStep ==
    \/ BeginCycle \/ StartKeepalive \/ StartReresolve \/ StartPoll \/ NothingDue
    \/ Health \/ Sleep \/ LeaveLoop \/ Finish

\* The steps that need an outstanding call to return.
CallReturn == FirstRefresh \/ Refresh \/ Poll

Next == RequestStop \/ Spawn \/ Discovery \/ OwnStep \/ CallReturn \/ Crash

\* Only the worker's own steps are fair: what they wait for is a timer or
\* nothing.  A call to the adapter is not known to return.  Those of the BACnet
\* and Modbus adapters carry timeouts, but a poll of the OPC UA adapter awaits
\* the connection of its session without one, and without a look at the event
\* loop that would connect it (proto-opcua/src/republish/mod.rs:173).
Spec == Init /\ [][Next]_vars /\ WF_vars(OwnStep)
-----------------------------------------------------------------------------
(* Properties *)

TypeOK ==
    /\ pc \in PCs
    /\ lifecycle \in {"None", "Starting", "Running", "Stopping", "Stopped", "Failed"}
    /\ stop \in BOOLEAN
    /\ clock \in Nat
    /\ points \in SUBSET Points
    /\ now \in Nat
    /\ unresolved \in SUBSET Devices
    /\ backoff \in [Devices -> [delay : Nat, until : Nat]]
    /\ lastPoll \in [Ids -> Nat \cup {Never}]
    /\ status \in [Ids -> {"none", "stale", "fresh"}]
    /\ lastResolve \in Nat
    /\ lastFull \in Nat
    /\ lastHealth \in Int
    /\ failedReads \in BOOLEAN
    /\ failedPublishes \in BOOLEAN
    /\ due \in SUBSET Points
    /\ health \in {"none", "ok", "degraded"}

\* Whatever refreshes, polls and failures came before, every enabled point of
\* a device that is skipped as unresolved is marked stale: due_points never
\* silently stops polling a point that still looks fresh.
UnresolvedAreStale ==
    \A p \in Active(points) :
        DeviceOf(p) \in unresolved => status[IdOf[p]] = "stale"

\* The delay of a device stays between DEVICE_BACKOFF_INITIAL and the
\* configured maximum however often it fails, and no device is ever silenced
\* for longer than that maximum, seen from any moment.
BackoffBounded ==
    \A d \in Devices :
        backoff[d] # NoBackoff =>
            /\ backoff[d].delay \in BackoffInitial..BackoffMax
            /\ backoff[d].until <= clock + BackoffMax

\* A device is in backoff only while one of its enabled points is marked
\* stale: a backoff that outlived its cause would skip points nobody knows
\* to be failing.
BackoffHasCause ==
    \A d \in Devices :
        backoff[d] # NoBackoff =>
            \E p \in Active(points) : DeviceOf(p) = d /\ status[IdOf[p]] = "stale"

\* A health message can say "ok" only when no device is skipped, neither as
\* unresolved nor by a backoff, although neither is looked at by
\* HealthSnapshot::status and its counters restart at every message.
HealthOkMeansReachable ==
    HealthStatus = "ok" =>
        /\ unresolved = {}
        /\ \A d \in Devices : backoff[d] = NoBackoff

\* The longest time between two attempts to resolve, seen by the loop: the
\* interval and one slow poll, or a slow refresh, a slow poll and a tick.
RetryWithin ==
    IF Reresolve + MaxAwait >= 2 * MaxAwait + 1
    THEN Reresolve + MaxAwait ELSE 2 * MaxAwait + 1

\* While the worker runs and some device is unresolved, the last attempt to
\* resolve is never further back than RetryWithin, failed attempts and full
\* refreshes in between included.  Every call is taken to return within
\* MaxAwait: a worker held up by one that does not attempts nothing at all.
RetryNotOverdue ==
    (unresolved # {} /\ pc \notin {"stopping", "done"}) =>
        clock - lastResolve <= RetryWithin

\* The stream of lifecycle events is one the abstract specification allows.
LC == INSTANCE Lifecycle
LifecycleRefined == LC!Spec

\* A stop request reaches a running worker, which ends with Stopped, or with
\* Failed if an adapter panicked on the way.  The one thing that can keep it
\* alive is a single call to the adapter that never returns: no refresh,
\* backoff, health message or sleep does, and no number of slow calls.
StopIsHonoured ==
    (stop /\ lifecycle = "Running") ~>
        (lifecycle \in LC!Terminal \/ [](pc \in AdapterCalls))
=============================================================================
