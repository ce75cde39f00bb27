--------------------------- MODULE BacnetAdapter ----------------------------
(***************************************************************************)
(* The BACnet adapter of a running worker                                  *)
(* (src/crates/proto-bacnet/src/republish/mod.rs and refresh.rs): poll and *)
(* refresh_devices over one cached session.  The worker makes one call at  *)
(* a time; within a poll the devices are read concurrently.                *)
(*                                                                         *)
(* A session is a client bound to an interface.  Its device table starts   *)
(* empty and is filled by the I-Am answers to the Who-Is requests sent     *)
(* through it.  The list of interfaces belongs to the operating system and *)
(* may change between two calls.                                           *)
(***************************************************************************)
EXTENDS Integers, FiniteSets, FiniteSetsExt, AdapterAnswers

CONSTANTS
    Points,        \* positions in the list given to poll
    Enabled,       \* those with enabled = true
    Devices,       \* device instances, natural numbers
    DeviceOf,      \* [Points -> Devices \cup {Unparsed}]: PollRequest::from_point
    RefOf,         \* [Points -> references]: object and property
    Unparsed,      \* from_point failed: no device, unknown type or property
    Interfaces,    \* addresses the operating system may list first
    Unspecified,   \* 0.0.0.0
    Configured,    \* the connection's interface, Unset if it has none
    Unset,
    poll_concurrency,
    REFRESH_TARGETED_PASSES,
    REFRESH_TARGETED_CHUNK_SIZE,
    MaxChanges     \* bound: changes of the interface list

BacnetAssumption ==
    /\ Points \subseteq Nat /\ IsFiniteSet(Points) /\ Enabled \subseteq Points
    /\ Devices \subseteq Nat /\ IsFiniteSet(Devices)
    /\ DeviceOf \in [Points -> Devices \cup {Unparsed}] /\ Unparsed \notin Devices
    /\ Unspecified \notin Interfaces /\ Unset \notin Interfaces \cup {Unspecified}
    /\ Configured \in Interfaces \cup {Unspecified, Unset}
    /\ poll_concurrency \in Nat
    /\ REFRESH_TARGETED_PASSES \in Nat
    /\ REFRESH_TARGETED_CHUNK_SIZE \in Nat \ {0}

VARIABLES
    os,         \* the first address of ipv4_interfaces(), or none
    changes,    \* how often it has changed
    session,    \* the cached PollSession: its fingerprint and bind address
    table,      \* device instances the session's client knows
    op,         \* the call in progress: "poll" or "refresh"
    pc,
    want,       \* fingerprint and bind address of this call
    asked,      \* enabled points, or device instances, of this call
    result,     \* how the call ended: "none" while it runs
    group,      \* [Devices -> stage] of the per-device reads of a poll
    left,       \* [Devices -> points still to be read one by one]
    samples, failures,
    pass,       \* targeted passes left
    ranges,     \* device ranges still to be announced in this pass
    probed,     \* [Devices -> how often a Who-Is covered it]
    unchecked,  \* requested devices the table was not yet asked for
    unresolved

caller  == <<op, asked, result, want>>
network == <<os, changes>>
polled  == <<group, left, samples, failures>>
refresh == <<pass, ranges, probed, unchecked, unresolved>>
vars == <<network, session, table, caller, pc, polled, refresh>>

None == "none"
NoSession == [interface |-> None, bind |-> None]
-----------------------------------------------------------------------------
(* Connection parameters and session. *)

\* parse_conn: the configured interface, else the first one of the system.
cfg_interface ==
    IF Configured # Unset THEN Configured
    ELSE IF os # None THEN os ELSE Unspecified

\* resolve_bind_interface: an unspecified one is replaced by the first one.
resolve_bind_interface ==
    IF cfg_interface = Unspecified /\ os # None THEN os ELSE cfg_interface

\* ConnFingerprint of this call, whose other fields come from the connection
\* of the worker and never change, and the address to bind.
Wanted == [interface |-> cfg_interface, bind |-> resolve_bind_interface]

\* Mutant of NeedsRebuild: compares the fingerprint only.
NeedsRebuildByFingerprint(w) == session = NoSession \/ session.interface # w.interface

NeedsRebuild(w) == session = NoSession \/ session # w

-----------------------------------------------------------------------------
\* The locals of a call end with it.
ForgetPoll ==
    /\ group' = [d \in Devices |-> "out"] /\ left' = [d \in Devices |-> {}]
    /\ samples' = {} /\ failures' = {}

ForgetRefresh ==
    /\ pass' = 0 /\ ranges' = {} /\ probed' = [d \in Devices |-> 0]
    /\ unchecked' = {} /\ unresolved' = {}

Init ==
    /\ os \in Interfaces \cup {None}
    /\ changes = 0
    /\ session = NoSession
    /\ table = {}
    /\ op = None /\ pc = "idle" /\ want = NoSession /\ asked = {} /\ result = None
    /\ group = [d \in Devices |-> "out"] /\ left = [d \in Devices |-> {}]
    /\ samples = {} /\ failures = {}
    /\ pass = 0 /\ ranges = {} /\ probed = [d \in Devices |-> 0]
    /\ unchecked = {} /\ unresolved = {}

\* The operating system lists other interfaces (cable, VPN, DHCP).
InterfacesChange ==
    /\ changes < MaxChanges
    /\ os' \in (Interfaces \cup {None}) \ {os}
    /\ changes' = changes + 1
    /\ UNCHANGED <<session, table, caller, pc, polled, refresh>>

Return(r) == pc' = "idle" /\ result' = r /\ UNCHANGED <<op, asked, want>>

\* ensure_poll_client: the cached session is used if it is the one this call
\* wants; otherwise it is stopped, and a client is built in the next step.
EnsurePollClient(ready) ==
    /\ want' = Wanted
    /\ IF NeedsRebuild(want')
       THEN session' = NoSession /\ table' = {} /\ pc' = "building"
       ELSE UNCHANGED <<session, table>> /\ pc' = ready

\* build_client binds a socket and may fail; the session then stays away.
BuildClient ==
    /\ pc = "building"
    /\ session' = want
    /\ pc' = IF op = "poll" THEN "reading" ELSE "announcing"
    /\ UNCHANGED <<network, table, caller, polled, refresh>>

BuildFails ==
    /\ pc = "building"
    /\ Return("error")
    /\ UNCHANGED <<network, session, table, polled, refresh>>

-----------------------------------------------------------------------------
(* poll: one read of many properties per device, one by one if that fails. *)

\* PollRequest::from_point: device, object and property of a point can be made
\* out.
Parsed(p) == DeviceOf[p] # Unparsed

Of(d) == {p \in asked : DeviceOf[p] = d}

\* poll with no enabled point does not touch the network.
PollNothing(ps) ==
    /\ pc = "idle"
    /\ ps \cap Enabled = {}
    /\ op' = "poll" /\ asked' = {} /\ result' = "ok"
    /\ ForgetPoll /\ ForgetRefresh
    /\ UNCHANGED <<network, session, table, want, pc>>

\* Points that do not parse fail at once, the others are grouped by device.
StartPoll(ps) ==
    /\ pc = "idle"
    /\ ps \cap Enabled # {}
    /\ op' = "poll" /\ asked' = ps \cap Enabled /\ result' = None
    /\ EnsurePollClient("reading")
    /\ samples' = {}
    /\ failures' = {p \in asked' : ~Parsed(p)}
    /\ group' = [d \in Devices |->
                    IF \E p \in asked' : DeviceOf[p] = d THEN "waiting" ELSE "out"]
    /\ left' = [d \in Devices |-> {}]
    /\ ForgetRefresh
    /\ UNCHANGED network

InFlight == {d \in Devices : group[d] \in {"multiple", "single"}}

\* buffer_unordered: at most poll_concurrency groups at a time.
ReadGroup(d) ==
    /\ pc = "reading"
    /\ group[d] = "waiting"
    /\ Cardinality(InFlight) < Max({poll_concurrency, 1})
    /\ group' = [group EXCEPT ![d] = "multiple"]
    /\ UNCHANGED <<network, session, table, caller, pc, left, samples, failures, refresh>>

\* The request an element of the answer is matched with: the first one that
\* reads this object and property.
FirstOf(d, ref) == Min({p \in Of(d) : RefOf[p] = ref})

Refs(d) == {RefOf[p] : p \in Of(d)}

\* What an element of an answer holds: bytes that decode_scalar_value turns into
\* a value, an error or nothing, or bytes that it refuses.
Replies == {"value", "error", "garbled"}

\* Elements that carry a value: their requests have been seen.
Seen(d, answer) == {FirstOf(d, r) : r \in {x \in Refs(d) : answer[x] # "error"}}

\* Mutant of GroupReadWhole: an incomplete answer is accepted.
GroupReadSome(d, answer) == \A r \in Refs(d) : answer[r] # "garbled"

\* read_group_rpm succeeds: every value decodes, every request has been seen.
GroupReadWhole(d, answer) ==
    /\ \A r \in Refs(d) : answer[r] # "garbled"
    /\ Seen(d, answer) = Of(d)

\* The device answers each reference with a value, an error (or nothing), or
\* bytes that do not decode.
MultipleRead(d, answer) ==
    /\ pc = "reading"
    /\ group[d] = "multiple"
    /\ d \in table
    /\ IF GroupReadWhole(d, answer)
       THEN /\ samples' = samples \cup Seen(d, answer)
            /\ group' = [group EXCEPT ![d] = "done"]
            /\ UNCHANGED left
       ELSE /\ group' = [group EXCEPT ![d] = "single"]
            /\ left' = [left EXCEPT ![d] = Of(d)]
            /\ UNCHANGED samples
    /\ UNCHANGED <<network, session, table, caller, pc, failures, refresh>>

\* A timeout, a reject, or a device that is not in the table.
MultipleReadFails(d) ==
    /\ pc = "reading"
    /\ group[d] = "multiple"
    /\ group' = [group EXCEPT ![d] = "single"]
    /\ left' = [left EXCEPT ![d] = Of(d)]
    /\ UNCHANGED <<network, session, table, caller, pc, samples, failures, refresh>>

\* read_group_individual: in the order of the list.
SingleRead(d, good) ==
    /\ pc = "reading"
    /\ group[d] = "single" /\ left[d] # {}
    /\ good => d \in table
    /\ LET p == Min(left[d]) IN
        /\ left' = [left EXCEPT ![d] = @ \ {p}]
        /\ samples' = IF good THEN samples \cup {p} ELSE samples
        /\ failures' = IF good THEN failures ELSE failures \cup {p}
    /\ UNCHANGED <<network, session, table, caller, pc, group, refresh>>

GroupEnds(d) ==
    /\ pc = "reading"
    /\ group[d] = "single" /\ left[d] = {}
    /\ group' = [group EXCEPT ![d] = "done"]
    /\ UNCHANGED <<network, session, table, caller, pc, left, samples, failures, refresh>>

PollReturns ==
    /\ pc = "reading"
    /\ \A d \in Devices : group[d] \in {"out", "done"}
    /\ Return("ok")
    /\ UNCHANGED <<network, session, table, polled, refresh>>

-----------------------------------------------------------------------------
(* refresh_devices: a broadcast, then targeted passes for what is missing. *)

\* refresh_device_table with no device asked for, after the session is ready.
RefreshNothing ==
    /\ pc = "announcing"
    /\ asked = {}
    /\ Return("ok")
    /\ UNCHANGED <<network, session, table, polled, refresh>>

StartRefresh(ds) ==
    /\ pc = "idle"
    /\ op' = "refresh" /\ asked' = ds /\ result' = None
    /\ EnsurePollClient("announcing")
    /\ pass' = REFRESH_TARGETED_PASSES
    /\ ranges' = {Devices}
    /\ probed' = [d \in Devices |-> 0]
    /\ unchecked' = {} /\ unresolved' = {}
    /\ ForgetPoll
    /\ UNCHANGED network

\* Mutant of Chunks: the last, shorter chunk is dropped.
WholeChunks(ds) ==
    LET rank(d) == Cardinality({e \in ds : e < d})
        chunkOf(d) == rank(d) \div REFRESH_TARGETED_CHUNK_SIZE
    IN  {c \in {{e \in ds : chunkOf(e) = chunkOf(d)} : d \in ds} :
            Cardinality(c) = REFRESH_TARGETED_CHUNK_SIZE}

\* slice::chunks over the sorted instances: runs of the chunk size, the last
\* one possibly shorter.
Chunks(ds) ==
    LET rank(d) == Cardinality({e \in ds : e < d})
        chunkOf(d) == rank(d) \div REFRESH_TARGETED_CHUNK_SIZE
    IN  {{e \in ds : chunkOf(e) = chunkOf(d)} : d \in ds}

\* device_instance_ranges: every instance between the ends of a chunk is asked.
device_instance_ranges(ds) ==
    {{d \in Devices : Min(c) <= d /\ d <= Max(c)} : c \in Chunks(ds)}

\* One Who-Is, then a wait during which any device it covers may answer.
WhoIs(range, answers) ==
    /\ pc = "announcing"
    /\ asked # {}
    /\ range \in ranges
    /\ \A r \in ranges : Min(range) <= Min(r)
    /\ answers \subseteq range
    /\ table' = table \cup answers
    /\ probed' = [d \in Devices |-> IF d \in range THEN probed[d] + 1 ELSE probed[d]]
    /\ ranges' = ranges \ {range}
    /\ IF ranges' # {}
       THEN UNCHANGED <<pc, unchecked, unresolved>>
       ELSE pc' = "checking" /\ unchecked' = asked /\ unresolved' = {}
    /\ UNCHANGED <<network, session, caller, polled, pass>>

WhoIsFails ==
    /\ pc = "announcing"
    /\ asked # {}
    /\ Return("error")
    /\ UNCHANGED <<network, session, table, polled, refresh>>

\* unresolved_device_instances: one look-up per device, each an await.
CheckDevice ==
    /\ pc = "checking"
    /\ unchecked # {}
    /\ LET d == Min(unchecked) IN
        /\ unchecked' = unchecked \ {d}
        /\ unresolved' = IF d \in table THEN unresolved ELSE unresolved \cup {d}
    /\ UNCHANGED <<network, session, table, caller, pc, polled, pass, ranges, probed>>

\* A late or unsolicited I-Am of any device, while a call waits for something
\* else (between two calls nobody looks at the table).
LateIAm(d) ==
    /\ pc \in {"reading", "checking"}
    /\ d \notin table
    /\ table' = table \cup {d}
    /\ UNCHANGED <<network, session, caller, pc, polled, refresh>>

TargetedPass ==
    /\ pc = "checking"
    /\ unchecked = {}
    /\ unresolved # {} /\ pass > 0
    /\ pass' = pass - 1
    /\ ranges' = device_instance_ranges(unresolved)
    /\ pc' = "announcing"
    /\ UNCHANGED <<network, session, table, caller, polled, probed, unchecked, unresolved>>

\* partition_refresh_outcome
RefreshReturns ==
    /\ pc = "checking"
    /\ unchecked = {}
    /\ unresolved = {} \/ pass = 0
    /\ Return("ok")
    /\ UNCHANGED <<network, session, table, polled, refresh>>

-----------------------------------------------------------------------------
Session == BuildClient \/ BuildFails

Poll ==
    \/ \E ps \in SUBSET Points : PollNothing(ps) \/ StartPoll(ps)
    \/ \E d \in Devices :
        \/ ReadGroup(d)
        \/ \E answer \in [Refs(d) -> Replies] : MultipleRead(d, answer)
        \/ MultipleReadFails(d)
        \/ \E good \in BOOLEAN : SingleRead(d, good)
        \/ GroupEnds(d)
    \/ PollReturns

Refresh ==
    \/ RefreshNothing
    \/ \E ds \in SUBSET Devices : StartRefresh(ds)
    \/ \E range \in ranges : \E answers \in SUBSET range : WhoIs(range, answers)
    \/ WhoIsFails \/ CheckDevice \/ (\E d \in Devices : LateIAm(d))
    \/ TargetedPass \/ RefreshReturns

Next == InterfacesChange \/ Session \/ Poll \/ Refresh

Spec == Init /\ [][Next]_vars

-----------------------------------------------------------------------------
(* Properties *)

\* Poll promises more than the worker asks for: a poll that returns answers
\* every enabled point exactly once, whichever groups fell back and in
\* whichever order they ended, and nothing else.
PollAnswersAll ==
    op = "poll" /\ result = "ok" =>
        /\ IsPollAnswer(asked, samples, failures)
        /\ samples \cup failures = asked

\* A device is reported unresolved only after every pass covered it with a
\* Who-Is of its own range; the others are in the session's table.  So the
\* worker never marks a device it has not looked for.
RefreshIsThorough ==
    op = "refresh" /\ result = "ok" =>
        /\ IsRefreshAnswer(asked, asked \ unresolved, unresolved)
        /\ asked \ unresolved \subseteq table
        /\ \A d \in unresolved : probed[d] = REFRESH_TARGETED_PASSES + 1

\* Requests leave through a client bound to the interface that this call
\* resolved, also after the interfaces of the system have changed.
SessionServesCall ==
    pc \in {"reading", "announcing", "checking"} => session = want
=============================================================================
