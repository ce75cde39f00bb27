# A verification project for netix-protocol-core

TLA+ modules of the republisher and the simulator of this repository, the TLC configurations that
check them on small instances, and theorems about them checked by TLAPS. Paths
below are relative to `src/crates/`; line numbers are those of this commit.
`PROJECT.json` maps every definition that models code to its lines.

## 1. The system

The repository is a Rust workspace with two programs on a common set of
protocol crates:

* the **republisher** (`republish-core` with an adapter from `proto-bacnet`,
  `proto-modbus` or `proto-opcua`): a GUI in which a user discovers devices,
  builds a table of points and starts a worker that polls those points and
  publishes their values to an MQTT broker;
* the **simulator** (`sim-core` with the servers of the same protocol crates):
  a terminal program that expands a YAML configuration into virtual devices
  and serves them over the same protocols.

### Inventory

| component | state it keeps | operations | talks to |
|---|---|---|---|
| worker loop, `republish-core/src/worker/mod.rs` | unresolved devices, backoffs, last polls, point status, three timers, counters of the health interval | start (discover if there are no points), refresh the device table, re-resolve, poll, publish, health message, stop | adapter (async calls), MQTT publisher, event channel to the GUI, stop flag from the GUI |
| poll backoff, `worker/backoff.rs` | delay and window per device | update after each poll | worker loop |
| worker runtime, `worker/runtime.rs` | - | run a future to completion, catching a panic | worker threads |
| one-shot jobs, `worker/mod.rs` | a copy of what they were given | discover, browse, scan all, poll once | adapter, event channel |
| MQTT publisher, `mqtt.rs` | shared `ConnectionState`, reconnect delay, outbound channel | event-loop task, enqueue, reads of the state | rumqttc, worker |
| GUI, `app.rs` | configuration, point editor, lifecycle shown, totals, stop flag, lists | one handler per message; a Tick every 250 ms drains the event channel | workers, configuration file |
| configuration, `config.rs` | the file | load, migrate, validate, save | GUI |
| import, `import.rs`; topics, `topic.rs`; logs, `log.rs`; model, `model.rs` | - ; - ; ring of lines; statuses | merge, derive a topic, push, record | GUI, worker |
| BACnet adapter, `proto-bacnet/src/republish/` | device table in the client, address hints | discover, browse, refresh, poll with a multiple read and a fallback | network |
| Modbus adapter, `proto-modbus/src/republish/` | - | scan an address range, browse registers, poll | network |
| OPC UA adapter, `proto-opcua/src/republish/` | - | connect, walk the address space, poll | network |
| simulator, `sim-core/src/` | device specs, profile states, shared snapshot, metrics, log | expand the configuration, tick, serve, shut down | protocol servers, terminal UI |
| protocol servers, `proto-*/src/sim/` | register maps, object registries | update values, answer requests | simulator |
| GUI views, terminal UI, network interfaces, registration tables | nothing of their own | rendering, queries | - |

`proto-bacnet/vendor/bacnet-transport` is third-party code.

### What is hard

* **Awaits.** The worker computes with an instant read at the start of an
  iteration; refreshes and polls in between take arbitrarily long.
* **Threads.** The event-loop task writes the connection state one store at a
  time while the worker reads it; the GUI holds only the last worker's stop flag;
  a scan works on a copy of the table.
* **Delayed news.** The GUI learns everything from a channel that it drains on a
  timer, whichever worker sent it.
* **Failure.** Adapters fail per point, per device, as a whole, or panic; the
  broker refuses or vanishes; the outbound channel is full; a write of the
  configuration fails half way; a device answers late, in part, or in another pass.
* **Conversions.** A setting goes from text to JSON, to a file and back, to an
  option of a client, with defaults in four places; an address goes from an
  expanded configuration through an export to a server and back.

What makes each part correct, in short: the worker never silently skips a point
that looks healthy, retries devices within bounded time, and ends when asked;
the link tells the truth about the connection and never stops the worker; the
GUI controls every worker it started; the table, the editor, the file and the
status line agree, and the forms mean what they show; an adapter answers each point it was
given with the point's own value (or not at all where the answer it got was short), and finds
what is there; the simulator serves each generated address, BACnet and Modbus answers from
one tick at a time. `PROJECT.json` lists the hazards at their lines, with the
properties that are about them.

## 2. The modules

| module | models | composed with |
|---|---|---|
| `Lifecycle` | the abstract worker: the lifecycle events it may send | instantiated by the next two |
| `Republisher` | the worker loop with its backoffs (`worker/mod.rs`, `backoff.rs`, `runtime.rs`) | implements `Lifecycle` |
| `BackoffLog` | `Republisher` with a history of what its log announced | extends `Republisher` |
| `MqttLink` | `mqtt.rs` and the worker's use of it | - |
| `AppRunControl` | Start, Stop and Tick of the GUI | one `Lifecycle` per worker |
| `PointTable` | point table, editor, clear, import, configuration file | - |
| `FieldForms` | the fields an adapter declares, text <-> JSON, what an adapter reads of a value | used by the next two |
| `PublishTopics` | `topic.rs` | used by `SettingsForm` |
| `SettingsForm` | the connection and MQTT forms, their file and its migration | - |
| `PointForms` | discovery and browse of the GUI, what is added, the addressing in the editor | - |
| `StatusFeed` | the statuses of the worker and those the GUI builds from its events | - |
| `Gui` | the GUI as a whole | extends `PointTable` and the three before it |
| `AdapterAnswers` | what `Republisher` assumes of `poll` and `refresh_devices` | extended by the adapters |
| `BacnetAdapter`, `ModbusAdapter`, `OpcuaAdapter` | `poll` and `refresh_devices` of the three adapters | - |
| `BacnetScan`, `ModbusScan`, `OpcuaScan` | their discovery and browse | - |
| `Adapters` | the registry and what it builds | instantiates the six before it |
| `Sorted` | a filtered list, as the positions that are left in order | used by `OpcuaAdapter`, `OpcuaScan` and `StatusFeed` |
| `SimConfig` | expansion, export and addresses of a simulator configuration | extended by the next four |
| `Simulation` | the profiles and the tick loop | extended by `SimServers` |
| `SimServers` | the running simulator: listeners, answers, the OPC UA cache | - |
| `SimTui` | the terminal UI and the file it writes | - |
| `Simulator` | the simulator as a whole | extends the four before it |
| `*Proofs` | the theorems of section 5 | extend the module they are about |
| `NumberFacts` | lemmas about numbers and lists that several of them use | extended by the proofs |
| `MC*` | constants for TLC | |

### Republisher

`pc` says where the thread is. A call to an adapter is two steps, one that
starts it and one that applies its answer after 0 to `MaxAwait` units of time
(`Elapse`); enqueueing to MQTT never waits, so it is part of the step that does
it. Each helper of the code is an operator of the same name
(`due_points`, `update_device_backoffs`, `record_unresolved_failures`,
`apply_refresh_state`, `emit_refresh_state_change`). Status and history are kept
per `PointIdentity`, as in the code, so two points may share an identity; the
BACnet device instance is part of the addressing and therefore a function of
the identity. Of a status only `stale` is kept, of the counters whether they
are zero. `now` is the instant of the iteration and is used by `due_points` and
by the backoff even when time has passed since. `OwnStep` are the steps the worker takes by
itself, `CallReturn` those that need an adapter to answer.

The adapter contract assumed: a refresh that returns classifies exactly the
devices it was asked for; a poll returns at most one sample or failure for each
point it was given, and may be silent about a point. `discover_points` returns
enabled points of distinct identities, as its code arranges.

### Lifecycle

Starting, Running, Stopping, Stopped, with Failed instead of any of the first
three; leaving the loop needs the stop flag; nothing follows Stopped or Failed.
`Republisher` is mapped to it by the identity on `lifecycle` and `stop`.

### MqttLink

Every atomic store and every locked assignment of the event-loop task is a step
of its own (`PollAccepted`, `ClearFatal`, `ClearError` is a successful CONNACK), and
so is every read of the worker. The connection (`link`), the channel (`queue`)
and the unconfirmed publishes (`inflight`) are rumqttc's and follow from how the code
uses them: an error of `poll()` loses the connection, any number of refusals and
errors may precede the next CONNACK. A batch is a sequence of group sizes: one
message per group in `publish_envelope`, groups of one in `publish_samples`.

### AppRunControl

Workers are numbered as they are spawned. Each is an instance of `Lifecycle`,
which `Republisher` implements, and sends its events to the one channel; `Tick`
drains it. A publisher's confirmed deliveries go into the same channel, and so
does the total of a poll-once job. `flag` is the worker whose stop flag the GUI
holds. `PatientUser` says whether the user waits for a start to show.

### PointTable

Every message of the GUI that touches the table, the editor, the two-press
clear or the file is an action; saving is part of the handler that saves. A
point is its identity, tag path, enabled flag and interval (0 stands for the
invalid one). A write may fail and then leaves the file as it was or not
loadable. A `Tick` that drains several results is several steps between which
no message is handled (`draining`). What the user typed into the editor is
chosen when SavePoint is pressed, since any field can be typed into at any time.

### FieldForms, PublishTopics

Operators only. A JSON value is its kind and its text, so that a number and a
string of the same digits differ; what a text parses to is given by the constants
(`Numerals`, `Addresses`, `Factors`), and how a number is written by `Decimal`. `caps` is what the three adapters declare; `build_addressing` is what a form stores, `conn_u64`,
`conn_str` and `conn_bool` what an adapter reads of it. `FormsAssumption` says what these texts have
in common: a written number parses as itself, every default is a number, the words a form
offers are neither numbers nor blank, and a JSON value is spelled as its kind demands (`IsValue`).
A topic is the sequence of its segments.

### SettingsForm

`connections`, `mqtt` and `disk` are the configuration and its file; `conn_values` and
`buffers` are what the widgets hold. An action is an edit of a form, a save, a start, a one-shot job or a restart, which loads, migrates,
fills defaults, resolves secrets and may start by itself. `stored` remembers the form
that was written, so that `FileIsUsed` can compare what the next start would use
with what was shown. A file may also have been written by hand, with any keys or none
(`FormFiles`, `SettingsAssumption`); `Completed` gives what is not in it its default. A field that
says nothing by itself is not compared (a policy without a mode, a password without a user: `Silent`). The options are those the adapter and the MQTT client are
built from.

### PointForms

A search (discovery or browse) carries the protocol it was started under and
answers whenever it likes, or fails. `devices` is whose discovery filled the list, because a
browse of another protocol finds points of its own. `UntouchedIsKept`: storing a point
that was only looked at leaves its target, if it has the fields without which there is no
target (`Required`), and, where the protocol's fields are all there and their numbers are numbers,
its identity (a "07" is stored as 7, which makes it another identity). `ShownIsStored`: what was typed is what is read. `AddedInKind`: a
point of another protocol only comes from a browse that answered late (`late`).

### StatusFeed

The worker and a poll-once thread send to one channel; only the order of the
events of one sender matters, so each has a queue of its own, which holds what was
sent and what is about to be. What a list of samples, failures or publishes makes of a
map of statuses is stated in closed form (`WithSamples`, `WithFailures`, `WithPublishes`):
entry after entry, a point's own entries alone count, the last of them stands, and
failures add up. A start requires that the GUI has drained the end of
the run before (a start while a worker runs is in `AppRunControl`). `overview_page` and
`points_page` are what the two pages show; `FeedIsFaithful` compares them with the
worker's statuses, totals and newest samples.

### Gui

The four parts share next to nothing, so a behaviour follows one of them and
leaves the others alone. What one part needs of another is named in the modules:
the enabled points in `SettingsForm`, the selected protocol in `PointForms`.

### The adapters

`BacnetAdapter` keeps the session (interface and bind address), the device table of its client
and the call in progress. The groups of a poll are read concurrently, each by one
multiple read whose elements are values, errors or bytes that do not decode, and one
by one when that fails; elements are matched with the first point of the same
reference. A refresh is one broadcast and targeted passes over chunks; `probed` counts
the requests that covered a device. The operating system's interfaces may change
between and during calls. `BacnetScan` is discovery on one interface after the other and the
browse of an object list in chunks with its fallback.

`ModbusAdapter` is one connection: requests are numbered, a read that times out leaves
its answer on the way (`inbox`, `wire`). `ModbusScan` probes the hosts of a network
concurrently, or the addresses a name resolves to (`Names`; none of them ends the job), and
browses four register tables up to a number of consecutive gaps;
host numbers are `AddressBits` wide, and a network is a block of 2^n of them
(`PowerOfTwo`, a recursive function so that the proofs can follow it).

`OpcuaAdapter` pairs values with points by position; `answered` is how many values the server
sent, which may be fewer than were asked for. Its connection may take for ever: nothing makes `Connect` happen. `OpcuaScan` is the walk over references
that come in pages, bounded in depth and in nodes, with previews at the end; what was
received of an object is a count, since the pages come in the order of the references.

`Adapters` builds one of the three for a worker or for a job, which share nothing: a
behaviour follows one adapter in one use. Each of its properties is that of the
adapter's module. What the adapters are shown to answer is what `AdapterAnswers` states and
`Republisher` assumes; an adapter's failure as a whole is `PollFails` there.

### The simulator

`SimConfig` follows a configuration through `expand`, the generated republisher configuration
and the address that each server derives, and compares the ends: `AddressesLeadHome`, for
the configurations `Plain` describes (it names what the code does not check:
mixed spellings of a type, repeated prefixes, ids or cells beyond their width). Sums of ids
are 32 bits wide (`IdSpace`), the addresses of Modbus cells 16 (`RegisterSpace`): cells beyond
are in the map but no request names them (`Addressable`). The sort of the object list is
stated by the place of each point: how many come at or before it by type, instance and position.

`Simulation` advances one device per step while it holds the mutex; a point has a memory
that depends on its profile. Whole numbers stand for the floats, `NaN` for the one that is
not a number, and a choice from the profile's interval for chance and
trigonometry; noise is added where the code adds it, and none where it is not positive
(`Spread`). `SimServers` adds the listeners and three readers that take the same
mutex and read value after value: a BACnet multiple read, the words of Modbus
registers, and the copy into the OPC UA cache; every value carries the tick it is of.
A client of the OPC UA server takes no mutex: each node of its request is a step (`ReadNode`)
that looks at the cache alone, so the cache may be written in between. The cache is built, and
the task that refreshes it started, before the port is bound, and both remain if it is not
("unbound"). `SimTui` has one action per key of each tab and dialog, the wizard's file, and the
restart, which may fail.

## 3. Runs

| run | bounds | what it shows |
|---|---|---|
| `republisher` | 2 devices, 4 points on 3 identities, backoff 1..3, intervals 2 and 3, awaits of 0 or 1, clock to 3 | the five invariants of the loop |
| `republisher_live` | 1 device, a point with and one without device, same timing | refinement of `Lifecycle`, the stop request |
| `mqtt_link` | channel of 2, batches of 3 and 1, delays 1..3, 3 errors in a row, 1 drop, 1 confirmation | shared state, delays, accounting, and that the worker never waits; deadlock is checked |
| `run_control` | 3 workers, 2 confirmations each, autostart, a user who waits | one worker at a time, view, totals, stop |
| `point_table` (`MCGui`) | table: 2 identities (one configured twice in one file), 5 messages, 1 scan; settings: 3 edits (a text counts as two) over three files (empty, version 1 by hand, secrets kept); forms: 2 entries, typing of 4 (a text counts as two, a selection or search as one); feed: 2 polls, 2 starts or clearings, 2 recent samples | editor, saves, file, import; forms and file; addressing; statuses |
| `adapters` | BACnet: 5 points on 3 devices, chunks of 2, 2 targeted passes, 1 change of interface, 7 listed objects of which 6 are read; Modbus: 5 points, one address beyond the registers, 2 calls, networks of 1 to 4 hosts and one wider than the address, names of none, one and two hosts, browse of 5 registers with gaps of 2; OPC UA: 5 points, two address spaces, one deeper and one wider than the bounds | the three adapters, as worker and as job |
| `simulator` | 4050 configurations (two templates, up to two blocks of 2 ids, of which there are 10, and 14 addresses of Modbus cells); six running configurations, 2 ticks, 1 request to each of the BACnet and Modbus servers, 2 properties, registers or nodes per request; two rows with one in view | addresses; which tick an answer is of; values; screen; the cache |
| `backoff_log`, `rejection_text`, `double_start`, `scan_overwrites`, `clear_cancelled` | smaller instances | one disagreement each, section 4 |

Why the bounds are enough. *Time*: the intervals are scaled so that their order is
that of the code (tick < re-resolve < keepalive, initial < maximal backoff, an await
may exceed a tick), and the clock allows a keepalive, a re-resolve, the doubling of
a backoff to its cap and a health message in one run; after a stop request
time passes freely, so a stop is not an artefact of the bound. *Points*: two points on one device give mixed outcomes, two
devices give independent ones, and a disabled point shares an identity.
*Link*: two requests fill the channel in the middle of a batch of two groups
and of three samples, three errors reach the cap of the delay. *Workers*: the
properties relate a worker to the one before it; three give a middle one.
*Messages*: five are enough for edit, delete, scan, failing save and restart in
any order. *Forms*: a text is typed into two fields or a selection is made in between,
before a save and a restart. *Feed*: the poll of a run, one of the next and the user's own.
*Adapters*: a group of two points of one reference, one of one point, a point that does
not parse and a disabled one; two calls, so that a session and a connection
outlive or do not outlive a call. *Simulator*: two blocks border on each other and end where the
ids end, and the map of the largest configurations goes beyond the addresses of Modbus;
the second number stands for the thousandth, the first of four
digits. Two ticks let every answer straddle one. The bounds are in the guards (`MaxClock`, `MaxErrors`, `MaxDrops`,
`MaxAcks`, `MaxInflight`, `MaxStarts`, `MaxScans`, `MaxPoints`, `MaxMessages`,
`MaxEdits`, `MaxEntries`, `MaxTyped`, `MaxPolls`, `MaxTurns`, `MaxChanges`, `MaxTicks`, `MaxRequests`,
`MaxReferences`, `MaxText`, `MaxScroll`); no
state constraint is used. No symmetry is declared, since the instances give
different points different roles.

Deadlock is checked where the system never stops (`MqttLink`). The worker, a job and
the simulator end, and the bounds on starts and messages let the other models come to rest.

### Fairness

* `Republisher`: `WF_vars(OwnStep)`, the worker's own steps, which are timers and
  computations. No call to an adapter is fair. The refreshes and polls of the BACnet and the
  Modbus adapter carry timeouts, but every poll of the OPC UA adapter awaits
  `session.wait_for_connection()` (`proto-opcua/src/republish/mod.rs:173`) without one and
  without a look at the event loop whose end would mean that it never comes. So
  `StopIsHonoured` says that a stop request ends the worker or the worker is for ever in a
  call of its adapter: nothing else of the loop, no number of slow calls and
  no order of timers can keep it. It starts at Running, since discovery is such a call too.
* `MqttLink`: only the worker is fair, a thread that never waits. The
  event-loop task depends on the broker and is not.
* `AppRunControl`: the timer ticks, and a worker in its loop whose stop flag is
  set goes on, which `StopIsHonoured` establishes for an adapter whose calls return: here that is
  an assumption, true of BACnet and Modbus and not of an OPC UA session that is
  never established. No fairness on starting: a worker may hang in discovery.
* `Adapters`: the Modbus client, both of whose waits have a timeout. Nothing of the
  device, which may be silent for ever.
* `Simulator`: the mutex is a tokio one, handed out in the order of asking, so whoever
  asks again and again gets it: strong fairness for the tick and the refresh, weak
  fairness for the readers, which release it after finitely many reads.
* `Gui`: none, there are no liveness properties.

## 4. Disagreements found

1. `backoff_log`. `until: now + delay` (`worker/backoff.rs:55`) counts from the start of
   the iteration, the warning "next attempt in {}s" is logged after the poll: after
   a poll as slow as the delay, the next attempt follows at once.
2. `rejection_text`. A transport error after a refusal overwrites `last_error`
   (`mqtt.rs:146`) while `fatal` stays set, so `connection_fatal_error` returns the
   text of the transport error and the worker logs it as the broker's rejection.
3. `double_start`. `start_republisher` replaces `stop_flag` (`app.rs:572`) while the button
   still offers Start, until the first Starting event is drained: a second press
   leaves a worker nobody can stop. With a user who waits, the same property holds
   (run `run_control`).
4. `scan_overwrites`. `BulkTagImport` replaces the table (`app.rs:609`) by a merge into the
   copy made when the scan was started: edits made meanwhile are lost, and the
   loss is saved. Without such edits `ImportKeepsTable` holds.
5. `clear_cancelled`. Any message disarms the clear (`app.rs:293`), and a Tick is a message:
   "Any other action cancels" is true of no action at all.

Noticed while reading, without a run:

* *Worker.* With the OPC UA adapter, a session that is refused after its endpoint was found
  leaves the poll waiting for ever (`proto-opcua/src/republish/mod.rs:173`), and the stop flag is
  never read again. An OPC UA read with fewer values than nodes drops the points beyond, neither sampled nor
  failed (386). A poll that fails as a whole changes neither status nor backoff nor counters
  (`worker/mod.rs:943`). The counters of an interval restart though the health message
  was refused (969). Discovery on start is awaited without a timeout and without looking
  at the stop flag (684). Points of one addressing share one last poll, so the one with the
  longer interval is never due by itself (117). `fatal_reported` is never reset (820).
* *GUI.* The status line of a bulk import replaces that of the save before it, so a
  save that failed is only in the log (`app.rs:611-612`): `SavedMeansSaved` is silent about a line that says
  imported. A toggle of a point that is in the editor is undone by SavePoint. Browse and scan
  use the connection of now with a device found under an earlier one. `scan_progress` stays if
  a scan panics. A deleted point is counted as stale for ever. The publish error, value and
  failures of an earlier run stay until the next sample. Numbers wider than their field
  are truncated; a port or keep-alive that does not parse leaves the old value in use.
  Poll once is not validated, so a lone client certificate is silently unused;
  `client_key_passphrase` has no effect. A point edited under another protocol loses its addressing.
* *Files.* A password from `password_env` is written by a save that remembers secrets, although
  `config.rs:59` says never. The file values "True" and "1" of a checkbox are shown unchecked and
  become false. A version-1 port stored as a string is reset to 0. A file without a client id
  gets a new one at each start until it is saved.
* *Addressing.* The comment of `import.rs:1` names the device key as part of the identity,
  `PointIdentity` (`model.rs:219`) is the addressing only. Renaming a browsed Modbus point adds a
  `scale` and so changes its identity, contrary to `model.rs:15`; a later scan adds the
  register again. A Modbus identity has no host. A tag segment "+" becomes an empty level.
  A BACnet point without `object_type` is shown as analog_input and its poll fails.
* *Simulator.* An OPC UA Read of several nodes takes the lock of the cache once per node
  (`proto-opcua/src/sim/mod.rs:219-229`), so its answer may mix two ticks. A restart drops the path given as argument (`sim-core/src/app/mod.rs:288`) and spawns before
  the ports are released. `set_listening(true)` though a bind fails (242). Esc in a
  device's detail keeps its scroll (`tui/mod.rs:260`). Two equal first times of a schedule give NaN, which
  a controlled temperature keeps. A random walk with a step that is not positive panics
  and ends the tick loop while the servers go on. Mixed spellings of an object type
  make (type, instance) not unique (`config.rs:257`); a repeated name prefix gives two devices one key.

## 5. Proofs

`RepublisherProofs` (for all points, devices, intervals and awaits):

* `TypeCorrect`: one case per action.
* `UnresolvedStaleAlways`, `BackoffBoundedAlways`, `BackoffCauseAlways`: together inductive
  with four more conjuncts (`IInv`). `CleanBeforeLoop`: there is no unresolved
  device, backoff or poll before the loop, needed because discovery
  replaces the points. `UnresolvedAreOurs`: an unresolved device is one of an
  enabled point, so marking its points is not vacuous. `DueArePollable`: the points of a
  poll are enabled, of devices that are not unresolved; otherwise a sample
  would make a point of a skipped device fresh. `NowIsPast`: `now <= clock`, which bounds
  the windows that are opened from `now`.
* `HealthOkAlways` follows from the first and the third.
* `RetryAlways`: its invariant bounds `clock - lastResolve` at each `pc` (`Slack`): how much
  time has gone by since the loop last compared it with the interval.
* `ImplementsLifecycle`: each action of the worker is an action of `Lifecycle` or leaves its
  variables alone; the invariant ties `lifecycle` to `pc`.

`MqttLinkProofs`: `Inv` says of every position of the event-loop task which of its
stores are done (`LinkInv` for `connected` and `reconnects`, `FatalInv` for `fatal` and
`last_error`); `LinkStateAlways` and `FatalAlways` are its instances between polls.
`LinkTypesAlways` and `TypesAlways` are the types, the second of which needs that totals are
numbers (`TotalFacts`). `BackoffAlways`: the delay is the least of the cap and the initial one
doubled once per error, and stays so when doubling goes beyond the cap (`DoubledFacts`).
`AccountedAlways`: while a batch is enqueued group by group, what is counted and what the
batch still holds add up to what was queued (`Accounted`), since a sum without its
first group is the sum less that group.

`GuiProofs`: every handler is of one of three kinds (`HandlerKinds`): it
leaves the table, the file and the line alone, it saves and shows the outcome, or it shows
something else. `SavedAlways` and `FileValidAlways` follow from the kinds alone.
`TableTypesAlways` goes part by part (`TypeParts`): what a message may change of the table, of
the scan, of the editor, of the user. The other two speak of an import, whose merge is
recursive: `MergeGrows` shows, point found by point found, that a merge leaves the identities
of the table in their order and appends new ones (`Grown`). Then `EditorNamesAlways` needs only
that a deletion moves the editing index along, and `ImportKeepsAlways` that the table a
scan copied is still the table when its result arrives (`Outstanding`), which
is so of a user who leaves the table alone meanwhile (`~EditDuringScan`, the hypothesis
without which `scan_overwrites` refutes it). `GuiKeepsTable`: the GUI, with its forms, settings and feed,
implements `PointTable`, step by step.

`FeedAlways` speaks of a drained channel, which a step that drains one event of many does not
reach, so its invariant (`FeedInv`) says what the events that are on their way will do. They form
a `Chain`: a status before each of them and after it, as the GUI would record it. For a point the
worker reported (`ReportedInv`) a chain leads from the status the GUI shows to one that agrees with
the worker's, the same one once the point was sampled in this run; for the totals (`TotalsInv`) one
leads from those shown to the worker's, if no poll of the user's was counted. What a poll sends
extends the chains (`SendsLead`): it leads to what the worker recorded although the worker records
samples before publishes and the GUI hears of the publishes first (`PollAgrees`). Hearing an event
takes the first link off (`ChainOfTail`), a poll of the user's withdraws the claim of the points it
mentions, and clearing withdraws it of all. `LifeInv` says which lifecycle event is on its way,
which is why nothing is left to hear of the last run when one starts and the totals are reset.
That the newest sample listed is the value in the table (`NewestInv`) holds event by event
(`RecentFacts`).

`SettingsAlways` follows a text from the screen to an option. What ties the two at any time is that a field
of the form *tells* what is stored (`Tells`): a number that leads to the same number, given the field's
default, or else the value's own text. `BuiltFacts`, `ShownFacts` and `RebuiltFacts` show
that it does so after typing, after loading, and after a form that was loaded is stored again;
`UsedIsMeant` that what a field tells is the option its adapter is built with, protocol by
protocol; `ClientUsed` the same of the MQTT form and its client. The invariant
(`SettingsInv`) says it three times: of the form and the configuration (`FormInv`), of the form that was
saved and what the file would load (`FileInv`, without which a restart could bring back something else), and, of a run,
that the configuration passed `validate` (`PhaseInv`), from which `TopicsAreValid` derives that no
topic has a wildcard. A migration is the reason why `FileInv` speaks of what is loaded and not of what is
written (`MigratedValues`).

`EditorAlways` needs less: the form holds the fields of the selected protocol and shows the point it was
loaded from until something is typed (`FieldsOk`), what the lists hold is of the selected protocol
unless an answer came late (`BrowsedOk`), and points are JSON values (`EntriesOk`).
That storing changes nothing else is about single fields: what is shown and stored again reads as before
(`RestoredReads`), so the target is kept (`TargetKept`) and, where all fields are there, the
identity (`IdentityKept`); what is typed plainly is read as it was typed, protocol by protocol
(`PlainBacnet`, `PlainModbus`, `PlainOpcua`).

`AppRunControlProofs` (for any number of workers and deliveries, and a user who waits, the
hypothesis `PatientUser` without which `double_start` refutes it): `RunInv` says that earlier workers have ended
(`OneAtATime`), that only the last one has lifecycle events in the channel (`HeardOfLast`),
that its state is shown or the last of those events (`ShownOrHeard`), and that its totals
come before the events with which it leaves its loop (`TotalsOfThisRun`), so a drained
end of a run leaves none behind. `NoOrphanAlways`, `ViewAlways`, `AckedAlways` and
`RunTypesAlways` are its consequences. The last event of the channel is a maximum; that it
exists is `Greatest`, from the well-foundedness of the natural numbers.

`AdapterCallProofs` and `AdapterJobProofs` are about the adapters as `Adapters` composes them,
the first about the calls of a worker, for any points, devices, chunk sizes, passes and late answers,
the second about the one-shot jobs, for any object list, networks, registers and
address space. Each invariant says of a behaviour that it has built no other adapter or that
the adapter's own invariant holds.

* `SampleOwnAlways`: no two requests on a connection have the same number, and only the last can be the one
  awaited, so an answer that fits is one's own (`NumbersAreOwn`); a point is
  in exactly one of the samples, the failures, the points to ask and the one awaited (`EachRegisterOnce`).
* `PollAnswersAlways`: the points of a device that have an outcome are those its group has
  read (`GroupProgress`), so that the fallback from a multiple read to single ones
  neither repeats nor forgets one. `SessionServesAlways` needs that the session was
  checked, and rebuilt if it had to be, before the call left.
* `RefreshThoroughAlways`: the ranges of a pass cover each missing instance exactly once
  (`RangesPartition`). The chunk of an instance is that of its rank, which is monotone, so
  two ranges do not overlap; the smallest and the greatest of a chunk exist because it
  is finite. The rest counts passes.
* `ValuesPairedAlways`: each point of a poll is in exactly one of the samples and the failures, except
  those beyond the end of a short answer (`Unanswered`), and has the value of its own node. The list of the points that are read names each of them once
  (`InOrderFacts`: the i-th is the one with i - 1 smaller ones, and every number below the size
  is the rank of one), so the value at a position is of the point at that position, a point is
  beyond the answer or at one position of it, and the points without a node id, without a value and with one are apart.
* `ScanCompleteAlways`: a client is held from the bind of an interface to its last pass and
  everything it knows has been collected (`DiscoverInv`); the points of a browse are those of the
  entries before the index, whichever way a chunk was read (`BrowseInv`, `ChunkDescribed`).
* `TargetsAlways`: 2^k times 2^n is 2^(k + n) (`PowerFacts`), so a network ends within the
  addresses, `wrapping_add` never wraps, and the hosts are those of the same quotient
  (`BlockFacts`); the cap drops only the last address of a /0 network (`CapFacts`).
* `SkipsOnlyGapsAlways`: the registers before the address were listed or failed, the last
  `gaps` of them failed, and each finished table is settled (`GapInv`, `TableSettled`).
* `WalkCompleteAlways`: a breadth-first walk is at any time at a depth d (`AtDepth`): it has met
  everything within d, has still to read some of the objects at d and then those at d + 1 that
  it met, and of every other object it met the variables are listed and the objects met.
  Taking the first of the frontier keeps that because the frontier is ordered by depth, at most
  one depth ahead (`PopKeeps`, `NextDepth`); reading an object's references does because
  a reference to an object that was met already adds nothing (`ProcessKeeps`). Where nothing is left, what was met
  is closed under references, or d is the bound (`AtTheEnd`, `NearClosed`). An
  error, the cap and a continuation without a result leave this open, as the property does.

`SimulatorProofs`: `ScreenAlways` for any devices, filters and files: `ListInv` bounds the
selection by the list that is shown, `WizardInv` and `DialogInv` tie the offer to restart to the file of the
wizard. `AnswersAlways`: between the reads of one answer the reader holds the mutex (`LockInv`) and no tick starts,
every value carries the tick that is over (`StampInv`), so what an answer or the cache has copied
so far is of one tick (`Answering`, `CacheInv`). What an OPC UA client has read is no newer than the
cache, which is no newer than the refresh under way, which is no newer than the simulation
(`ReadInv`, `Dated`, `NoNewer`), so a later node of its answer is never of an earlier tick. It needs that no two devices of a simulation share an
id, else a lookup could lead out of the reader's device: `DevicesOf` proves that of `expand`, whose blocks follow one another
(`IdsApart`, and `Flattened` for the concatenation), for configurations whose ids fit
their 32 bits (`IdsFit`); where they wrap, the code gives two devices one id.
`ValuesAlways`: a tick defines the values of a device's points one from another
(`AdvanceExists`, `Advanced`), so each is that of `tick` given the points before it
(`SameAdvance`); an occupancy is a value of the schedule or lies between two neighbours
(`OccupancyBetween`, from `OverIsFirst` and `PartOfStep`) and the noise drawn on top is within
its spread (`ChanceFine`), a walk is clamped and a state is one of its
list (`AdvanceInRange`); a derived point copies a source that this tick has settled
(`Sibling`, `DerivedShow`). Its invariant `PointsInv` says it of every device a tick has passed. It
assumes of a profile what its types say and that a random walk's bounds are an interval
(`ProfileFine`): where they are not, `f32::clamp` ends the program before it serves.
`AddressesAlways`: the configuration of such a behaviour never changes, so everything is in
`PlainLeadsHome`. The counter of a point is the number of positions of its type up to its own, and
of two positions of one type the later counts more (`CountersApart`, `PlacesApart`). So in a plain
configuration type and instance say which point it is, over all devices (`Unmistakable`), and the rest
follows for each consumer: what is looked up is found (`LookupLeadsHome`), the object list has it
(`ObjectListed`: places are distinct and not beyond the length), the export of a point is found and is
its own (`ExportLeadsHome`), Modbus cells are labelled once although they come in lists of
lists (`ListsOnce`, `ImageLeadsHome`), and all of them can be named by a request (`AllAddressed`). `KeysApart`: a key is a whole name or a prefix; that a
name is never another device's prefix is what `Plain` asks of the prefixes.

How recursion is proved: no induction rule can be instantiated here, but `NatLessThanWellFounded` gives the smallest
counterexample (`Least`), hence `Induction` over a set, hence that a first value
and a step define a function (`Recursion`), so a recursive function is one that satisfies its
equation. `NumberFacts` proves the three once. The recursive functions of the model
(`Doubled`, `Total`, `merge_points`, `PowerOfTwo`, the concatenation of `expand`, `Within`) are
unfolded this way.

All theorems assume only the named assumptions of the modules (`ConstantsAssumption`,
`LinkAssumption`, `RunControlAssumption`, `TableAssumption`, `FeedAssumption`; `FormsAssumption`,
`TopicsAssumption`, `SettingsAssumption` and `EntriesAssumption` of the forms; `SimulatorAssumption`, which holds
`SimTuiAssumption` and `SimConfigAssumption`, and `AdaptersAssumption`, which holds those of the six
adapter modules), which TLC evaluates in the runs, and the hypotheses
that are named above (`PatientUser`, `~EditDuringScan`, `IdsFit`). Type
correctness of these modules is proved and no longer checked by a run of its own,
except that of `PointTable`, which is both.

Every invariant and every action property that a passing run checks is also a theorem. Left to TLC is liveness
(`StopIsHonoured`, `WorkerNeverBlocks`, `StopReachesView`, `StoppingStops`, `ModbusPollEnds`,
`SimCacheCatchesUp`), which rests on fairness and ENABLED.

## 6. Not modelled

Payloads, log texts, the ring of log lines, TLS material beyond its paths; decoding of
register words and of BACnet values beyond whether they decode; reads of a single
property, of bits and of the identification in the simulator's servers, which differ from
those modelled only in what they encode; monitored items and subscriptions of the OPC UA
server, and the cache of a second OPC UA listener while the first one serves; the BACnet client that
a failing browse leaves behind (the outcomes of a browse that succeeds are what is compared); a
host name that resolves to the same address twice, which is probed twice; drawing, layout, theme; operating-system
queries and checksums; and the vendored transport. `PROJECT.json` gives the reason per
component.

## 7. What could be done next

1. **Composition**: `Republisher` with `MqttLink` in place of the nondeterministic `rejected`, and
   with `BacnetAdapter` in place of the contract.
2. **Files**: two programs that write one configuration file.
