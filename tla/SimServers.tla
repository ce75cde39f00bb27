----------------------------- MODULE SimServers -----------------------------
(***************************************************************************)
(* The running simulator (src/crates/sim-core/src/app/mod.rs) and its      *)
(* protocol servers: the BACnet server, which handles one datagram after   *)
(* the other, a Modbus connection, and the OPC UA server with the cache    *)
(* that its own task refreshes.  Each takes the mutex of the simulation    *)
(* and reads point after point while it holds it.  A client of the OPC UA  *)
(* server reads the cache, without the mutex and node by node.             *)
(***************************************************************************)
EXTENDS Simulation

CONSTANTS
    Registered,   \* ids of protocols with a factory
    MaxReferences,\* bound: properties of one request
    MaxRequests   \* bound: requests to each server

VARIABLES
    listener,   \* [positions of effective_protocols -> "spawned", "serving", "failed",
                \*  "unbound", "stopped", or "skipped"]
    phase,      \* "running", "refused" or "cancelled"
    bacnet,     \* [at, asked, got]: the request being handled
    modbus,     \* [at, asked, got]
    map,        \* the registers of the Modbus server, empty before it is built
    opcua,      \* [at, got]: the refresh of the cache
    opcua_read, \* what a client's Read request has got so far, empty between requests
    cache,      \* [points -> what it was read as], empty before the server is built
    named       \* requests counted, by kind

app == <<listener, phase>>
servers == <<bacnet, modbus, map, opcua, opcua_read, cache, named>>
vars == <<engine, app, servers>>

Idle == [at |-> "idle", asked |-> <<>>, got |-> <<>>]
Waiting == [at |-> "waiting", got |-> <<>>]
Kinds == {"who_is", "read_property_multiple", "read_holding_registers"}

effective_protocols(c) == IF c.protocols = <<>> THEN <<"bacnet">> ELSE c.protocols

Serving(id) ==
    \E i \in DOMAIN listener : effective_protocols(config)[i] = id /\ listener[i] = "serving"

\* The task that refreshes a cache runs, whether its server is bound or not.
Updating ==
    \E i \in DOMAIN listener :
        effective_protocols(config)[i] = "opcua" /\ listener[i] \in {"serving", "unbound"}

-----------------------------------------------------------------------------
(* app::run *)

\* Unknown protocols are skipped; with none left the program ends.
ServersInit ==
    /\ listener = [i \in DOMAIN effective_protocols(config) |->
                      IF effective_protocols(config)[i] \in Registered THEN "spawned" ELSE "skipped"]
    /\ phase = IF \A i \in DOMAIN listener : listener[i] = "skipped" THEN "refused" ELSE "running"
    /\ bacnet = Idle /\ modbus = Idle /\ opcua = Waiting /\ opcua_read = <<>>
    /\ cache = <<>> /\ map = <<>>
    /\ named = [k \in Kinds |-> 0]

\* What a point reads as: its value, and the tick that made it; and what is
\* answered where no point is found.
ReadAs(p) == [point |-> p, value |-> PointAt(sim, p).value, stamp |-> stamps[p[1]]]
NoAnswer == [point |-> NoPosition, value |-> NaN, stamp |-> 0]
Answer(p) == IF p = NoPosition THEN NoAnswer ELSE ReadAs(p)

\* serve: the index of the points is built under the mutex, then the port is bound.
\* A second listener on the port is not bound; nor is any, if the system refuses.
\* By then the OPC UA server has its cache and the task that refreshes it (of several
\* caches, that of the server that is reached is followed, else the last one).
Serve(i) ==
    /\ phase = "running" /\ listener[i] = "spawned" /\ lock = "free"
    /\ LET id == effective_protocols(config)[i]
           bound == Serving(id)
       IN  /\ \E result \in IF bound THEN {"unbound"} ELSE {"serving", "unbound"} :
                 listener' = [listener EXCEPT ![i] = result]
           /\ IF id = "opcua" /\ ~bound
              THEN cache' = [p \in SimulatedPoints(sim) |-> ReadAs(p)] /\ opcua' = Waiting
              ELSE UNCHANGED <<cache, opcua>>
           /\ map' = IF id = "modbus" /\ ~bound THEN regs(sim) ELSE map
    /\ UNCHANGED <<engine, phase, bacnet, modbus, opcua_read, named>>

\* A server that cannot be made leaves nothing behind.
ServeFails(i) ==
    /\ phase = "running" /\ listener[i] = "spawned"
    /\ listener' = [listener EXCEPT ![i] = "failed"]
    /\ UNCHANGED <<engine, phase, servers>>

\* The terminal UI has ended, and with it the runtime it was given; the
\* cancellation token that run sets afterwards finds no task.
Cancel ==
    /\ phase = "running"
    /\ phase' = "cancelled"
    /\ UNCHANGED <<engine, listener, servers>>

\* A listener ends where it waits, which is never while it holds the mutex.
StopListener(i) ==
    /\ phase = "cancelled" /\ listener[i] \in {"spawned", "serving", "unbound"}
    /\ lock # effective_protocols(config)[i]
    /\ listener' = [listener EXCEPT ![i] = "stopped"]
    /\ UNCHANGED <<engine, phase, servers>>

TickLoop == phase # "refused" /\ Tick /\ UNCHANGED <<app, servers>>
TickLoopCancelled == phase = "cancelled" /\ TickCancelled /\ UNCHANGED <<app, servers>>

\* The counters of the dashboard; here they bound the requests, too.
record_request(kind) == named[kind] < MaxRequests /\ named' = [named EXCEPT ![kind] = @ + 1]

Acquire(who) == lock = "free" /\ lock' = who
Release(who) == lock = who /\ lock' = "free"
SimUnchanged == UNCHANGED <<config, sim, ticker, next, clock, day, stamps>>

-----------------------------------------------------------------------------
(* The BACnet server: handle_datagram *)

ReceiveReadMultiple ==
    /\ Serving("bacnet") /\ bacnet.at = "idle"
    /\ \E asked \in BoundedSeq(SimulatedPoints(sim), MaxReferences) \ {<<>>} :
          bacnet' = [Idle EXCEPT !.at = "locking", !.asked = asked]
    /\ record_request("read_property_multiple")
    /\ UNCHANGED <<engine, app, map, modbus, opcua, opcua_read, cache>>

LockForRead ==
    /\ bacnet.at = "locking" /\ Acquire("bacnet")
    /\ bacnet' = [bacnet EXCEPT !.at = "reading"]
    /\ SimUnchanged /\ UNCHANGED <<app, map, modbus, opcua, opcua_read, cache, named>>

\* A handler that locks for one property at a time.
ReadReferenceAlone ==
    /\ bacnet.at = "reading" /\ Len(bacnet.got) < Len(bacnet.asked)
    /\ bacnet' = [bacnet EXCEPT !.at = "locking",
                                !.got = Append(@, Answer(bacnet.asked[Len(@) + 1]))]
    /\ lock' = "free"
    /\ SimUnchanged /\ UNCHANGED <<app, map, modbus, opcua, opcua_read, cache, named>>

\* One property of the request, by its address.
ReadReference ==
    /\ bacnet.at = "reading" /\ Len(bacnet.got) < Len(bacnet.asked)
    /\ LET p == PointAt(sim, bacnet.asked[Len(bacnet.got) + 1])
           found == resolve_property_read(sim, p.object_type, p.instance)
       IN  bacnet' = [bacnet EXCEPT !.got = Append(@, Answer(found))]
    /\ UNCHANGED <<engine, app, map, modbus, opcua, opcua_read, cache, named>>

\* The answer is sent, or an error if it does not fit into one segment.
AnswerRead ==
    /\ bacnet.at = "reading" /\ Len(bacnet.got) = Len(bacnet.asked)
    /\ Release("bacnet")
    /\ bacnet' = Idle
    /\ SimUnchanged /\ UNCHANGED <<app, map, modbus, opcua, opcua_read, cache, named>>

\* handle_whois: the devices of the range are copied under the mutex, and one
\* I-Am after the other is sent without it.
ReceiveWhoIs ==
    /\ Serving("bacnet") /\ bacnet.at = "idle" /\ lock = "free"
    /\ record_request("who_is")
    /\ \E low, high \in DOMAIN sim :
          bacnet' = [Idle EXCEPT !.at = "announcing",
                        !.asked = SelectSeq([d \in DOMAIN sim |-> d], LAMBDA d : d \in low..high)]
    /\ UNCHANGED <<engine, app, map, modbus, opcua, opcua_read, cache>>

SendIAm ==
    /\ bacnet.at = "announcing"
    /\ bacnet' = IF bacnet.asked = <<>> THEN Idle ELSE [bacnet EXCEPT !.asked = Tail(@)]
    /\ UNCHANGED <<engine, app, map, modbus, opcua, opcua_read, cache, named>>

Bacnet ==
    ReceiveReadMultiple \/ LockForRead \/ ReadReference \/ AnswerRead \/ ReceiveWhoIs \/ SendIAm

-----------------------------------------------------------------------------
(* A connection of the Modbus server: handle_request *)

ReceiveReadRegisters ==
    /\ Serving("modbus") /\ modbus.at = "idle"
    /\ \E addr \in 0..Min({Len(map), RegisterSpace - 1}), qty \in 1..MaxReferences :
          modbus' = [Idle EXCEPT !.at = "locking", !.asked = [i \in 1..qty |-> addr + i]]
    /\ record_request("read_holding_registers")
    /\ UNCHANGED <<engine, app, map, bacnet, opcua, opcua_read, cache>>

LockForRegisters ==
    /\ modbus.at = "locking" /\ Acquire("modbus")
    /\ modbus' = [modbus EXCEPT !.at = "reading"]
    /\ SimUnchanged /\ UNCHANGED <<app, map, bacnet, opcua, opcua_read, cache, named>>

\* read_registers: a range that leaves the image is refused as a whole.
InImage(asked) == \A i \in DOMAIN asked : asked[i] <= Len(map)

ReadWord ==
    /\ modbus.at = "reading" /\ InImage(modbus.asked) /\ Len(modbus.got) < Len(modbus.asked)
    /\ LET cell == map[modbus.asked[Len(modbus.got) + 1]]
           p == Lookup(sim, cell.device_id, cell.object_type, cell.instance)
       IN  modbus' = [modbus EXCEPT !.got = Append(@, Answer(p))]
    /\ UNCHANGED <<engine, app, map, bacnet, opcua, opcua_read, cache, named>>

AnswerRegisters ==
    /\ modbus.at = "reading"
    /\ ~InImage(modbus.asked) \/ Len(modbus.got) = Len(modbus.asked)
    /\ Release("modbus")
    /\ modbus' = Idle
    /\ SimUnchanged /\ UNCHANGED <<app, map, bacnet, opcua, opcua_read, cache, named>>

Modbus == ReceiveReadRegisters \/ LockForRegisters \/ ReadWord \/ AnswerRegisters

-----------------------------------------------------------------------------
(* The OPC UA server: the task that refreshes the cache, and a client *)

RefreshBegins ==
    /\ Updating /\ opcua.at = "waiting" /\ Acquire("opcua")
    /\ opcua' = [at |-> "copying", got |-> <<>>]
    /\ SimUnchanged /\ UNCHANGED <<app, map, bacnet, modbus, opcua_read, cache, named>>

\* Simulation::neutral_value of the point of a node.
neutral_value(p) ==
    LET point == PointAt(sim, p)
    IN  Answer(Lookup(sim, sim[p[1]].device_id, point.object_type, point.instance))

\* One point after the other; nobody can tell in which order.
CopyPoint ==
    /\ opcua.at = "copying"
    /\ \E p \in DOMAIN cache \ DOMAIN opcua.got :
          opcua' = [opcua EXCEPT !.got =
                       [q \in DOMAIN @ \cup {p} |-> IF q = p THEN neutral_value(p) ELSE @[q]]]
    /\ UNCHANGED <<engine, app, map, bacnet, modbus, opcua_read, cache, named>>

CopyEnds ==
    /\ opcua.at = "copying" /\ DOMAIN opcua.got = DOMAIN cache
    /\ Release("opcua")
    /\ opcua' = [opcua EXCEPT !.at = "writing"]
    /\ SimUnchanged /\ UNCHANGED <<app, map, bacnet, modbus, opcua_read, cache, named>>

\* A refresh that writes the points it has not copied before.
WriteMissing ==
    /\ opcua.at = "writing"
    /\ UNCHANGED cache
    /\ opcua' = Waiting
    /\ UNCHANGED <<engine, app, map, bacnet, modbus, opcua_read, named>>

\* All updates under one write lock of the cache; what was not found stays.
WriteCache ==
    /\ opcua.at = "writing"
    /\ cache' = [p \in DOMAIN cache |->
                    IF opcua.got[p] = NoAnswer THEN cache[p] ELSE opcua.got[p]]
    /\ opcua' = Waiting
    /\ UNCHANGED <<engine, app, map, bacnet, modbus, opcua_read, named>>

Refresh == RefreshBegins \/ CopyPoint \/ CopyEnds \/ WriteCache

\* A client that reads the nodes of a request one after the other.
Reading == (Serving("opcua") \/ opcua_read # <<>>) /\ Len(opcua_read) < MaxReferences

\* A callback that asks the simulation when nobody holds its mutex.
ReadNodeFresh ==
    /\ Reading
    /\ \E p \in DOMAIN cache :
          opcua_read' = Append(opcua_read, IF lock = "free" THEN ReadAs(p) ELSE cache[p])
    /\ UNCHANGED <<engine, app, map, bacnet, modbus, opcua, cache, named>>

\* The read callback of a node: the lock of the cache is taken for each alone.
ReadNode ==
    /\ Reading
    /\ \E p \in DOMAIN cache : opcua_read' = Append(opcua_read, cache[p])
    /\ UNCHANGED <<engine, app, map, bacnet, modbus, opcua, cache, named>>

AnswerNodes ==
    /\ opcua_read # <<>>
    /\ opcua_read' = <<>>
    /\ UNCHANGED <<engine, app, map, bacnet, modbus, opcua, cache, named>>

OpcuaRead == ReadNode \/ AnswerNodes

-----------------------------------------------------------------------------
ServersNext ==
    \/ TickLoop \/ TickLoopCancelled
    \/ \E i \in DOMAIN listener : Serve(i) \/ ServeFails(i) \/ StopListener(i)
    \/ Cancel
    \/ Bacnet \/ Modbus \/ Refresh \/ OpcuaRead

-----------------------------------------------------------------------------
(* Properties *)

OneTick(answers) ==
    LET found == {i \in DOMAIN answers : answers[i] # NoAnswer}
    IN  \A i, j \in found : answers[i].stamp = answers[j].stamp

NeverOlder(answers) ==
    \A i, j \in DOMAIN answers : i < j => answers[i].stamp <= answers[j].stamp

\* While the tick loop lives, every BACnet and Modbus answer of several values, and the
\* OPC UA cache as a whole, belongs to one tick: nobody reads the two words of a number,
\* or a meter on two devices, half advanced.  An OPC UA answer gives less, since the cache
\* may be written between two of its nodes: it never goes back to an older tick.
AnswersFollowTicks ==
    ticker # "dead" => /\ OneTick(bacnet.got) /\ OneTick(modbus.got)
                       /\ OneTick(opcua.got) /\ OneTick(cache)
                       /\ NeverOlder(opcua_read)

\* What the OPC UA server shows catches up with the simulation, unless the program
\* ends, however busy the other servers are.
CacheBehind == cache # <<>> /\ clock = MaxTicks
CacheCaughtUp == phase = "cancelled" \/ \A p \in DOMAIN cache : cache[p] = ReadAs(p)
=============================================================================
