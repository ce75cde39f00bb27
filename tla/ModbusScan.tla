----------------------------- MODULE ModbusScan -----------------------------
(***************************************************************************)
(* The one-shot jobs of the Modbus adapter                                 *)
(* (src/crates/proto-modbus/src/republish/mod.rs and scan.rs): discover    *)
(* probes the addresses of a network concurrently, browse reads address    *)
(* after address of the four register tables.                              *)
(***************************************************************************)
EXTENDS Integers, FiniteSets

CONSTANTS
    AddressBits,          \* width of a host address: 32
    Networks,             \* configured networks: records of base and prefix
    Names,                \* what a host may resolve to: sets of addresses
    MaxHosts,             \* max_hosts of the connection
    scan_concurrency,
    browse_start, browse_count,
    MaxRegister,          \* u16::MAX
    MAX_CONSECUTIVE_GAPS

\* 1 << n
PowerOfTwo[n \in 0..AddressBits] == IF n = 0 THEN 1 ELSE 2 * PowerOfTwo[n - 1]

Hosts == 0..PowerOfTwo[AddressBits] - 1

ModbusScanAssumption ==
    /\ AddressBits \in Nat \ {0}
    /\ Networks \subseteq [base : Hosts, prefix : 0..AddressBits, single : BOOLEAN]
    /\ \A net \in Networks : net.single => net.prefix = AddressBits
    /\ Names \subseteq SUBSET Hosts
    /\ MaxHosts \in Nat /\ scan_concurrency \in Nat \ {0}
    /\ MaxRegister \in Nat /\ browse_start \in 0..MaxRegister /\ browse_count \in 1..MaxRegister
    /\ MAX_CONSECUTIVE_GAPS \in Nat \ {0}

VARIABLES
    job, at, outcome,
    network,   \* the configured host of a discovery: one address or a network,
               \* NoNetwork if it is a name
    stage,     \* [addresses -> progress of the probe of that host]
    table,     \* the register table being browsed, then "done"
    address,   \* next address
    gaps,      \* consecutive_gaps
    listed,    \* <<table, address>> of the points found
    failed     \* <<table, address>> of the reads that failed

NoNetwork == [base |-> 0, prefix |-> AddressBits + 1, single |-> TRUE]

probes == <<network, stage>>
browsed == <<table, address, gaps, listed, failed>>
vars == <<job, at, outcome, probes, browsed>>

Least(a, b) == IF a <= b THEN a ELSE b
Greatest(a, b) == IF a >= b THEN a ELSE b

-----------------------------------------------------------------------------
(* discover *)

host_bits(net) == AddressBits - net.prefix

\* The addresses of a network.
Size(net) == PowerOfTwo[host_bits(net)]

\* Mutant of total: the shift of a /0 network wraps around to zero.
total_wrapped(net) == Size(net) % PowerOfTwo[AddressBits]

\* The number of addresses; the shift for /0 overflows, which counts as MAX.
total(net) == IF net.prefix = 0 THEN PowerOfTwo[AddressBits] - 1 ELSE Size(net)

\* expand_cidr: the first addresses of the network, as many as the cap allows.
expand_cidr(net) ==
    LET first == net.base - (net.base % Size(net))
        cap == Least(Greatest(MaxHosts, 1), total(net))
    IN  {(first + offset) % PowerOfTwo[AddressBits] : offset \in 0..cap - 1}

ChosenHosts == {h \in Hosts : stage[h] # "out"}

\* One address that was not written as a network is probed directly.
SingleHost == network.single /\ Cardinality(ChosenHosts) = 1

ScanInit ==
    /\ job = "none" /\ at = "idle" /\ outcome = "none"
    /\ network = NoNetwork
    /\ stage = [h \in Hosts |-> "out"]
    /\ table = "holding" /\ address = browse_start /\ gaps = 0
    /\ listed = {} /\ failed = {}

ScanEnds(r) == at' = "idle" /\ outcome' = r /\ UNCHANGED job

StartDiscover(net) ==
    /\ job = "none"
    /\ job' = "discover" /\ at' = "probing"
    /\ network' = net
    /\ stage' = [h \in Hosts |-> IF h \in expand_cidr(net) THEN "queued" ELSE "out"]
    /\ UNCHANGED <<outcome, browsed>>

\* A host that is no address is a name with any number of them.  No address
\* ends the job, as does a host that is empty or a network that does not parse.
StartDiscoverName(addresses) ==
    /\ job = "none"
    /\ job' = "discover"
    /\ IF addresses = {} THEN at' = "idle" /\ outcome' = "error"
                         ELSE at' = "probing" /\ UNCHANGED outcome
    /\ stage' = [h \in Hosts |-> IF h \in addresses THEN "queued" ELSE "out"]
    /\ UNCHANGED <<network, browsed>>

Advance(h, from, to) ==
    /\ job = "discover"
    /\ stage[h] = from
    /\ stage' = [stage EXCEPT ![h] = to]
    /\ UNCHANGED <<job, at, outcome, network, browsed>>

Probing(h) == stage[h] \notin {"out", "queued", "found", "gone"}

\* buffer_unordered(scan_concurrency)
StartProbe(h) ==
    /\ Cardinality({g \in Hosts : Probing(g)}) < scan_concurrency
    /\ Advance(h, "queued", "connecting")

\* connect_addr, within the timeout
ConnectHost(h, good) == Advance(h, "connecting", IF good THEN "holding" ELSE "gone")

\* probe_modbus: a table that answers ends the probe, an exception moves on to
\* the next table, and an error of the connection gives the host up.
NextTable(t) ==
    CASE t = "holding" -> "input" [] t = "input" -> "coil"
      [] t = "coil" -> "discrete" [] t = "discrete" -> "gone"

ProbeTable(h, t, reply) ==
    Advance(h, t, CASE reply = "value" -> "regular"
                    [] reply = "exception" -> NextTable(t)
                    [] reply = "error" -> "gone")

\* read_identity: the regular category, and the basic one if it is refused;
\* whatever it learns, the host counts as found.
Identify(h, category, reply) ==
    Advance(h, category,
            IF category = "regular" /\ reply = "exception" THEN "basic" ELSE "found")

\* A single host that did not answer is an error, a network may be empty.
DiscoverReturns ==
    /\ at = "probing"
    /\ \A h \in Hosts : stage[h] \in {"out", "found", "gone"}
    /\ ScanEnds(IF SingleHost /\ \A h \in Hosts : stage[h] # "found" THEN "error" ELSE "ok")
    /\ UNCHANGED <<probes, browsed>>

-----------------------------------------------------------------------------
(* browse *)

StartBrowse(connected) ==
    /\ job = "none"
    /\ job' = "browse"
    /\ IF connected THEN at' = "reading" /\ UNCHANGED outcome
                    ELSE at' = "idle" /\ outcome' = "error"
    /\ UNCHANGED <<probes, browsed>>

\* saturating_add: the end of the range, which is not read itself.
End == Least(browse_start + browse_count, MaxRegister)

Tables == {"holding", "input", "coil", "discrete"}

\* The loop over the addresses ends at the end of the range or at too many gaps.
TableDone == address >= End \/ gaps >= MAX_CONSECUTIVE_GAPS

\* push_register_point
ListPoint == listed' = listed \cup {<<table, address>>}

ReadRegister(good) ==
    /\ at = "reading" /\ table \in Tables /\ ~TableDone
    /\ address' = address + 1
    /\ IF good
       THEN ListPoint /\ gaps' = 0 /\ UNCHANGED failed
       ELSE failed' = failed \cup {<<table, address>>} /\ gaps' = gaps + 1 /\ UNCHANGED listed
    /\ UNCHANGED <<job, at, outcome, probes, table>>

\* Mutant of StartTable: the count of gaps is kept from the table before.
StartTableKeepingGaps ==
    /\ at = "reading" /\ table \in Tables /\ TableDone
    /\ table' = IF table = "discrete" THEN "done" ELSE NextTable(table)
    /\ address' = browse_start
    /\ UNCHANGED <<job, at, outcome, probes, gaps, listed, failed>>

\* Each table is read from the start, with a count of its own.
StartTable ==
    /\ at = "reading" /\ table \in Tables /\ TableDone
    /\ table' = IF table = "discrete" THEN "done" ELSE NextTable(table)
    /\ address' = browse_start /\ gaps' = 0
    /\ UNCHANGED <<job, at, outcome, probes, listed, failed>>

BrowseReturns ==
    /\ at = "reading" /\ table = "done"
    /\ ScanEnds("ok")
    /\ UNCHANGED <<probes, browsed>>

-----------------------------------------------------------------------------
Discover ==
    \/ \E net \in Networks : StartDiscover(net)
    \/ \E addresses \in Names : StartDiscoverName(addresses)
    \/ \E h \in Hosts :
        \/ StartProbe(h)
        \/ \E good \in BOOLEAN : ConnectHost(h, good)
        \/ \E t \in Tables, reply \in {"value", "exception", "error"} : ProbeTable(h, t, reply)
        \/ \E c \in {"regular", "basic"}, reply \in {"value", "exception", "error"} :
            Identify(h, c, reply)
    \/ DiscoverReturns

Browse ==
    \/ \E good \in BOOLEAN : StartBrowse(good) \/ ReadRegister(good)
    \/ StartTable \/ BrowseReturns

ScanNext == Discover \/ Browse

-----------------------------------------------------------------------------
(* Properties *)

\* A discovery of a network probes addresses of that network only, all of them if
\* the cap allows (of a /0 network all but the last), and at least one.
TargetsAreTheNetwork ==
    job = "discover" /\ network # NoNetwork =>
        LET net == {h \in Hosts : h \div Size(network) = network.base \div Size(network)}
        IN  /\ ChosenHosts # {}
            /\ ChosenHosts \subseteq net
            /\ Cardinality(net) <= MaxHosts =>
                Cardinality(net \ ChosenHosts) <= IF network.prefix = 0 THEN 1 ELSE 0

\* A browse that succeeds leaves a register of its range out only if reading it
\* failed, or if in the same table a full run of failures came before it.
BrowseSkipsOnlyGaps ==
    job = "browse" /\ outcome = "ok" =>
        \A t \in Tables : \A a \in browse_start..End - 1 :
            \/ <<t, a>> \in listed \cup failed
            \/ \E first \in browse_start..a - MAX_CONSECUTIVE_GAPS :
                \A k \in first..first + MAX_CONSECUTIVE_GAPS - 1 : <<t, k>> \in failed
=============================================================================
