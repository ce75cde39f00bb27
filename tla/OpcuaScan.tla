----------------------------- MODULE OpcuaScan ------------------------------
(***************************************************************************)
(* The one-shot jobs of the OPC UA adapter                                 *)
(* (src/crates/proto-opcua/src/republish/mod.rs): discover asks for the    *)
(* endpoints of a server, browse walks its address space breadth first     *)
(* from the Objects folder, bounded in depth and in nodes.                 *)
(***************************************************************************)
EXTENDS Integers, Sequences, SequencesExt, FiniteSets, Sorted

CONSTANTS
    Nodes, Root,
    AddressSpaces,      \* what a server may hold: for every node its
                        \* hierarchical references in the order of the server;
                        \* a reference has a target, a class, a direction and
                        \* the namespace of its target
    Endpoints,          \* addresses a server may return, "" is a blank one
    MAX_BROWSE_DEPTH,
    MAX_BROWSE_NODES

Reference == [target : Nodes, class : STRING, forward : BOOLEAN, namespace : Nat]

OpcuaScanAssumption ==
    /\ Root \in Nodes
    /\ AddressSpaces \subseteq [Nodes -> Seq(Reference)]
    /\ MAX_BROWSE_DEPTH \in Nat /\ MAX_BROWSE_NODES \in Nat \ {0}

VARIABLES
    job, at, outcome,
    connected,
    devices,     \* addresses of the devices found
    warnings,
    references,  \* the address space of the server being browsed
    visited,     \* objects that were put into the frontier
    frontier,    \* queue of objects and their depth
    entry,       \* the object whose references are being read
    received,    \* how many of them were read
    points,      \* variables found, in order
    previewed,   \* points that got a value
    cut          \* a continuation ended without a result

walk == <<references, visited, frontier, entry, received, points, previewed, cut>>
vars == <<job, at, outcome, connected, devices, warnings, walk>>

Nobody == [node |-> "none", depth |-> 0]

OpcuaScanInit ==
    /\ job = "none" /\ at = "idle" /\ outcome = "none" /\ connected = FALSE
    /\ devices = {} /\ warnings = {}
    /\ references = [n \in Nodes |-> <<>>]
    /\ visited = {} /\ frontier = <<>> /\ entry = Nobody /\ received = 0
    /\ points = <<>> /\ previewed = 0 /\ cut = FALSE

\* Every way out of a job closes the connection, if there is one.
ScanEnds(r) == at' = "idle" /\ outcome' = r /\ connected' = FALSE /\ UNCHANGED job

-----------------------------------------------------------------------------
(* discover *)

StartDiscover ==
    /\ job = "none"
    /\ job' = "discover" /\ at' = "endpoints"
    /\ UNCHANGED <<outcome, connected, devices, warnings, walk>>

\* Endpoints with an address, one device per address; none at all, or an
\* error, is a warning.
GetEndpoints(answer, good) ==
    /\ at = "endpoints"
    /\ devices' = IF good THEN answer \ {""} ELSE {}
    /\ warnings' = IF good /\ answer # {} THEN {} ELSE {"fallback"}
    /\ IF devices' # {} THEN ScanEnds("ok")
                        ELSE at' = "check" /\ UNCHANGED <<job, outcome, connected>>
    /\ UNCHANGED walk

\* The connect-check: the configured server itself, if it can be reached.
ConnectCheck(good) ==
    /\ at = "check"
    /\ devices' = IF good THEN {"configured"} ELSE {}
    /\ ScanEnds(IF good THEN "ok" ELSE "error")
    /\ UNCHANGED <<warnings, walk>>

-----------------------------------------------------------------------------
(* browse_variables *)

StartBrowse(good, space) ==
    /\ job = "none"
    /\ job' = "browse"
    /\ IF good THEN /\ at' = "next" /\ connected' = TRUE
                    /\ references' = space /\ visited' = {Root}
                    /\ frontier' = <<[node |-> Root, depth |-> 0]>>
                    /\ UNCHANGED outcome
               ELSE /\ at' = "idle" /\ outcome' = "error"
                    /\ UNCHANGED <<connected, references, visited, frontier>>
    /\ UNCHANGED <<devices, warnings, entry, received, points, previewed, cut>>

\* Mutant of PopFront: the walk takes the newest object.
PopBack == <<frontier[Len(frontier)], SubSeq(frontier, 1, Len(frontier) - 1)>>

PopFront == <<Head(frontier), Tail(frontier)>>

\* pop_front; a frontier that is left over when the cap is exceeded is dropped.
PopFrontier ==
    /\ at = "next" /\ frontier # <<>>
    /\ frontier' = PopFront[2]
    /\ IF Cardinality(visited) > MAX_BROWSE_NODES
       THEN /\ warnings' = warnings \cup {"capped"} /\ at' = "preview"
            /\ UNCHANGED entry
       ELSE entry' = PopFront[1] /\ at' = "children" /\ UNCHANGED warnings
    /\ UNCHANGED <<job, outcome, connected, devices, references, visited, received, points,
                   previewed, cut>>

FrontierEmpty ==
    /\ at = "next" /\ frontier = <<>>
    /\ at' = "preview"
    /\ UNCHANGED <<job, outcome, connected, devices, warnings, walk>>

\* Remaining references: the server gives a continuation point while there are some.
Remaining == Len(references[entry.node]) - received

\* browse and browse_next: references come in pages.
ReceivePage(n) ==
    /\ at = "children" /\ n \in 1..Remaining
    /\ received' = received + n
    /\ UNCHANGED <<job, at, outcome, connected, devices, warnings, references, visited, frontier,
                   entry, points, previewed, cut>>

\* A browse or browse_next that fails ends the job with what was found thrown
\* away.
BrowseFails ==
    /\ at = "children"
    /\ ScanEnds("error")
    /\ UNCHANGED <<devices, warnings, walk>>

\* A response without a result ends the list of references, without a warning.
PagesEnd ==
    /\ at = "children" /\ Remaining # 0
    /\ at' = "process" /\ cut' = TRUE
    /\ UNCHANGED <<job, outcome, connected, devices, warnings, references, visited, frontier,
                   entry, received, points, previewed>>

LastPage ==
    /\ at = "children" /\ Remaining = 0
    /\ at' = "process"
    /\ UNCHANGED <<job, outcome, connected, devices, warnings, walk>>

Received(i) == references[entry.node][i]

\* An object is descended into unless it belongs to the core namespace or is too
\* deep.
Descend(r) ==
    /\ r.forward /\ r.class = "object" /\ r.namespace # 0
    /\ entry.depth + 1 <= MAX_BROWSE_DEPTH

\* The variables among the references, and the objects that were not visited
\* before, by themselves or as the target of an earlier reference.
Variables == {i \in 1..received : Received(i).forward /\ Received(i).class = "variable"}
Fresh ==
    {i \in 1..received :
        /\ Descend(Received(i)) /\ Received(i).target \notin visited
        /\ ~ \E k \in 1..i - 1 : Descend(Received(k)) /\ Received(k).target = Received(i).target}

\* The references of one object, in order.
ProcessChildren ==
    /\ at = "process"
    /\ LET variables == InOrder(Variables)
           fresh == InOrder(Fresh)
       IN  /\ points' = points \o [i \in DOMAIN variables |-> Received(variables[i]).target]
           /\ visited' = visited \cup {Received(i).target : i \in Fresh}
           /\ frontier' = frontier \o [i \in DOMAIN fresh |->
                                          [node |-> Received(fresh[i]).target,
                                           depth |-> entry.depth + 1]]
    /\ at' = "next" /\ entry' = Nobody /\ received' = 0
    /\ UNCHANGED <<job, outcome, connected, devices, warnings, references, previewed, cut>>

\* One read of value and description of every point, best effort, and the units
\* one by one; a short answer leaves the last points without.
Preview(values) ==
    /\ at = "preview"
    /\ previewed' = (values + 1) \div 2
    /\ ScanEnds("ok")
    /\ UNCHANGED <<devices, warnings, references, visited, frontier, entry, received, points,
                   cut>>

-----------------------------------------------------------------------------
Discover ==
    \/ StartDiscover
    \/ \E answer \in SUBSET Endpoints, good \in BOOLEAN : GetEndpoints(answer, good)
    \/ \E good \in BOOLEAN : ConnectCheck(good)

Browse ==
    \/ \E good \in BOOLEAN, space \in AddressSpaces : StartBrowse(good, space)
    \/ PopFrontier \/ FrontierEmpty
    \/ at = "children" /\ \E n \in 1..Remaining : ReceivePage(n)
    \/ BrowseFails \/ PagesEnd \/ LastPage \/ ProcessChildren
    \/ \E values \in 0..2 * Len(points) : Preview(values)

OpcuaScanNext == Discover \/ Browse

-----------------------------------------------------------------------------
(* Properties *)

\* The hierarchical references away from a node, to nodes of a class.
Forward(n, class) == {r \in ToSet(references[n]) : r.forward /\ r.class = class}

\* Objects that a path of at most k references leads to from the root.
Within[k \in 0..MAX_BROWSE_DEPTH] ==
    IF k = 0 THEN {Root}
    ELSE Within[k - 1] \cup
         UNION {{r.target : r \in {q \in Forward(n, "object") : q.namespace # 0}} :
                    n \in Within[k - 1]}

\* A walk that succeeds without a warning found every variable that an object
\* within the depth refers to, over whichever path the object was reached
\* first, and nothing else.  A discovery that succeeds names a device.  No job
\* leaves its connection open.
WalkIsComplete ==
    /\ at = "idle" => ~connected
    /\ job = "discover" /\ outcome = "ok" => devices # {}
    /\ job = "browse" /\ outcome = "ok" /\ "capped" \notin warnings /\ ~cut =>
        ToSet(points) =
            UNION {{r.target : r \in Forward(n, "variable")} : n \in Within[MAX_BROWSE_DEPTH]}
=============================================================================
