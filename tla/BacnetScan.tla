----------------------------- MODULE BacnetScan -----------------------------
(***************************************************************************)
(* The one-shot jobs of the BACnet adapter                                 *)
(* (src/crates/proto-bacnet/src/republish/mod.rs): discover, which listens *)
(* on one interface after the other, and browse, which reads the object    *)
(* list of one device and then the properties of its objects in chunks.    *)
(* Each job builds clients of its own and shares nothing with a session.   *)
(***************************************************************************)
EXTENDS Integers, Sequences, SequencesExt, FiniteSets

CONSTANTS
    Targets,            \* target_interfaces: addresses, sorted and without duplicates
    Strict,             \* bind_failure_policy is "strict"
    Instances,          \* device instances that may answer a Who-Is
    DISCOVERY_BROADCAST_PASSES,
    ObjectList,         \* object list of the browsed device: "device" stands for
                        \* its own Device object, "invalid" for an identifier out of range
    MAX_BROWSE_OBJECTS,
    RPM_OBJECT_CHUNK

BacnetScanAssumption ==
    /\ Targets \in Seq(STRING) /\ Targets # <<>> /\ IsInjective(Targets)
    /\ Strict \in BOOLEAN
    /\ DISCOVERY_BROADCAST_PASSES \in Nat \ {0}
    /\ ObjectList \in Seq(STRING)
    /\ MAX_BROWSE_OBJECTS \in Nat /\ RPM_OBJECT_CHUNK \in Nat \ {0}

VARIABLES
    job, at,
    clients,    \* interfaces with a client that was built and not stopped
    target,     \* position in Targets
    passes,     \* broadcasts made on this interface
    known,      \* devices in the table of the current client
    by_instance,\* devices collected so far
    warnings,   \* interfaces skipped, or chunks that fell back
    index,      \* position in the object list, then the entries described
    entries, points,
    outcome     \* "none" while the job runs

place   == <<target, passes>>
listing == <<index, entries, points>>
vars == <<job, at, clients, place, known, by_instance, warnings, listing, outcome>>

ScanInit ==
    /\ job = "none" /\ at = "idle" /\ outcome = "none"
    /\ clients = {} /\ target = 1 /\ passes = 0
    /\ known = {} /\ by_instance = {} /\ warnings = {}
    /\ index = 0 /\ entries = <<>> /\ points = <<>>

ScanEnds(r) == at' = "idle" /\ outcome' = r /\ UNCHANGED job

-----------------------------------------------------------------------------
(* discover *)

StartDiscover ==
    /\ job = "none"
    /\ job' = "discover" /\ at' = "bind"
    /\ UNCHANGED <<clients, place, known, by_instance, warnings, listing, outcome>>

BindTarget ==
    /\ job = "discover" /\ at = "bind" /\ target <= Len(Targets)
    /\ clients' = clients \cup {Targets[target]}
    /\ known' = {} /\ passes' = 0
    /\ at' = "broadcast"
    /\ UNCHANGED <<job, target, by_instance, warnings, listing, outcome>>

\* A failed bind ends a strict discovery, and is a warning otherwise.
BindFails ==
    /\ job = "discover" /\ at = "bind" /\ target <= Len(Targets)
    /\ IF Strict
       THEN ScanEnds("error") /\ UNCHANGED <<warnings, target>>
       ELSE /\ warnings' = warnings \cup {<<"bind", Targets[target]>>}
            /\ target' = target + 1
            /\ UNCHANGED <<job, at, outcome>>
    /\ UNCHANGED <<clients, passes, known, by_instance, listing>>

\* collect_devices: every device known by then, keyed by its instance; the reads
\* of its name, vendor and model may fail, the device is kept.
CollectDevices(devices) == by_instance' = by_instance \cup devices

\* One Who-Is, the wait, and the collection.
Broadcast(answers) ==
    /\ job = "discover" /\ at = "broadcast"
    /\ passes < DISCOVERY_BROADCAST_PASSES
    /\ passes' = passes + 1
    /\ known' = known \cup answers
    /\ CollectDevices(known')
    /\ UNCHANGED <<job, at, clients, target, warnings, listing, outcome>>

\* A Who-Is that cannot be sent ends the passes of this interface, as does the
\* last pass; the client is stopped.
NextTarget ==
    /\ job = "discover" /\ at = "broadcast"
    /\ clients' = clients \ {Targets[target]}
    /\ target' = target + 1
    /\ at' = "bind"
    /\ UNCHANGED <<job, passes, known, by_instance, warnings, listing, outcome>>

DiscoverReturns ==
    /\ job = "discover" /\ at = "bind" /\ target > Len(Targets)
    /\ ScanEnds("ok")
    /\ UNCHANGED <<clients, place, known, by_instance, warnings, listing>>

-----------------------------------------------------------------------------
(* browse and scan_objects *)

\* browse binds the configured interface; a failure ends it.
StartBrowse(bound) ==
    /\ job = "none"
    /\ job' = "browse"
    /\ IF bound THEN /\ clients' = {Targets[1]} /\ at' = "refresh" /\ UNCHANGED outcome
                ELSE /\ at' = "idle" /\ outcome' = "error" /\ UNCHANGED clients
    /\ UNCHANGED <<place, known, by_instance, warnings, listing>>

\* The refresh of the device table; its answer is not looked at.  On an error
\* browse returns at once and does not stop its client.
BrowseRefresh(good) ==
    /\ at = "refresh"
    /\ IF good THEN at' = "count" /\ UNCHANGED <<job, outcome>> ELSE ScanEnds("error")
    /\ UNCHANGED <<clients, place, known, by_instance, warnings, listing>>

truncated == Len(ObjectList) > MAX_BROWSE_OBJECTS

\* The length of the object list, and the warning if it exceeds the cap.
CountObjects(good) ==
    /\ at = "count"
    /\ IF good
       THEN /\ at' = "list"
            /\ warnings' = IF truncated THEN {<<"capped", 0>>} ELSE {}
            /\ UNCHANGED <<job, clients, outcome>>
       ELSE ScanEnds("error") /\ clients' = {} /\ UNCHANGED warnings
    /\ UNCHANGED <<place, known, by_instance, listing>>

Least(a, b) == IF a <= b THEN a ELSE b

ListLength ==
    Least(Len(ObjectList), MAX_BROWSE_OBJECTS)

\* One element of the list: unreadable ones and the Device object are left
\* out, an identifier that cannot be built ends the browse.
ReadElement(good) ==
    /\ at = "list" /\ index < ListLength
    /\ index' = index + 1
    /\ LET object == ObjectList[index + 1] IN
        IF good /\ object = "invalid"
        THEN ScanEnds("error") /\ clients' = {} /\ UNCHANGED entries
        ELSE /\ entries' = IF good /\ object # "device" THEN Append(entries, object) ELSE entries
             /\ UNCHANGED <<job, at, outcome, clients>>
    /\ UNCHANGED <<place, known, by_instance, warnings, points>>

ListRead ==
    /\ at = "list" /\ index = ListLength
    /\ at' = "describe" /\ index' = 0
    /\ UNCHANGED <<job, outcome, clients, place, known, by_instance, warnings, entries, points>>

\* The positions of the next chunk of entries.
ChunkEnd == Least(index + RPM_OBJECT_CHUNK, Len(entries))
Chunk    == index + 1..ChunkEnd

\* The texts that read_scalar finds: each is best effort.
Texts == SUBSET {"name", "description"}

\* discovered_point_from_object: the tag path is the description, else the
\* name, else made of type and instance.
Described(position, found) ==
    [object |-> entries[position],
     tag |-> IF "description" \in found THEN "description"
             ELSE IF "name" \in found THEN "name" ELSE "type"]

\* Mutant of DescribeChunk: a chunk whose multiple read failed is skipped.
DescribeChunkOrSkip(whole, found) ==
    /\ at = "describe" /\ index < Len(entries)
    /\ points' = IF whole THEN points \o [i \in 1..ChunkEnd - index |->
                                             Described(index + i, found[index + i])]
                          ELSE points
    /\ index' = ChunkEnd
    /\ warnings' = IF whole THEN warnings ELSE warnings \cup {<<"fallback", index>>}
    /\ UNCHANGED <<job, at, outcome, clients, place, known, by_instance, entries>>

\* Every entry of the chunk becomes a point, with the texts that the multiple
\* read, or after its failure the single reads, found for it.
DescribeChunk(whole, found) ==
    /\ at = "describe" /\ index < Len(entries)
    /\ points' = points \o [i \in 1..ChunkEnd - index |->
                                Described(index + i, found[index + i])]
    /\ index' = ChunkEnd
    /\ warnings' = IF whole THEN warnings ELSE warnings \cup {<<"fallback", index>>}
    /\ UNCHANGED <<job, at, outcome, clients, place, known, by_instance, entries>>

BrowseReturns ==
    /\ at = "describe" /\ index = Len(entries)
    /\ ScanEnds("ok")
    /\ clients' = {}
    /\ UNCHANGED <<place, known, by_instance, warnings, listing>>

-----------------------------------------------------------------------------
Discover ==
    \/ StartDiscover \/ BindTarget \/ BindFails
    \/ \E answers \in SUBSET Instances : Broadcast(answers)
    \/ NextTarget \/ DiscoverReturns

Browse ==
    \/ \E good \in BOOLEAN :
        StartBrowse(good) \/ BrowseRefresh(good) \/ CountObjects(good) \/ ReadElement(good)
    \/ ListRead
    \/ \E whole \in BOOLEAN, found \in [Chunk -> Texts] :
        DescribeChunk(whole, found)
    \/ BrowseReturns

ScanNext == Discover \/ Browse

-----------------------------------------------------------------------------
(* Properties *)

\* A discovery that succeeds has collected every device of the last client it
\* listened on and has stopped all clients; a browse that succeeds lists each
\* entry of the capped object list that could be read once, in its order,
\* whichever chunks had to be read property by property.
ScanIsComplete ==
    outcome = "ok" =>
        /\ clients = {}
        /\ job = "discover" => known \subseteq by_instance
        /\ job = "browse" =>
            /\ Len(points) = Len(entries)
            /\ \A i \in DOMAIN points : points[i].object = entries[i]
            /\ <<"capped", 0>> \notin warnings => Len(ObjectList) <= MAX_BROWSE_OBJECTS
=============================================================================
