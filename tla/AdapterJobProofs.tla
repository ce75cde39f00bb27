--------------------------- MODULE AdapterJobProofs --------------------------
(***************************************************************************)
(* Proofs about the one-shot jobs of the adapters, for any object list,    *)
(* network, range of registers and address space.                          *)
(*                                                                         *)
(* BACnet: a discovery loses no device that answered and stops its clients *)
(* and a browse lists every object of the device, chunk by chunk, whether  *)
(* a chunk is read at once or object by object.                            *)
(*                                                                         *)
(* Modbus: the hosts that are probed are those of the configured network,  *)
(* a block of addresses that the powers of two make, and a browse leaves   *)
(* out only registers that failed or that follow a run of failures.        *)
(*                                                                         *)
(* OPC UA: a walk that ends without a warning has found the variables of   *)
(* every object within the depth.  The walk is breadth first, and at any   *)
(* time it is between two depths (AtDepth).                                *)
(***************************************************************************)
EXTENDS Adapters, NumberFacts, SequenceTheorems, FiniteSetTheorems, TLAPS

-----------------------------------------------------------------------------
(* The jobs of the BACnet adapter. *)

Objects == {ObjectList[i] : i \in Nat}
FoundPoint == [object : Objects, tag : {"description", "name", "type"}]

\* A client is held between the bind of an interface and its last pass, and what it
\* knows has been collected.
DiscoverInv ==
    /\ known \subseteq by_instance
    /\ job = "discover" =>
        /\ at \in {"bind", "broadcast", "idle"}
        /\ clients = IF at = "broadcast" THEN {Targets[target]} ELSE {}

\* The points are those of the entries before the index.
BrowseInv ==
    job = "browse" =>
        /\ at \in {"refresh", "count", "list", "describe", "idle"}
        /\ at \in {"refresh", "count", "list"} => points = <<>> /\ index \in Nat
        /\ at \in {"refresh", "count"} => entries = <<>> /\ index = 0
        /\ entries \in Seq(Objects)
        /\ at \in {"list", "describe"} /\ BS!truncated => <<"capped", 0>> \in warnings
        /\ at = "describe" => /\ index \in 0..Len(entries)
                              /\ points \in Seq(FoundPoint) /\ Len(points) = index
                              /\ \A i \in 1..index : points[i].object = entries[i]

ScanInv ==
    /\ job \in {"none", "discover", "browse"}
    /\ job = "none" => /\ at = "idle" /\ outcome = "none" /\ clients = {}
                       /\ points = <<>> /\ entries = <<>> /\ index = 0
    /\ at # "idle" => outcome = "none"
    /\ DiscoverInv /\ BrowseInv
    /\ BS!ScanIsComplete

BacnetJobInv ==
    /\ role = "none" => protocol = "none"
    /\ protocol \in {"none", "bacnet"} => ScanInv

\* Before an adapter is built no job is under way.
LEMMA InitBacnetJob == Init => BacnetJobInv
<1> SUFFICES ASSUME Init PROVE ScanInv
  BY DEF BacnetJobInv, Init
<1>1. BS!ScanInit
  BY DEF Init
<1> QED
  BY <1>1 DEF BS!ScanInit, ScanInv, DiscoverInv, BrowseInv, BS!ScanIsComplete

scan == <<job, at, outcome, clients, target, known, by_instance, index, entries, points, warnings>>

\* Steps that leave the job alone keep the invariant.
LEMMA StutterKeepsScan == ScanInv /\ UNCHANGED scan => ScanInv'
BY DEF scan, ScanInv, DiscoverInv, BrowseInv, BS!ScanIsComplete, BS!truncated

\* Each step of a discovery keeps the invariant.
LEMMA BacnetDiscoverKeeps == ScanInv /\ BS!Discover => ScanInv'
<1> SUFFICES ASSUME ScanInv, BS!Discover PROVE ScanInv'
  OBVIOUS
<1>1. /\ job' = "discover"
      /\ job' # job => job = "none"
  BY DEF ScanInv, BS!Discover, BS!StartDiscover, BS!BindTarget, BS!BindFails, BS!Broadcast,
         BS!NextTarget, BS!DiscoverReturns, BS!ScanEnds
<1>2. BrowseInv'
  BY <1>1 DEF BrowseInv
<1>3. DiscoverInv'
  <2>1. CASE BS!StartDiscover
    BY <2>1 DEF BS!StartDiscover, ScanInv, DiscoverInv
  <2>2. CASE BS!BindTarget
    BY <2>2 DEF BS!BindTarget, ScanInv, DiscoverInv
  <2>3. CASE BS!BindFails
    BY <2>3 DEF BS!BindFails, BS!ScanEnds, ScanInv, DiscoverInv
  <2>4. ASSUME NEW answers \in SUBSET Instances, BS!Broadcast(answers)
        PROVE  DiscoverInv'
    BY <2>4 DEF BS!Broadcast, BS!CollectDevices, ScanInv, DiscoverInv
  <2>5. CASE BS!NextTarget
    BY <2>5 DEF BS!NextTarget, ScanInv, DiscoverInv
  <2>6. CASE BS!DiscoverReturns
    BY <2>6 DEF BS!DiscoverReturns, BS!ScanEnds, ScanInv, DiscoverInv
  <2> QED
    BY <2>1, <2>2, <2>3, <2>4, <2>5, <2>6 DEF BS!Discover
<1>4. /\ outcome' = "ok" => BS!DiscoverReturns
      /\ at' # "idle" => outcome' = "none"
  BY DEF ScanInv, BS!Discover, BS!StartDiscover, BS!BindTarget, BS!BindFails, BS!Broadcast,
         BS!NextTarget, BS!DiscoverReturns, BS!ScanEnds
<1>5. BS!ScanIsComplete'
  <2>1. CASE BS!DiscoverReturns
    <3>1. clients' = {}
      BY <2>1 DEF BS!DiscoverReturns, ScanInv, DiscoverInv
    <3> QED
      BY <1>1, <1>3, <3>1 DEF DiscoverInv, BS!ScanIsComplete
  <2>2. CASE outcome' # "ok"
    BY <2>2 DEF BS!ScanIsComplete
  <2> QED
    BY <1>4, <2>1, <2>2
<1> QED
  BY <1>1, <1>2, <1>3, <1>4, <1>5 DEF ScanInv


\* What the proofs use of the constants.
LEMMA ScanConstants ==
    /\ ObjectList \in Seq(STRING) /\ Len(ObjectList) \in Nat
    /\ MAX_BROWSE_OBJECTS \in Nat /\ RPM_OBJECT_CHUNK \in Nat \ {0}
<1>1. /\ ObjectList \in Seq(STRING)
      /\ MAX_BROWSE_OBJECTS \in Nat /\ RPM_OBJECT_CHUNK \in Nat \ {0}
  BY AdaptersAssumption DEF AdaptersAssumption, BS!BacnetScanAssumption
<1> QED
  BY <1>1, LenProperties

\* One chunk: the points of the entries from the index on.
LEMMA ChunkDescribed ==
    ASSUME entries \in Seq(Objects), index \in 0..Len(entries), index < Len(entries),
           points \in Seq(FoundPoint), Len(points) = index,
           \A i \in 1..index : points[i].object = entries[i],
           NEW whole \in BOOLEAN, NEW found, BS!DescribeChunk(whole, found)
    PROVE  /\ index' \in 0..Len(entries)
           /\ points' \in Seq(FoundPoint) /\ Len(points') = index'
           /\ \A i \in 1..index' : points'[i].object = entries[i]
<1> DEFINE m == IF index + RPM_OBJECT_CHUNK <= Len(entries) THEN index + RPM_OBJECT_CHUNK ELSE Len(entries)
           n == m - index
           more == [i \in 1..n |-> BS!Described(index + i, found[index + i])]
<1>1. /\ Len(entries) \in Nat /\ DOMAIN entries = 1..Len(entries)
      /\ \A i \in 1..Len(entries) : entries[i] \in Objects
  <2> HIDE DEF Objects
  <2> QED
    BY LenProperties, ElementOfSeq
<1>2. m \in Nat /\ index < m /\ m <= Len(entries) /\ index \in Nat
  BY <1>1, ScanConstants
<1>3. BS!ChunkEnd = m
  BY DEF BS!ChunkEnd, BS!Least
<1>4. points' = points \o more /\ index' = m
  BY <1>3 DEF BS!DescribeChunk
<1> HIDE DEF m
<1>5. n \in Nat /\ index + n = m
  BY <1>2
<1> HIDE DEF n
<1>6. ASSUME NEW i \in 1..n
      PROVE  more[i] \in FoundPoint /\ more[i].object = entries[index + i]
  <2>1. index + i \in 1..Len(entries)
    BY <1>1, <1>2, <1>5
  <2>2. more[i] = [object |-> entries[index + i],
                   tag |-> IF "description" \in found[index + i] THEN "description"
                           ELSE IF "name" \in found[index + i] THEN "name" ELSE "type"]
    BY DEF BS!Described
  <2>3. entries[index + i] \in Objects
    BY <1>1, <2>1
  <2> HIDE DEF more
  <2> QED
    BY <2>2, <2>3 DEF FoundPoint
<1>7. more \in Seq(FoundPoint) /\ Len(more) = n
  <2>1. more \in [1..n -> FoundPoint]
    BY <1>6
  <2> HIDE DEF more, FoundPoint
  <2>2. more \in Seq(FoundPoint)
    BY <1>5, <2>1
  <2> QED
    BY <1>5, <2>1, <2>2, LenProperties
<1> HIDE DEF more
<1>8. /\ points' \in Seq(FoundPoint) /\ Len(points') = index + n
      /\ \A i \in 1..index : points'[i] = points[i]
      /\ \A i \in 1..n : points'[index + i] = more[i]
  <2> HIDE DEF FoundPoint
  <2> QED
    <3>1. /\ points \o more \in Seq(FoundPoint) /\ Len(points \o more) = Len(points) + Len(more)
          /\ \A i \in 1..Len(points) : (points \o more)[i] = points[i]
          /\ \A i \in 1..Len(more) : (points \o more)[Len(points) + i] = more[i]
      <4> DEFINE F == FoundPoint
      <4>1. points \in Seq(F) /\ more \in Seq(F)
        BY <1>7
      <4> HIDE DEF F
      <4>2. ASSUME NEW s \in Seq(F), NEW t \in Seq(F)
            PROVE  /\ s \o t \in Seq(F) /\ Len(s \o t) = Len(s) + Len(t)
                   /\ \A i \in 1..Len(s) : (s \o t)[i] = s[i]
                   /\ \A i \in 1..Len(t) : (s \o t)[Len(s) + i] = t[i]
        BY Joined
      <4>3. points \o more \in Seq(F)
        BY <4>1, <4>2, Zenon
      <4>4. Len(points \o more) = Len(points) + Len(more)
        BY <4>1, <4>2, Zenon
      <4>5. \A i \in 1..Len(points) : (points \o more)[i] = points[i]
        BY <4>1, <4>2, Zenon
      <4>6. \A i \in 1..Len(more) : (points \o more)[Len(points) + i] = more[i]
        BY <4>1, <4>2, Zenon
      <4> QED
        BY <4>3, <4>4, <4>5, <4>6 DEF F
    <3> QED
      BY <1>4, <1>7, <3>1, Zenon
<1>9. ASSUME NEW i \in 1..index'
      PROVE  points'[i].object = entries[i]
  <2>1. CASE i \in 1..index
    BY <2>1, <1>8
  <2>2. CASE i \notin 1..index
    <3>1. i - index \in 1..n /\ index + (i - index) = i
      BY <2>2, <1>2, <1>4, <1>5
    <3>2. points'[index + (i - index)] = more[i - index] /\ more[i - index].object = entries[index + (i - index)]
      BY <3>1, <1>6, <1>8
    <3> QED
      BY <3>1, <3>2
  <2> QED
    BY <2>1, <2>2
<1>10. index' \in 0..Len(entries)
  BY <1>1, <1>2, <1>4, <1>5
<1>11. Len(points') = index'
  BY <1>4, <1>5, <1>8
<1> HIDE DEF FoundPoint
<1> QED
  BY <1>8, <1>9, <1>10, <1>11

\* Each step of a browse keeps the invariant.
LEMMA BacnetBrowseKeeps == ScanInv /\ BS!Browse => ScanInv'
<1> SUFFICES ASSUME ScanInv, BS!Browse PROVE ScanInv'
  OBVIOUS
<1>0. known' = known /\ by_instance' = by_instance
  BY DEF BS!Browse, BS!StartBrowse, BS!BrowseRefresh, BS!CountObjects, BS!ReadElement, BS!ListRead,
         BS!DescribeChunk, BS!BrowseReturns, BS!listing
<1>1. job' = "browse" /\ DiscoverInv'
  BY <1>0 DEF ScanInv, DiscoverInv, BS!Browse, BS!StartBrowse, BS!BrowseRefresh, BS!CountObjects, BS!ReadElement,
         BS!ListRead, BS!DescribeChunk, BS!BrowseReturns, BS!ScanEnds
<1> SUFFICES /\ BrowseInv' /\ BS!ScanIsComplete'
             /\ at' # "idle" => outcome' = "none"
  BY <1>1 DEF ScanInv
<1>2. BS!truncated' = BS!truncated
  BY DEF BS!truncated
<1>3. \A good \in BOOLEAN : TRUE
  OBVIOUS
<1>4. <<>> \in Seq(Objects) /\ Len(<<>>) = 0
  OBVIOUS
<1>5. ASSUME NEW good \in BOOLEAN, BS!StartBrowse(good) \/ BS!BrowseRefresh(good)
      PROVE  /\ BrowseInv' /\ BS!ScanIsComplete'
             /\ at' # "idle" => outcome' = "none"
  <2>1. /\ at' \in {"refresh", "count", "idle"} /\ outcome' # "ok"
        /\ at' # "idle" => outcome' = "none"
        /\ UNCHANGED <<index, entries, points, warnings>>
    BY <1>5 DEF BS!StartBrowse, BS!BrowseRefresh, BS!ScanEnds, BS!listing, ScanInv
  <2>2. points = <<>> /\ entries = <<>> /\ index = 0
    BY <1>5 DEF BS!StartBrowse, BS!BrowseRefresh, ScanInv, BrowseInv, DiscoverInv
  <2> QED
    BY <2>1, <2>2, <1>4 DEF BrowseInv, BS!ScanIsComplete
<1>6. ASSUME NEW good \in BOOLEAN, BS!CountObjects(good)
      PROVE  /\ BrowseInv' /\ BS!ScanIsComplete'
             /\ at' # "idle" => outcome' = "none"
  <2>1. /\ job = "browse" /\ points = <<>> /\ entries = <<>> /\ index = 0 /\ outcome = "none"
        /\ UNCHANGED <<index, entries, points>>
    BY <1>6 DEF BS!CountObjects, BS!listing, ScanInv, BrowseInv, DiscoverInv
  <2>2. CASE good
    <3>1. at' = "list" /\ warnings' = (IF BS!truncated THEN {<<"capped", 0>>} ELSE {}) /\ outcome' = outcome
      BY <1>6, <2>2 DEF BS!CountObjects
    <3> QED
      BY <1>2, <1>4, <2>1, <3>1 DEF BrowseInv, BS!ScanIsComplete
  <2>3. CASE ~good
    <3>1. at' = "idle" /\ outcome' = "error"
      BY <1>6, <2>3 DEF BS!CountObjects, BS!ScanEnds
    <3> QED
      BY <1>4, <2>1, <3>1 DEF BrowseInv, BS!ScanIsComplete
  <2> QED
    BY <2>2, <2>3
<1>7. ASSUME NEW good \in BOOLEAN, BS!ReadElement(good)
      PROVE  /\ BrowseInv' /\ BS!ScanIsComplete'
             /\ at' # "idle" => outcome' = "none"
  <2>1. /\ job = "browse" /\ at = "list" /\ points = <<>> /\ outcome = "none" /\ index \in Nat
        /\ entries \in Seq(Objects)
        /\ UNCHANGED <<points, warnings>> /\ index' = index + 1
        /\ BS!truncated => <<"capped", 0>> \in warnings
    BY <1>7 DEF BS!ReadElement, ScanInv, BrowseInv, DiscoverInv
  <2>2. /\ at' \in {"list", "idle"} /\ outcome' \in {"none", "error"}
        /\ at' # "idle" => outcome' = "none"
    BY <1>7, <2>1 DEF BS!ReadElement, BS!ScanEnds
  <2>3. entries' \in Seq(Objects)
    <3>1. ObjectList[index + 1] \in Objects
      BY <2>1 DEF Objects
    <3> HIDE DEF Objects
    <3>2. Append(entries, ObjectList[index + 1]) \in Seq(Objects)
      BY <2>1, <3>1, AppendProperties
    <3> QED
      BY <1>7, <2>1, <3>2 DEF BS!ReadElement
  <2> QED
    BY <1>2, <2>1, <2>2, <2>3 DEF BrowseInv, BS!ScanIsComplete
<1>8. CASE BS!ListRead
  <2>1. /\ job = "browse" /\ points = <<>> /\ outcome = "none" /\ entries \in Seq(Objects)
        /\ UNCHANGED <<points, warnings, entries, outcome>> /\ index' = 0 /\ at' = "describe"
        /\ BS!truncated => <<"capped", 0>> \in warnings
    BY <1>8 DEF BS!ListRead, ScanInv, BrowseInv, DiscoverInv
  <2>2. Len(entries) \in Nat /\ <<>> \in Seq(FoundPoint) /\ Len(<<>>) = 0
    <3> HIDE DEF Objects
    <3> QED
      BY <2>1, LenProperties
  <2> QED
    BY <1>2, <2>1, <2>2 DEF BrowseInv, BS!ScanIsComplete
<1>9. ASSUME NEW whole \in BOOLEAN, NEW found, BS!DescribeChunk(whole, found)
      PROVE  /\ BrowseInv' /\ BS!ScanIsComplete'
             /\ at' # "idle" => outcome' = "none"
  <2>1. /\ job = "browse" /\ at = "describe" /\ outcome = "none" /\ entries \in Seq(Objects)
        /\ index \in 0..Len(entries) /\ index < Len(entries)
        /\ points \in Seq(FoundPoint) /\ Len(points) = index
        /\ \A i \in 1..index : points[i].object = entries[i]
        /\ UNCHANGED <<at, outcome, entries>>
        /\ BS!truncated => <<"capped", 0>> \in warnings
        /\ warnings \subseteq warnings'
    BY <1>9 DEF BS!DescribeChunk, ScanInv, BrowseInv, DiscoverInv
  <2>2. /\ index' \in 0..Len(entries)
        /\ points' \in Seq(FoundPoint) /\ Len(points') = index'
        /\ \A i \in 1..index' : points'[i].object = entries[i]
    BY <1>9, <2>1, ChunkDescribed
  <2> QED
    BY <1>2, <2>1, <2>2 DEF BrowseInv, BS!ScanIsComplete
<1>10. CASE BS!BrowseReturns
  <2>1. /\ job = "browse" /\ entries \in Seq(Objects)
        /\ index = Len(entries) /\ points \in Seq(FoundPoint) /\ Len(points) = index
        /\ \A i \in 1..index : points[i].object = entries[i]
        /\ UNCHANGED <<index, entries, points, warnings>>
        /\ at' = "idle" /\ outcome' = "ok" /\ clients' = {}
        /\ BS!truncated => <<"capped", 0>> \in warnings
    BY <1>10 DEF BS!BrowseReturns, BS!ScanEnds, BS!listing, ScanInv, BrowseInv, DiscoverInv
  <2>2. DOMAIN points = 1..index
    <3> HIDE DEF FoundPoint
    <3> QED
      BY <2>1, LenProperties
  <2>3. ~BS!truncated => Len(ObjectList) <= MAX_BROWSE_OBJECTS
    BY ScanConstants DEF BS!truncated
  <2> QED
    BY <1>1, <2>1, <2>2, <2>3 DEF BrowseInv, BS!ScanIsComplete
<1> QED
  BY <1>5, <1>6, <1>7, <1>8, <1>9, <1>10 DEF BS!Browse

\* Each step of any adapter keeps the invariant.
LEMMA BacnetJobKeeps == BacnetJobInv /\ [Next]_vars => BacnetJobInv'
<1> SUFFICES ASSUME BacnetJobInv, [Next]_vars PROVE BacnetJobInv'
  OBVIOUS
<1>1. ASSUME NEW id \in Configurable, NEW use \in {"worker", "job"}, Build(id, use)
      PROVE  BacnetJobInv'
  <2>1. UNCHANGED scan /\ role = "none" /\ role' # "none"
    BY <1>1 DEF Build, oneshot, bacnet_job, scan
  <2> QED
    BY <1>1, <2>1, StutterKeepsScan DEF BacnetJobInv, Build
<1>2. CASE BacnetJob
  BY <1>2, BacnetDiscoverKeeps, BacnetBrowseKeeps DEF BacnetJob, BS!ScanNext, Built, BacnetJobInv
<1>3. CASE BacnetWorker
  <2>1. UNCHANGED scan
    BY <1>3 DEF BacnetWorker, oneshot, bacnet_job, scan
  <2> QED
    BY <1>3, <2>1, StutterKeepsScan DEF BacnetWorker, Built, BacnetJobInv
<1>4. CASE ModbusWorker \/ ModbusJob \/ OpcuaWorker \/ OpcuaJob
  BY <1>4 DEF ModbusWorker, ModbusJob, OpcuaWorker, OpcuaJob, Built, BacnetJobInv
<1>5. CASE UNCHANGED vars
  <2>1. UNCHANGED <<scan, protocol, role>>
    BY <1>5 DEF vars, oneshot, bacnet_job, scan
  <2> QED
    BY <2>1, StutterKeepsScan DEF BacnetJobInv
<1> QED
  BY <1>1, <1>2, <1>3, <1>4, <1>5 DEF Next

\* A discovery that succeeds has collected what its clients knew and stopped them; a
\* browse that succeeds lists each entry it read once and in order, for any object
\* list, any cap and chunk size, and whichever reads failed.
THEOREM ScanCompleteAlways == Spec => []BacnetScanIsComplete
<1>1. BacnetJobInv => BacnetScanIsComplete
  BY DEF BacnetJobInv, ScanInv, BacnetScanIsComplete
<1> QED
  BY <1>1, InitBacnetJob, BacnetJobKeeps, PTL DEF Spec

-----------------------------------------------------------------------------
(* The powers of two that a network is made of. *)

IsPower(f) == f = [n \in 0..AddressBits |-> IF n = 0 THEN 1 ELSE 2 * f[n - 1]]

\* What the proofs use of the constants.
LEMMA HostConstants ==
    /\ AddressBits \in Nat /\ AddressBits # 0
    /\ Networks \subseteq [base : MS!Hosts, prefix : 0..AddressBits, single : BOOLEAN]
    /\ MaxHosts \in Nat
    /\ MaxRegister \in Nat /\ browse_start \in 0..MaxRegister /\ browse_count \in 1..MaxRegister
    /\ MAX_CONSECUTIVE_GAPS \in Nat /\ MAX_CONSECUTIVE_GAPS # 0
<1>1. MS!ModbusScanAssumption
  BY AdaptersAssumption DEF AdaptersAssumption
<1> QED
  BY <1>1 DEF MS!ModbusScanAssumption

\* Such a function starts with 1 and doubles.
LEMMA PowerSteps ==
    ASSUME NEW f, IsPower(f)
    PROVE  f[0] = 1 /\ \A n \in 1..AddressBits : f[n] = 2 * f[n - 1]
<1>1. \A n \in 0..AddressBits : f[n] = IF n = 0 THEN 1 ELSE 2 * f[n - 1]
  BY DEF IsPower
<1>2. 0 \in 0..AddressBits /\ \A n \in 1..AddressBits : n \in 0..AddressBits /\ n # 0
  BY HostConstants
<1> QED
  BY <1>1, <1>2

\* There is such a function, and PowerOfTwo is one.
LEMMA PowerDef == IsPower(MS!PowerOfTwo)
<1> DEFINE step == [n \in 1..AddressBits |-> [x \in Nat |-> 2 * x]]
<1>1. AddressBits \in Nat /\ 1 \in Nat
  BY HostConstants
<1>2. \E f : IsPower(f)
  <2>1. step \in [1..AddressBits -> [Nat -> Nat]]
    OBVIOUS
  <2>2. PICK f \in [0..AddressBits -> Nat] : Steps(f, 1, step, AddressBits)
    <3> HIDE DEF step
    <3> QED
      BY <1>1, <2>1, Recursion, Zenon
  <2>3. ASSUME NEW n \in 1..AddressBits
        PROVE  f[n] = 2 * f[n - 1]
    <3>1. f[n - 1] \in Nat
      BY <1>1
    <3> QED
      BY <2>2, <3>1 DEF Steps
  <2>4. f[0] = 1
    BY <2>2 DEF Steps
  <2>5. ASSUME NEW n \in 0..AddressBits
        PROVE  f[n] = IF n = 0 THEN 1 ELSE 2 * f[n - 1]
    <3>1. n # 0 => n \in 1..AddressBits
      BY <1>1
    <3> QED
      BY <3>1, <2>3, <2>4
  <2>6. IsPower(f)
    BY <2>5 DEF IsPower
  <2> QED
    BY <2>6
<1>3. MS!PowerOfTwo = CHOOSE f : IsPower(f)
  BY DEF IsPower, MS!PowerOfTwo
<1> QED
  BY <1>2, <1>3

\* A product of sums of ones, as arithmetic.
LEMMA Doubling ==
    ASSUME NEW a \in Nat, NEW b \in Nat, NEW c \in Nat, c = a * b
    PROVE  2 * c = (2 * a) * b
OBVIOUS

\* 2^n is positive, and 2^n * 2^(k) is 2^(n + k).
LEMMA PowerFacts ==
    /\ MS!PowerOfTwo[0] = 1
    /\ \A n \in 0..AddressBits : MS!PowerOfTwo[n] \in Nat /\ MS!PowerOfTwo[n] >= 1
    /\ \A n \in 1..AddressBits : MS!PowerOfTwo[n] = 2 * MS!PowerOfTwo[n - 1]
    /\ \A k \in 0..AddressBits : \A n \in 0..(AddressBits - k) :
          MS!PowerOfTwo[n + k] = MS!PowerOfTwo[n] * MS!PowerOfTwo[k]
<1> DEFINE P == MS!PowerOfTwo
<1>1. P[0] = 1 /\ \A n \in 1..AddressBits : P[n] = 2 * P[n - 1]
  BY PowerDef, PowerSteps, Zenon
<1>2. AddressBits \in Nat
  BY HostConstants
<1> HIDE DEF P
<1>3. \A n \in 0..AddressBits : P[n] \in Nat /\ P[n] >= 1
  <2> DEFINE T == {n \in 0..AddressBits : P[n] \in Nat /\ P[n] >= 1}
  <2>1. 0 \in T
    BY <1>1, <1>2
  <2>2. ASSUME NEW n \in 0..(AddressBits - 1), n \in T
        PROVE  n + 1 \in T
    <3>1. n + 1 \in 1..AddressBits /\ (n + 1) - 1 = n /\ n + 1 \in 0..AddressBits
      BY <1>2
    <3>2. P[n + 1] = 2 * P[n] /\ P[n] \in Nat /\ P[n] >= 1
      BY <1>1, <2>2, <3>1
    <3> QED
      BY <3>1, <3>2
  <2>3. \A n \in 0..AddressBits : n \in T
    <3> HIDE DEF T
    <3> QED
      BY <1>2, <2>1, <2>2, Induction
  <2> QED
    BY <2>3
<1>4. ASSUME NEW k \in 0..AddressBits
      PROVE  \A n \in 0..(AddressBits - k) : P[n + k] = P[n] * P[k]
  <2> DEFINE T == {n \in 0..(AddressBits - k) : P[n + k] = P[n] * P[k]}
  <2>0. AddressBits - k \in Nat /\ P[k] \in Nat /\ 0 + k = k
    BY <1>2, <1>3
  <2>1. 0 \in T
    <3>1. P[k] = 1 * P[k]
      BY <2>0
    <3> QED
      BY <1>1, <2>0, <3>1
  <2>2. ASSUME NEW n \in 0..((AddressBits - k) - 1), n \in T
        PROVE  n + 1 \in T
    <3>1. /\ n + 1 \in 1..AddressBits /\ (n + 1) - 1 = n /\ n \in 0..AddressBits
          /\ (n + 1) + k \in 1..AddressBits /\ ((n + 1) + k) - 1 = n + k
          /\ n + k \in 0..AddressBits /\ n + 1 \in 0..(AddressBits - k)
      BY <1>2
    <3>2. P[n + 1] = 2 * P[n] /\ P[(n + 1) + k] = 2 * P[n + k]
      BY <1>1, <3>1
    <3>3. P[n + k] = P[n] * P[k]
      BY <2>2
    <3>4. P[n] \in Nat /\ P[n + k] \in Nat
      BY <1>3, <3>1
    <3>5. 2 * P[n + k] = (2 * P[n]) * P[k]
      BY <2>0, <3>3, <3>4, Doubling
    <3> QED
      BY <3>1, <3>2, <3>5
  <2>3. \A n \in 0..(AddressBits - k) : n \in T
    <3> HIDE DEF T
    <3> QED
      BY <2>0, <2>1, <2>2, Induction
  <2> QED
    BY <2>3
<1> QED
  BY <1>1, <1>3, <1>4 DEF P

-----------------------------------------------------------------------------
(* The addresses of a network. *)

\* What is left of a number is less than the divisor.
LEMMA Division ==
    ASSUME NEW x \in Nat, NEW s \in Nat, s >= 1
    PROVE  /\ x \div s \in Nat /\ x % s = x - s * (x \div s)
           /\ s * (x \div s) <= x /\ x < s * (x \div s) + s
<1>1. x \div s \in Nat
  OBVIOUS
<1>2. x % s = x - s * (x \div s)
  OBVIOUS
<1>3. s * (x \div s) <= x /\ x < s * (x \div s) + s
  OBVIOUS
<1> QED
  BY <1>1, <1>2, <1>3

\* A quotient is known by its bounds.
LEMMA Quotient ==
    ASSUME NEW x \in Nat, NEW s \in Nat, s >= 1, NEW b \in Nat
    PROVE  x \div s = b <=> s * b <= x /\ x < s * b + s
<1>1. x \div s = b => s * b <= x /\ x < s * b + s
  OBVIOUS
<1>2. s * b <= x /\ x < s * b + s => x \div s = b
  OBVIOUS
<1> QED
  BY <1>1, <1>2

\* A number below the divisor is its own remainder.
LEMMA Remainder == ASSUME NEW x \in Nat, NEW s \in Nat, s >= 1, x < s PROVE x % s = x
OBVIOUS

\* A multiple is left alone when it is rounded down.
LEMMA WholeBlock ==
    ASSUME NEW q \in Nat, NEW s \in Nat, s >= 1, NEW b \in Nat, s * b < q * s
    PROVE  s * b \in Nat /\ s * b + s <= q * s
OBVIOUS

First(net) == MS!Size(net) * (net.base \div MS!Size(net))
Block(net) == {h \in MS!Hosts : h \div MS!Size(net) = net.base \div MS!Size(net)}

\* A network is one block of addresses, at a multiple of its size.
LEMMA BlockFacts ==
    ASSUME NEW net \in Networks
    PROVE  /\ MS!Size(net) \in Nat /\ MS!Size(net) >= 1
           /\ First(net) \in Nat /\ First(net) + MS!Size(net) <= MS!PowerOfTwo[AddressBits]
           /\ net.base - (net.base % MS!Size(net)) = First(net)
           /\ Block(net) = First(net)..(First(net) + MS!Size(net) - 1)
<1> DEFINE A == MS!PowerOfTwo[AddressBits]
           S == MS!PowerOfTwo[AddressBits - net.prefix]
           Q == MS!PowerOfTwo[net.prefix]
           b == net.base \div S
<1>1. net.base \in MS!Hosts /\ net.prefix \in 0..AddressBits /\ AddressBits \in Nat
  BY HostConstants
<1>2. /\ AddressBits - net.prefix \in 0..AddressBits
      /\ net.prefix \in 0..(AddressBits - (AddressBits - net.prefix))
      /\ net.prefix + (AddressBits - net.prefix) = AddressBits
      /\ AddressBits \in 0..AddressBits
  BY <1>1
<1>3. /\ A \in Nat /\ S \in Nat /\ Q \in Nat /\ S >= 1 /\ A = Q * S
  BY <1>1, <1>2, PowerFacts
<1>4. MS!Size(net) = S
  BY DEF MS!Size, MS!host_bits
<1>5. net.base \in Nat /\ net.base < A
  BY <1>1, <1>3 DEF MS!Hosts
<1>6. First(net) = S * b /\ Block(net) = {h \in 0..A - 1 : h \div S = b}
  BY <1>4 DEF First, Block, MS!Hosts
<1> HIDE DEF A, S, Q
<1>7. /\ b \in Nat /\ net.base % S = net.base - S * b
      /\ S * b <= net.base /\ net.base < S * b + S
  BY <1>3, <1>5, Division
<1> HIDE DEF b
<1>8. S * b \in Nat
  BY <1>3, <1>7
<1>9. S * b < Q * S
  BY <1>3, <1>5, <1>7, <1>8
<1>10. S * b + S <= A
  BY <1>3, <1>7, <1>9, WholeBlock
<1>11. net.base - (net.base % S) = S * b
  BY <1>5, <1>7, <1>8
<1>12. {h \in 0..A - 1 : h \div S = b} = S * b..(S * b + S - 1)
  <2> DEFINE f == S * b
  <2>1. \A h \in Nat : h \div S = b <=> f <= h /\ h < f + S
    BY <1>3, <1>7, Quotient
  <2>2. f \in Nat /\ f + S <= A
    BY <1>8, <1>10
  <2> HIDE DEF f
  <2>3. {h \in 0..A - 1 : h \div S = b} = f..(f + S - 1)
    BY <1>3, <2>1, <2>2
  <2> QED
    BY <2>3 DEF f
<1> QED
  BY <1>3, <1>4, <1>6, <1>8, <1>10, <1>11, <1>12 DEF A

Cap(net) == MS!Least(MS!Greatest(MaxHosts, 1), MS!total(net))

\* The cap leaves out no address of a network that fits, but the last of a /0 network.
LEMMA CapFacts ==
    ASSUME NEW net \in Networks
    PROVE  /\ Cap(net) \in Nat /\ Cap(net) >= 1 /\ Cap(net) <= MS!Size(net)
           /\ MS!Size(net) <= MaxHosts =>
                 MS!Size(net) - Cap(net) <= IF net.prefix = 0 THEN 1 ELSE 0
<1>1. MaxHosts \in Nat /\ AddressBits \in Nat /\ AddressBits # 0
  BY HostConstants
<1>2. MS!Size(net) \in Nat /\ MS!Size(net) >= 1
  BY BlockFacts
<1>3. CASE net.prefix = 0
  <2>1. MS!Size(net) = MS!PowerOfTwo[AddressBits]
    BY <1>1, <1>3 DEF MS!Size, MS!host_bits
  <2>2. MS!PowerOfTwo[AddressBits] >= 2
    <3>1. AddressBits \in 1..AddressBits /\ AddressBits - 1 \in 0..AddressBits
      BY <1>1
    <3> QED
      BY <3>1, PowerFacts
  <2>3. MS!total(net) = MS!Size(net) - 1
    BY <1>3, <2>1 DEF MS!total
  <2>4. MS!Size(net) >= 2
    BY <2>1, <2>2
  <2> QED
    BY <1>1, <1>2, <1>3, <2>3, <2>4 DEF Cap, MS!Least, MS!Greatest
<1>4. CASE net.prefix # 0
  <2>1. MS!total(net) = MS!Size(net)
    BY <1>4 DEF MS!total
  <2> QED
    BY <1>1, <1>2, <1>4, <2>1 DEF Cap, MS!Least, MS!Greatest
<1> QED
  BY <1>3, <1>4

\* The chosen addresses are the first ones of the block: no offset wraps around.
LEMMA ChosenFacts ==
    ASSUME NEW net \in Networks
    PROVE  MS!expand_cidr(net) = First(net)..(First(net) + Cap(net) - 1)
<1> DEFINE A == MS!PowerOfTwo[AddressBits]
           f == First(net)
           c == Cap(net)
<1>1. /\ f \in Nat /\ c \in Nat /\ c >= 1 /\ A \in Nat /\ f + c <= A
  <2>1. AddressBits \in 0..AddressBits
    BY HostConstants
  <2> QED
    BY <2>1, BlockFacts, CapFacts, PowerFacts
<1>2. MS!expand_cidr(net) = {(f + offset) % A : offset \in 0..c - 1}
  BY BlockFacts DEF MS!expand_cidr, Cap
<1> HIDE DEF A, f, c
<1>3. ASSUME NEW offset \in 0..c - 1
      PROVE  (f + offset) % A = f + offset
  <2>1. f + offset \in Nat /\ A >= 1 /\ f + offset < A
    BY <1>1
  <2> QED
    BY <1>1, <2>1, Remainder
<1>4. {(f + offset) % A : offset \in 0..c - 1} = {f + offset : offset \in 0..c - 1}
  BY <1>3
<1>5. {f + offset : offset \in 0..c - 1} = f..(f + c - 1)
  <2>1. ASSUME NEW h \in f..(f + c - 1)
        PROVE  \E offset \in 0..c - 1 : h = f + offset
    <3>1. h - f \in 0..c - 1 /\ h = f + (h - f)
      BY <1>1
    <3> QED
      BY <3>1
  <2>2. ASSUME NEW offset \in 0..c - 1
        PROVE  f + offset \in f..(f + c - 1)
    BY <1>1
  <2> QED
    BY <2>1, <2>2
<1> QED
  BY <1>2, <1>4, <1>5 DEF f, c

\* An interval of numbers has as many elements as its bounds say.
LEMMA Width ==
    ASSUME NEW i \in Nat, NEW k \in Nat
    PROVE  Cardinality(i..(i + k - 1)) = k
<1> DEFINE j == i + k - 1
<1>1. i \in Int /\ j \in Int
  OBVIOUS
<1>2. Cardinality(i..j) = IF i > j THEN 0 ELSE j - i + 1
  <2> HIDE DEF j
  <2> QED
    BY <1>1, FS_Interval
<1> QED
  BY <1>2

\* The first addresses of a network are addresses of it, all of them if they fit
\* the cap, but for the last one of all addresses.
LEMMA TargetsOfNetwork ==
    ASSUME NEW net \in Networks
    PROVE  /\ MS!expand_cidr(net) \subseteq MS!Hosts
           /\ MS!expand_cidr(net) # {}
           /\ MS!expand_cidr(net) \subseteq Block(net)
           /\ MS!Cardinality(Block(net)) <= MaxHosts =>
                MS!Cardinality(Block(net) \ MS!expand_cidr(net)) <= IF net.prefix = 0 THEN 1 ELSE 0
<1> DEFINE f == First(net)
           s == MS!Size(net)
           c == Cap(net)
<1>1. /\ f \in Nat /\ s \in Nat /\ c \in Nat /\ c >= 1 /\ c <= s
      /\ s <= MaxHosts => s - c <= IF net.prefix = 0 THEN 1 ELSE 0
  BY BlockFacts, CapFacts
<1>2. Block(net) = f..(f + s - 1) /\ MS!expand_cidr(net) = f..(f + c - 1)
  BY BlockFacts, ChosenFacts
<1> HIDE DEF f, s, c
<1>3. f..(f + c - 1) \subseteq f..(f + s - 1) /\ f \in f..(f + c - 1)
  BY <1>1
<1>4. (f..(f + s - 1)) \ (f..(f + c - 1)) = (f + c)..((f + c) + (s - c) - 1)
  BY <1>1
<1>5. Cardinality(f..(f + s - 1)) = s
  BY <1>1, Width
<1>6. Cardinality((f + c)..((f + c) + (s - c) - 1)) = s - c
  <2>1. f + c \in Nat /\ s - c \in Nat
    BY <1>1
  <2> HIDE DEF f, s, c
  <2> QED
    BY <2>1, Width
<1>7. Block(net) \subseteq MS!Hosts
  BY DEF Block
<1>8. \A T : MS!Cardinality(T) = Cardinality(T)
  <2> TAKE T
  <2> QED
    BY DEF MS!Cardinality, Cardinality
<1>9. MS!Cardinality(Block(net)) = s /\ MS!Cardinality(Block(net) \ MS!expand_cidr(net)) = s - c
  BY <1>2, <1>4, <1>5, <1>6, <1>8, Zenon
<1> QED
  BY <1>1, <1>2, <1>3, <1>7, <1>9

-----------------------------------------------------------------------------
(* The jobs of the Modbus adapter. *)

Chosen == {h \in MS!Hosts : stage[h] # "out"}

\* The hosts of a discovery are those its network was expanded to.
ProbeInv ==
    /\ DOMAIN stage = MS!Hosts
    /\ job = "discover" /\ network # MS!NoNetwork =>
         network \in Networks /\ Chosen = MS!expand_cidr(network)
    /\ job = "none" => network = MS!NoNetwork

\* A register of a table was read, or is excused by a run of failures before it.
Excused(t, a) ==
    \E first \in browse_start..a - MAX_CONSECUTIVE_GAPS :
        \A k \in first..first + MAX_CONSECUTIVE_GAPS - 1 : <<t, k>> \in failed
Settled(t) == \A a \in browse_start..MS!End - 1 : <<t, a>> \in listed \cup failed \/ Excused(t, a)

\* The tables read before the current one.
Finished ==
    CASE register_table = "holding" -> {}
      [] register_table = "input" -> {"holding"}
      [] register_table = "coil" -> {"holding", "input"}
      [] register_table = "discrete" -> {"holding", "input", "coil"}
      [] OTHER -> MS!Tables

\* The addresses before the next one were read, the last of them, as many as there
\* are gaps, in vain.
GapInv ==
    job # "discover" =>
        /\ register_table \in MS!Tables \cup {"done"}
        /\ address \in Nat /\ gaps \in Nat /\ browse_start <= address - gaps
        /\ register_table \in MS!Tables =>
            /\ \A a \in browse_start..address - 1 : <<register_table, a>> \in listed \cup failed
            /\ \A a \in address - gaps..address - 1 : <<register_table, a>> \in failed
        /\ \A t \in Finished : Settled(t)
        /\ outcome = "ok" => register_table = "done"

JobTypes ==
    /\ job \in {"none", "discover", "browse"}
    /\ job = "none" => at = "idle"
    /\ at = "probing" => job = "discover"
    /\ at = "reading" => job = "browse"
    /\ at = "idle" \/ outcome = "none"
    /\ job = "none" => outcome = "none"

RegisterInv == JobTypes /\ ProbeInv /\ GapInv

ModbusJobInv ==
    /\ role = "none" => protocol = "none"
    /\ protocol \in {"none", "modbus"} => RegisterInv

registers == <<job, at, outcome, network, stage, register_table, address, gaps, listed, failed>>

\* Steps that leave the job alone keep the invariant.
LEMMA StutterKeepsRegisters == RegisterInv /\ UNCHANGED registers => RegisterInv'
BY DEF registers, RegisterInv, JobTypes, ProbeInv, GapInv, Chosen, Finished, Settled, Excused

\* Before an adapter is built no job is under way.
LEMMA InitRegisters == Init => ModbusJobInv
<1> SUFFICES ASSUME Init PROVE RegisterInv
  BY DEF ModbusJobInv, Init
<1>1. MS!ScanInit
  BY DEF Init
<1>2. JobTypes /\ ProbeInv
  BY <1>1 DEF MS!ScanInit, JobTypes, ProbeInv
<1>3. GapInv
  <2>1. /\ register_table = "holding" /\ address = browse_start /\ gaps = 0 /\ outcome = "none"
        /\ browse_start \in Nat
    BY <1>1, HostConstants DEF MS!ScanInit
  <2>2. Finished = {}
    BY <2>1 DEF Finished
  <2>3. browse_start..(address - 1) = {} /\ (address - gaps)..(address - 1) = {}
    BY <2>1
  <2> QED
    BY <2>1, <2>2, <2>3 DEF GapInv, MS!Tables
<1> QED
  BY <1>2, <1>3 DEF RegisterInv

\* A probe that goes on neither adds a host nor drops one.
LEMMA ProbeGoesOn ==
    ASSUME RegisterInv, NEW h \in MS!Hosts, NEW from, NEW to,
           MS!Advance(h, from, to), from # "out", to # "out"
    PROVE  RegisterInv'
<1>1. /\ job = "discover" /\ UNCHANGED <<job, at, outcome, network, register_table>>
      /\ stage[h] = from /\ stage' = [stage EXCEPT ![h] = to]
      /\ DOMAIN stage = MS!Hosts
  BY DEF MS!Advance, RegisterInv, ProbeInv, MS!browsed
<1>2. DOMAIN stage' = MS!Hosts /\ \A g \in MS!Hosts : stage'[g] = IF g = h THEN to ELSE stage[g]
  BY <1>1
<1>3. Chosen' = Chosen
  BY <1>1, <1>2 DEF Chosen
<1>4. JobTypes' /\ GapInv'
  BY <1>1 DEF RegisterInv, JobTypes, GapInv
<1> QED
  BY <1>1, <1>2, <1>3, <1>4 DEF RegisterInv, ProbeInv

\* Each step of a discovery keeps the invariant.
LEMMA ProbesKeep == RegisterInv /\ MS!Discover => RegisterInv'
<1> SUFFICES ASSUME RegisterInv, MS!Discover PROVE RegisterInv'
  OBVIOUS
<1>1. ASSUME NEW net \in Networks, MS!StartDiscover(net)
      PROVE  RegisterInv'
  <2>1. /\ job' = "discover" /\ at' = "probing" /\ network' = net /\ outcome' = "none"
        /\ stage' = [h \in MS!Hosts |-> IF h \in MS!expand_cidr(net) THEN "queued" ELSE "out"]
    BY <1>1 DEF MS!StartDiscover, RegisterInv, JobTypes
  <2>2. MS!expand_cidr(net) \subseteq MS!Hosts
    BY TargetsOfNetwork
  <2> HIDE DEF MS!expand_cidr
  <2>3. Chosen' = MS!expand_cidr(net)
    BY <2>1, <2>2 DEF Chosen
  <2>4. MS!expand_cidr(network)' = MS!expand_cidr(net)
    BY <2>1
  <2> QED
    BY <2>1, <2>3 DEF RegisterInv, JobTypes, ProbeInv, GapInv
<1>2. ASSUME NEW h \in MS!Hosts, MS!StartProbe(h) PROVE RegisterInv'
  BY <1>2, ProbeGoesOn DEF MS!StartProbe
<1>3. ASSUME NEW h \in MS!Hosts, NEW good \in BOOLEAN, MS!ConnectHost(h, good) PROVE RegisterInv'
  BY <1>3, ProbeGoesOn DEF MS!ConnectHost
<1>4. ASSUME NEW h \in MS!Hosts, NEW t \in MS!Tables, NEW reply \in {"value", "exception", "error"},
             MS!ProbeTable(h, t, reply)
      PROVE RegisterInv'
  <2> DEFINE to == CASE reply = "value" -> "regular"
                     [] reply = "exception" -> MS!NextTable(t)
                     [] reply = "error" -> "gone"
  <2>1. MS!Advance(h, t, to)
    BY <1>4 DEF MS!ProbeTable
  <2>2. t # "out" /\ to # "out"
    BY DEF MS!Tables, MS!NextTable
  <2> HIDE DEF to
  <2> QED
    BY <2>1, <2>2, ProbeGoesOn
<1>5. ASSUME NEW h \in MS!Hosts, NEW c \in {"regular", "basic"},
             NEW reply \in {"value", "exception", "error"}, MS!Identify(h, c, reply)
      PROVE RegisterInv'
  BY <1>5, ProbeGoesOn DEF MS!Identify
<1>7. ASSUME NEW addresses \in Names, MS!StartDiscoverName(addresses)
      PROVE  RegisterInv'
  <2>1. /\ job = "none" /\ job' = "discover" /\ network' = network
        /\ stage' = [h \in MS!Hosts |-> IF h \in addresses THEN "queued" ELSE "out"]
        /\ \/ at' = "idle" /\ outcome' = "error"
           \/ at' = "probing" /\ outcome' = outcome
    BY <1>7 DEF MS!StartDiscoverName
  <2>2. JobTypes' /\ GapInv'
    BY <2>1 DEF RegisterInv, JobTypes, GapInv
  <2>3. ProbeInv'
    BY <2>1 DEF RegisterInv, ProbeInv, MS!NoNetwork
  <2> QED
    BY <2>2, <2>3 DEF RegisterInv
<1>6. CASE MS!DiscoverReturns
  <2>1. /\ job = "discover" /\ job' = job /\ at' = "idle"
        /\ UNCHANGED <<network, stage>>
    BY <1>6 DEF MS!DiscoverReturns, MS!ScanEnds, MS!probes, RegisterInv, JobTypes
  <2> QED
    BY <2>1 DEF RegisterInv, JobTypes, ProbeInv, GapInv, Chosen
<1> QED
  BY <1>1, <1>2, <1>3, <1>4, <1>5, <1>6, <1>7 DEF MS!Discover

\* Where a table ends, each of its registers was read or is excused.
LEMMA TableSettled ==
    ASSUME RegisterInv, job # "discover", register_table \in MS!Tables, MS!TableDone
    PROVE  Settled(register_table)
<1>1. /\ address \in Nat /\ gaps \in Nat /\ browse_start <= address - gaps /\ browse_start \in Nat
      /\ MAX_CONSECUTIVE_GAPS \in Nat
      /\ \A a \in browse_start..address - 1 : <<register_table, a>> \in listed \cup failed
      /\ \A a \in address - gaps..address - 1 : <<register_table, a>> \in failed
  BY HostConstants DEF RegisterInv, GapInv
<1>2. MS!End \in Int /\ (address >= MS!End \/ gaps >= MAX_CONSECUTIVE_GAPS)
  BY HostConstants DEF MS!End, MS!Least, MS!TableDone
<1> SUFFICES ASSUME NEW a \in browse_start..MS!End - 1, ~(a \in browse_start..address - 1)
             PROVE  Excused(register_table, a)
  BY <1>1 DEF Settled
<1>3. a >= address /\ gaps >= MAX_CONSECUTIVE_GAPS
  BY <1>1, <1>2
<1> DEFINE first == address - MAX_CONSECUTIVE_GAPS
<1>4. first \in browse_start..a - MAX_CONSECUTIVE_GAPS
  BY <1>1, <1>2, <1>3
<1>5. \A k \in first..first + MAX_CONSECUTIVE_GAPS - 1 : k \in address - gaps..address - 1
  BY <1>1, <1>3
<1> HIDE DEF first
<1> QED
  BY <1>1, <1>4, <1>5 DEF Excused

\* Each step of a browse keeps the invariant.
LEMMA RegistersKeep == RegisterInv /\ MS!Browse => RegisterInv'
<1> SUFFICES ASSUME RegisterInv, MS!Browse PROVE RegisterInv'
  OBVIOUS
<1>1. /\ UNCHANGED <<network, stage>> /\ job' = "browse" /\ job # "discover"
      /\ job = "none" \/ UNCHANGED job
  BY DEF MS!Browse, MS!StartBrowse, MS!ReadRegister, MS!StartTable, MS!BrowseReturns, MS!ScanEnds,
         MS!probes, RegisterInv, JobTypes
<1>2. ProbeInv'
  BY <1>1 DEF RegisterInv, ProbeInv, Chosen
<1>3. JobTypes'
  BY <1>1 DEF MS!Browse, MS!StartBrowse, MS!ReadRegister, MS!StartTable, MS!BrowseReturns, MS!ScanEnds,
         RegisterInv, JobTypes
<1>4. GapInv /\ browse_start \in Nat /\ MS!End' = MS!End
  BY HostConstants DEF RegisterInv, MS!End
<1>5. ASSUME NEW good \in BOOLEAN, MS!StartBrowse(good) PROVE GapInv'
  <2>1. UNCHANGED <<register_table, address, gaps, listed, failed>> /\ outcome' # "ok"
    BY <1>5 DEF MS!StartBrowse, MS!browsed, RegisterInv, JobTypes
  <2> QED
    BY <1>1, <1>4, <2>1 DEF GapInv, Finished, Settled, Excused
<1>6. ASSUME NEW good \in BOOLEAN, MS!ReadRegister(good) PROVE GapInv'
  <2>1. /\ address' = address + 1 /\ register_table' = register_table /\ register_table \in MS!Tables
        /\ outcome' = "none"
        /\ \/ listed' = listed \cup {<<register_table, address>>} /\ gaps' = 0 /\ failed' = failed
           \/ /\ failed' = failed \cup {<<register_table, address>>} /\ gaps' = gaps + 1
              /\ listed' = listed
    BY <1>6 DEF MS!ReadRegister, MS!ListPoint, RegisterInv, JobTypes
  <2>2. listed \subseteq listed' /\ failed \subseteq failed'
    BY <2>1
  <2>3. /\ address \in Nat /\ gaps \in Nat /\ browse_start <= address - gaps
        /\ \A a \in browse_start..address - 1 : <<register_table, a>> \in listed \cup failed
        /\ \A a \in address - gaps..address - 1 : <<register_table, a>> \in failed
    BY <1>1, <1>4, <2>1 DEF GapInv
  <2>4. \A t \in Finished' : Settled(t)'
    BY <1>1, <1>4, <2>1, <2>2 DEF GapInv, Finished, Settled, Excused
  <2>5. address' \in Nat /\ gaps' \in Nat /\ browse_start <= address' - gaps'
    BY <2>1, <2>3, <1>4
  <2>6. \A a \in browse_start..address' - 1 : <<register_table, a>> \in listed' \cup failed'
    <3> TAKE a \in browse_start..address' - 1
    <3>1. CASE a \in browse_start..address - 1
      BY <2>2, <2>3, <3>1
    <3>2. CASE a = address
      BY <2>1, <3>2
    <3> QED
      BY <2>1, <2>3, <1>4, <3>1, <3>2
  <2>7. \A a \in address' - gaps'..address' - 1 : <<register_table, a>> \in failed'
    <3>1. CASE gaps' = 0
      BY <2>1, <2>3, <3>1
    <3>2. CASE gaps' = gaps + 1
      <4> TAKE a \in address' - gaps'..address' - 1
      <4>1. CASE a \in address - gaps..address - 1
        BY <2>2, <2>3, <4>1
      <4>2. CASE a = address
        BY <2>1, <2>3, <3>2, <4>2
      <4> QED
        BY <2>1, <2>3, <3>2, <4>1, <4>2
    <3> QED
      BY <2>1, <3>1, <3>2
  <2>8. register_table' \in MS!Tables \cup {"done"} /\ (outcome' = "ok" => register_table' = "done")
    BY <2>1
  <2> QED
    BY <2>1, <2>4, <2>5, <2>6, <2>7, <2>8 DEF GapInv
<1>7. ASSUME MS!StartTable PROVE GapInv'
  <2>1. /\ register_table \in MS!Tables /\ MS!TableDone
        /\ register_table' = IF register_table = "discrete" THEN "done" ELSE MS!NextTable(register_table)
        /\ address' = browse_start /\ gaps' = 0 /\ outcome' = "none" /\ UNCHANGED <<listed, failed>>
    BY <1>7 DEF MS!StartTable, RegisterInv, JobTypes
  <2>2. Settled(register_table) /\ \A t \in Finished : Settled(t)
    BY <1>1, <1>4, <2>1, TableSettled DEF GapInv
  <2>3. /\ register_table' \in MS!Tables \cup {"done"}
        /\ Finished' = Finished \cup {register_table}
    BY <2>1 DEF Finished, MS!Tables, MS!NextTable
  <2>4. \A t \in Finished' : Settled(t)'
    BY <1>4, <2>1, <2>2, <2>3 DEF Settled, Excused
  <2>5. browse_start..address' - 1 = {} /\ address' - gaps'..address' - 1 = {}
    BY <1>4, <2>1
  <2>6. address' \in Nat /\ gaps' \in Nat /\ browse_start <= address' - gaps'
    BY <1>4, <2>1
  <2>7. outcome' # "ok"
    BY <2>1
  <2> QED
    BY <2>3, <2>4, <2>5, <2>6, <2>7 DEF GapInv
<1>8. ASSUME MS!BrowseReturns PROVE GapInv'
  <2>1. register_table = "done" /\ UNCHANGED <<register_table, address, gaps, listed, failed>>
    BY <1>8 DEF MS!BrowseReturns, MS!probes, MS!browsed
  <2>2. GapInv => GapInv'
    <3>1. Finished' = Finished
      BY <2>1 DEF Finished
    <3>2. \A t : Settled(t) => Settled(t)'
      BY <1>4, <2>1 DEF Settled, Excused
    <3> QED
      BY <1>1, <2>1, <3>1, <3>2 DEF GapInv
  <2> QED
    BY <1>4, <2>2
<1>9. GapInv'
  BY <1>5, <1>6, <1>7, <1>8 DEF MS!Browse
<1> QED
  BY <1>2, <1>3, <1>9 DEF RegisterInv

\* Each step of any adapter keeps the invariant.
LEMMA ModbusJobKeeps == ModbusJobInv /\ [Next]_vars => ModbusJobInv'
<1> SUFFICES ASSUME ModbusJobInv, [Next]_vars PROVE ModbusJobInv'
  OBVIOUS
<1>1. ASSUME NEW id \in Configurable, NEW use \in {"worker", "job"}, Build(id, use)
      PROVE  ModbusJobInv'
  <2>1. UNCHANGED registers /\ role = "none" /\ role' # "none"
    BY <1>1 DEF Build, oneshot, modbus_job, registers
  <2> QED
    BY <1>1, <2>1, StutterKeepsRegisters DEF ModbusJobInv, Build
<1>2. CASE ModbusJob
  BY <1>2, ProbesKeep, RegistersKeep DEF ModbusJob, MS!ScanNext, Built, ModbusJobInv
<1>3. CASE ModbusWorker
  <2>1. UNCHANGED registers
    BY <1>3 DEF ModbusWorker, oneshot, modbus_job, registers
  <2> QED
    BY <1>3, <2>1, StutterKeepsRegisters DEF ModbusWorker, Built, ModbusJobInv
<1>4. CASE BacnetWorker \/ BacnetJob \/ OpcuaWorker \/ OpcuaJob
  BY <1>4 DEF BacnetWorker, BacnetJob, OpcuaWorker, OpcuaJob, Built, ModbusJobInv
<1>5. CASE UNCHANGED vars
  <2>1. UNCHANGED <<registers, protocol, role>>
    BY <1>5 DEF vars, oneshot, modbus_job, registers
  <2> QED
    BY <2>1, StutterKeepsRegisters DEF ModbusJobInv
<1> QED
  BY <1>1, <1>2, <1>3, <1>4, <1>5 DEF Next

\* A discovery probes hosts of its network, at least one, and all that fit the cap but
\* the last of a /0 network, for any width of an address and any networks.
THEOREM TargetsAlways == Spec => []ModbusTargetsAreTheNetwork
<1>1. ModbusJobInv => ModbusTargetsAreTheNetwork
  <2> SUFFICES ASSUME RegisterInv, job = "discover", network # MS!NoNetwork
               PROVE  MS!TargetsAreTheNetwork
    BY DEF ModbusJobInv, ModbusTargetsAreTheNetwork, MS!TargetsAreTheNetwork
  <2>1. network \in Networks /\ MS!ChosenHosts = MS!expand_cidr(network)
    BY DEF RegisterInv, ProbeInv, MS!ChosenHosts, Chosen
  <2> QED
    BY <2>1, TargetsOfNetwork DEF MS!TargetsAreTheNetwork, Block
<1> QED
  BY <1>1, InitRegisters, ModbusJobKeeps, PTL DEF Spec

\* A browse that succeeds leaves out only registers whose read failed, or that follow a
\* full run of failures in the same table, for any range and length of a run.
THEOREM SkipsOnlyGapsAlways == Spec => []ModbusBrowseSkipsOnlyGaps
<1>1. ModbusJobInv => ModbusBrowseSkipsOnlyGaps
  <2> SUFFICES ASSUME RegisterInv, job = "browse", outcome = "ok"
               PROVE  MS!BrowseSkipsOnlyGaps
    BY DEF ModbusJobInv, ModbusBrowseSkipsOnlyGaps, MS!BrowseSkipsOnlyGaps
  <2>1. Finished = MS!Tables /\ \A t \in Finished : Settled(t)
    BY DEF RegisterInv, GapInv, Finished
  <2> QED
    BY <2>1 DEF MS!BrowseSkipsOnlyGaps, Settled, Excused
<1> QED
  BY <1>1, InitRegisters, ModbusJobKeeps, PTL DEF Spec

-----------------------------------------------------------------------------
(* What a walk can reach, for a given address space. *)

Ahead(space, n, class) == {r \in OS!ToSet(space[n]) : r.forward /\ r.class = class}

VariablesOf(space, n) == {r.target : r \in Ahead(space, n, "variable")}
ObjectsOf(space, n) == {r.target : r \in {q \in Ahead(space, n, "object") : q.namespace # 0}}

IsWithin(space, f) ==
    f = [k \in 0..MAX_BROWSE_DEPTH |->
            IF k = 0 THEN {Root}
            ELSE f[k - 1] \cup UNION {ObjectsOf(space, n) : n \in f[k - 1]}]
Near(space) == CHOOSE f : IsWithin(space, f)

\* What the proofs use of the constants.
LEMMA WalkConstants ==
    /\ Root \in Nodes /\ AddressSpaces \subseteq [Nodes -> Seq(OS!Reference)]
    /\ MAX_BROWSE_DEPTH \in Nat
<1>1. OS!OpcuaScanAssumption
  BY AdaptersAssumption DEF AdaptersAssumption
<1> QED
  BY <1>1 DEF OS!OpcuaScanAssumption

\* What the property calls within is near in the address space of the server.
LEMMA WithinIsNear == OS!Within = Near(references)
BY DEF OS!Within, Near, IsWithin, ObjectsOf, Ahead, OS!Forward

\* The recursive definition holds of it, and it stays among the nodes.
LEMMA NearFacts ==
    ASSUME NEW space \in AddressSpaces
    PROVE  /\ Near(space)[0] = {Root}
           /\ \A k \in 1..MAX_BROWSE_DEPTH : Near(space)[k] =
                 Near(space)[k - 1] \cup UNION {ObjectsOf(space, n) : n \in Near(space)[k - 1]}
           /\ \A k \in 0..MAX_BROWSE_DEPTH : Near(space)[k] \subseteq Nodes
<1>1. /\ MAX_BROWSE_DEPTH \in Nat /\ Root \in Nodes
      /\ \A n \in Nodes : space[n] \in Seq(OS!Reference)
  BY WalkConstants
<1>2. ASSUME NEW n \in Nodes
      PROVE  ObjectsOf(space, n) \subseteq Nodes
  <2>1. \A r \in OS!Reference : r.target \in Nodes
    BY DEF OS!Reference
  <2>2. OS!ToSet(space[n]) \subseteq OS!Reference
    <3>1. \A i \in DOMAIN space[n] : space[n][i] \in OS!Reference
      <4> HIDE DEF OS!Reference
      <4> QED
        BY <1>1, ElementOfSeq, LenProperties
    <3> HIDE DEF OS!Reference
    <3> QED
      BY <3>1 DEF OS!ToSet
  <2> HIDE DEF OS!Reference
  <2> QED
    BY <2>1, <2>2 DEF ObjectsOf, Ahead
<1> DEFINE S == SUBSET Nodes
           next(x) == x \cup UNION {ObjectsOf(space, n) : n \in x}
           step == [k \in 1..MAX_BROWSE_DEPTH |-> [x \in S |-> next(x)]]
<1>3. ASSUME NEW x \in S
      PROVE  next(x) \in S
  BY <1>2
<1>4. step \in [1..MAX_BROWSE_DEPTH -> [S -> S]] /\ {Root} \in S
  <2>1. {Root} \in S
    BY <1>1
  <2> HIDE DEF S, next
  <2> QED
    BY <1>3, <2>1
<1>5. \A k \in 1..MAX_BROWSE_DEPTH : \A x \in S : step[k][x] = next(x)
  OBVIOUS
<1> HIDE DEF step
<1>6. PICK g \in [0..MAX_BROWSE_DEPTH -> S] : Steps(g, {Root}, step, MAX_BROWSE_DEPTH)
  <2> HIDE DEF S
  <2> QED
    BY <1>1, <1>4, Recursion, Zenon
<1>7. g[0] = {Root} /\ \A k \in 1..MAX_BROWSE_DEPTH : g[k] = next(g[k - 1])
  <2>1. \A k \in 1..MAX_BROWSE_DEPTH : k - 1 \in 0..MAX_BROWSE_DEPTH
    BY <1>1
  <2> HIDE DEF S, next
  <2>2. \A k \in 1..MAX_BROWSE_DEPTH : g[k - 1] \in S /\ g[k] = step[k][g[k - 1]]
    BY <1>6, <2>1 DEF Steps
  <2>3. g[0] = {Root}
    BY <1>6 DEF Steps
  <2> QED
    BY <1>5, <2>2, <2>3
<1>8. IsWithin(space, g)
  <2>1. \A k \in 0..MAX_BROWSE_DEPTH : g[k] = IF k = 0 THEN {Root} ELSE next(g[k - 1])
    <3>1. \A k \in 0..MAX_BROWSE_DEPTH : k = 0 \/ k \in 1..MAX_BROWSE_DEPTH
      BY <1>1
    <3> HIDE DEF next
    <3> QED
      BY <1>7, <3>1
  <2>2. g = [k \in 0..MAX_BROWSE_DEPTH |-> g[k]]
    OBVIOUS
  <2>3. g = [k \in 0..MAX_BROWSE_DEPTH |-> IF k = 0 THEN {Root} ELSE next(g[k - 1])]
    <3> HIDE DEF next
    <3> QED
      BY <2>1, <2>2
  <2> QED
    BY <2>3 DEF IsWithin
<1>9. IsWithin(space, Near(space))
  BY <1>8 DEF Near
<1> DEFINE f == Near(space)
<1>10. \A k \in 0..MAX_BROWSE_DEPTH : f[k] = IF k = 0 THEN {Root} ELSE next(f[k - 1])
  BY <1>9 DEF IsWithin
<1> HIDE DEF f
<1>11. f[0] = {Root} /\ \A k \in 1..MAX_BROWSE_DEPTH : f[k] = next(f[k - 1])
  <2>1. 0 \in 0..MAX_BROWSE_DEPTH /\ \A k \in 1..MAX_BROWSE_DEPTH : k \in 0..MAX_BROWSE_DEPTH /\ k # 0
    BY <1>1
  <2> HIDE DEF next
  <2> QED
    BY <1>10, <2>1
<1>12. \A k \in 0..MAX_BROWSE_DEPTH : f[k] \in S
  <2> DEFINE T == {k \in 0..MAX_BROWSE_DEPTH : f[k] \in S}
  <2>1. 0 \in T
    BY <1>1, <1>11
  <2>2. ASSUME NEW k \in 0..(MAX_BROWSE_DEPTH - 1), k \in T
        PROVE  k + 1 \in T
    <3>1. k + 1 \in 1..MAX_BROWSE_DEPTH /\ (k + 1) - 1 = k /\ k + 1 \in 0..MAX_BROWSE_DEPTH
      BY <1>1
    <3> HIDE DEF S, next
    <3>2. f[k + 1] = next(f[k]) /\ f[k] \in S
      BY <1>11, <2>2, <3>1
    <3> QED
      BY <1>3, <3>1, <3>2
  <2>3. \A k \in 0..MAX_BROWSE_DEPTH : k \in T
    <3> HIDE DEF T
    <3> QED
      BY <1>1, <2>1, <2>2, Induction
  <2> QED
    BY <2>3
<1> QED
  BY <1>11, <1>12 DEF f

\* More steps lead further.
LEMMA NearGrows ==
    ASSUME NEW space \in AddressSpaces, NEW m \in 0..MAX_BROWSE_DEPTH
    PROVE  \A k \in 0..MAX_BROWSE_DEPTH : m <= k => Near(space)[m] \subseteq Near(space)[k]
<1>1. MAX_BROWSE_DEPTH \in Nat
  BY WalkConstants
<1> DEFINE f == Near(space)
           T == {k \in 0..MAX_BROWSE_DEPTH : m <= k => f[m] \subseteq f[k]}
<1>2. \A k \in 1..MAX_BROWSE_DEPTH : f[k - 1] \subseteq f[k]
  BY NearFacts
<1> HIDE DEF f
<1>3. 0 \in T
  BY <1>1
<1>4. ASSUME NEW k \in 0..(MAX_BROWSE_DEPTH - 1), k \in T
      PROVE  k + 1 \in T
  <2>1. k + 1 \in 1..MAX_BROWSE_DEPTH /\ (k + 1) - 1 = k /\ k + 1 \in 0..MAX_BROWSE_DEPTH
    BY <1>1
  <2>2. f[k] \subseteq f[k + 1]
    BY <1>2, <2>1
  <2>3. CASE m <= k
    BY <1>4, <2>1, <2>2, <2>3
  <2>4. CASE ~(m <= k)
    <3>1. m <= k + 1 => m = k + 1
      BY <2>4
    <3> QED
      BY <2>1, <3>1
  <2> QED
    BY <2>3, <2>4
<1>5. \A k \in 0..MAX_BROWSE_DEPTH : k \in T
  <2> HIDE DEF T
  <2> QED
    BY <1>1, <1>3, <1>4, Induction
<1> QED
  BY <1>5 DEF f

\* A set that contains what is near to some depth and is closed under the steps
\* from there contains what is near to any depth.
LEMMA NearClosed ==
    ASSUME NEW space \in AddressSpaces, NEW m \in 0..MAX_BROWSE_DEPTH,
           \A n \in Near(space)[m] : ObjectsOf(space, n) \subseteq Near(space)[m]
    PROVE  Near(space)[MAX_BROWSE_DEPTH] \subseteq Near(space)[m]
<1>1. MAX_BROWSE_DEPTH \in Nat
  BY WalkConstants
<1> DEFINE f == Near(space)
           T == {k \in 0..MAX_BROWSE_DEPTH : f[k] \subseteq f[m]}
<1>2. /\ \A k \in 1..MAX_BROWSE_DEPTH : f[k] = f[k - 1] \cup UNION {ObjectsOf(space, n) : n \in f[k - 1]}
      /\ 0 \in 0..MAX_BROWSE_DEPTH /\ f[0] \subseteq f[m]
  <2>1. 0 \in 0..MAX_BROWSE_DEPTH /\ 0 <= m
    BY <1>1
  <2> QED
    BY <2>1, NearFacts, NearGrows
<1> HIDE DEF f
<1>3. 0 \in T
  BY <1>2
<1>4. ASSUME NEW k \in 0..(MAX_BROWSE_DEPTH - 1), k \in T
      PROVE  k + 1 \in T
  <2>1. k + 1 \in 1..MAX_BROWSE_DEPTH /\ (k + 1) - 1 = k /\ k + 1 \in 0..MAX_BROWSE_DEPTH
    BY <1>1
  <2>2. f[k + 1] = f[k] \cup UNION {ObjectsOf(space, n) : n \in f[k]}
    BY <1>2, <2>1
  <2>3. \A n \in f[k] : ObjectsOf(space, n) \subseteq f[m]
    BY <1>4 DEF f
  <2> QED
    BY <1>4, <2>1, <2>2, <2>3
<1>5. MAX_BROWSE_DEPTH \in T
  <2>1. MAX_BROWSE_DEPTH \in 0..MAX_BROWSE_DEPTH
    BY <1>1
  <2> HIDE DEF T
  <2> QED
    BY <1>1, <1>3, <1>4, <2>1, Induction
<1> QED
  BY <1>5 DEF f

-----------------------------------------------------------------------------
(* The walk. *)

Queued == {frontier[i] : i \in 1..Len(frontier)}

\* The objects that are still to be read: those of the frontier, and the current one.
Pending == Queued \cup (IF at \in {"children", "process"} THEN {entry} ELSE {})

Entries == [node : Nodes, depth : 0..MAX_BROWSE_DEPTH]

\* A breadth-first walk at depth d: it has met what is near to d, and has still to read
\* some of the nodes at depth d, then those at depth d + 1 that it met already.  Every
\* other object it met has been read: its variables are among the points, its objects
\* were met.
AtDepth(d) ==
    /\ Near(references)[d] \subseteq visited
    /\ \A e \in Pending :
        /\ e.node \in visited /\ e.node \in Near(references)[e.depth]
        /\ e.depth = d \/ (e.depth = d + 1 /\ e.node \notin Near(references)[d])
    /\ \A n \in visited : n \in Near(references)[d] \/ \E e \in Pending : e.node = n /\ e.depth = d + 1
    /\ \A n \in visited :
        \/ \E e \in Pending : e.node = n
        \/ /\ VariablesOf(references, n) \subseteq OS!ToSet(points)
           /\ d < MAX_BROWSE_DEPTH => ObjectsOf(references, n) \subseteq visited
    /\ at \in {"children", "process"} => entry.depth = d

\* The frontier is in order of depth, and every point is a variable of an object that
\* was met.
Sound ==
    /\ references \in AddressSpaces
    /\ at \in {"next", "children", "process"} \/ frontier = <<>>
    /\ frontier \in Seq(Entries)
    /\ \A i, j \in 1..Len(frontier) : i < j => frontier[i].depth <= frontier[j].depth
    /\ at \in {"children", "process"} =>
        entry \in Entries /\ received \in 0..Len(references[entry.node])
    /\ at = "process" => received = Len(references[entry.node])
    /\ points \in Seq(Nodes)
    /\ \A x \in OS!ToSet(points) : \E n \in visited : x \in VariablesOf(references, n)
    /\ \E d \in 0..MAX_BROWSE_DEPTH : AtDepth(d)

WalkTypes ==
    /\ job \in {"none", "discover", "browse"}
    /\ job = "none" => at = "idle" /\ outcome = "none" /\ points = <<>> /\ received = 0
    /\ job = "discover" => at \in {"endpoints", "check", "idle"} /\ (outcome = "ok" => devices # {})
    /\ job = "browse" => at \in {"next", "children", "process", "preview", "idle"}
    /\ at = "idle" \/ outcome = "none"
    /\ at \in {"idle", "endpoints", "check"} => scan_connected = FALSE
    /\ at = "next" => received = 0

InFull == outcome # "error" /\ "capped" \notin warnings /\ ~cut

WalkInv == WalkTypes /\ (job = "browse" /\ InFull => Sound)

\* What is read of a chunk of references is within the depth: the walk that ends with
\* nothing to read has found the variables of everything near.
LEMMA AtTheEnd ==
    ASSUME Sound, at \notin {"next", "children", "process"}
    PROVE  OS!ToSet(points) =
              UNION {VariablesOf(references, n) : n \in Near(references)[MAX_BROWSE_DEPTH]}
<1>1. references \in AddressSpaces /\ MAX_BROWSE_DEPTH \in Nat
  BY WalkConstants DEF Sound
<1>2. PICK d \in 0..MAX_BROWSE_DEPTH : AtDepth(d)
  BY DEF Sound
<1>3. Pending = {}
  <2>1. frontier = <<>>
    BY DEF Sound
  <2>2. Len(frontier) = 0
    BY <2>1
  <2> QED
    BY <2>2 DEF Pending, Queued
<1>4. /\ visited = Near(references)[d]
      /\ \A n \in visited : VariablesOf(references, n) \subseteq OS!ToSet(points)
      /\ d < MAX_BROWSE_DEPTH => \A n \in visited : ObjectsOf(references, n) \subseteq visited
  BY <1>2, <1>3 DEF AtDepth
<1>5. Near(references)[MAX_BROWSE_DEPTH] = visited
  <2>1. CASE d = MAX_BROWSE_DEPTH
    BY <1>4, <2>1
  <2>2. CASE d < MAX_BROWSE_DEPTH
    <3>1. Near(references)[MAX_BROWSE_DEPTH] \subseteq visited
      BY <1>1, <1>4, <2>2, NearClosed
    <3>2. Near(references)[d] \subseteq Near(references)[MAX_BROWSE_DEPTH]
      BY <1>1, NearGrows
    <3> QED
      BY <1>4, <3>1, <3>2
  <2> QED
    BY <1>1, <2>1, <2>2
<1>6. \A x \in OS!ToSet(points) : \E n \in visited : x \in VariablesOf(references, n)
  BY DEF Sound
<1> QED
  BY <1>4, <1>5, <1>6

\* Where no object at depth d is left, the walk is at the next depth.
LEMMA NextDepth ==
    ASSUME references \in AddressSpaces, NEW d \in 0..MAX_BROWSE_DEPTH,
           d + 1 \in 0..MAX_BROWSE_DEPTH, AtDepth(d), at = "next",
           \A e \in Pending : e.depth # d
    PROVE  AtDepth(d + 1)
<1> DEFINE near == Near(references)
<1>1. /\ near[d + 1] = near[d] \cup UNION {ObjectsOf(references, n) : n \in near[d]}
      /\ d < MAX_BROWSE_DEPTH /\ MAX_BROWSE_DEPTH \in Nat /\ d \in Nat /\ d + 1 # d
  <2>1. d + 1 \in 1..MAX_BROWSE_DEPTH /\ (d + 1) - 1 = d /\ MAX_BROWSE_DEPTH \in Nat
    BY WalkConstants
  <2> QED
    BY <2>1, NearFacts
<1> HIDE DEF near
<1>2. /\ near[d] \subseteq visited
      /\ \A e \in Pending : /\ e.node \in visited /\ e.node \in near[e.depth]
                            /\ e.depth = d + 1 /\ e.node \notin near[d]
      /\ \A n \in visited : n \in near[d] \/ \E e \in Pending : e.node = n /\ e.depth = d + 1
      /\ \A n \in visited :
          \/ \E e \in Pending : e.node = n
          \/ /\ VariablesOf(references, n) \subseteq OS!ToSet(points)
             /\ ObjectsOf(references, n) \subseteq visited
  BY <1>1 DEF AtDepth, near
<1>3. near[d + 1] \subseteq visited
  <2>1. ASSUME NEW n \in near[d]
        PROVE  ObjectsOf(references, n) \subseteq visited
    <3>1. n \in visited /\ ~ \E e \in Pending : e.node = n
      BY <1>2
    <3> QED
      BY <1>2, <3>1
  <2> QED
    BY <1>1, <1>2, <2>1
<1>4. \A n \in visited : n \in near[d + 1]
  BY <1>1, <1>2
<1>5. \A e \in Pending : e.node \in visited /\ e.node \in near[e.depth] /\ e.depth = d + 1
  BY <1>2
<1>6. \A n \in visited :
          \/ \E e \in Pending : e.node = n
          \/ /\ VariablesOf(references, n) \subseteq OS!ToSet(points)
             /\ d + 1 < MAX_BROWSE_DEPTH => ObjectsOf(references, n) \subseteq visited
  BY <1>2
<1>7. at \notin {"children", "process"}
  OBVIOUS
<1> QED
  BY <1>3, <1>4, <1>5, <1>6, <1>7 DEF AtDepth, near

\* The next object is taken from the front: it is one of the least depth.
LEMMA PopKeeps ==
    ASSUME Sound, at = "next", frontier # <<>>,
           frontier' = Tail(frontier), entry' = Head(frontier), at' = "children", received' = received,
           received = 0,
           UNCHANGED <<references, visited, points>>
    PROVE  Sound'
<1>1. /\ references \in AddressSpaces /\ frontier \in Seq(Entries)
      /\ \A i, j \in 1..Len(frontier) : i < j => frontier[i].depth <= frontier[j].depth
      /\ MAX_BROWSE_DEPTH \in Nat
  BY WalkConstants DEF Sound
<1>2. /\ Head(frontier) = frontier[1] /\ Head(frontier) \in Entries
      /\ Tail(frontier) \in Seq(Entries) /\ Len(frontier) \in Nat /\ Len(frontier) >= 1
      /\ Len(Tail(frontier)) = Len(frontier) - 1
      /\ \A i \in 1..Len(Tail(frontier)) : Tail(frontier)[i] = frontier[i + 1]
  <2> HIDE DEF Entries
  <2>1. Head(frontier) \in Entries /\ Tail(frontier) \in Seq(Entries)
    BY <1>1, HeadTailProperties
  <2>2. Len(frontier) \in Nat /\ Len(frontier) >= 1 /\ Len(Tail(frontier)) = Len(frontier) - 1
    BY <1>1, HeadTailProperties, LenProperties, EmptySeq
  <2> QED
    BY <1>1, <2>1, <2>2, HeadTailProperties
<1> DEFINE first == frontier[1]
<1>3. first \in Entries /\ \A i \in 1..Len(frontier) : frontier[i] \in Entries /\ first.depth <= frontier[i].depth
  <2>1. \A i \in 1..Len(frontier) : frontier[i] \in Entries
    <3> HIDE DEF Entries
    <3> QED
      BY <1>1, ElementOfSeq
  <2>2. ASSUME NEW i \in 1..Len(frontier)
        PROVE  first.depth <= frontier[i].depth
    <3>1. CASE i = 1
      <4>1. first.depth \in Nat
        BY <1>1, <1>2 DEF Entries
      <4> QED
        BY <3>1, <4>1
    <3>2. CASE i # 1
      <4>1. 1 \in 1..Len(frontier) /\ 1 < i
        BY <1>2, <3>2
      <4> QED
        BY <1>1, <4>1
    <3> QED
      BY <3>1, <3>2
  <2> QED
    BY <1>2, <2>1, <2>2
<1>4. Pending = Queued /\ Pending' = Queued
  <2>1. Pending' = {Tail(frontier)[i] : i \in 1..Len(Tail(frontier))} \cup {first}
    BY <1>2 DEF Pending, Queued
  <2>2. \A i \in 1..Len(Tail(frontier)) : Tail(frontier)[i] = frontier[i + 1] /\ i + 1 \in 1..Len(frontier)
    BY <1>2
  <2>3. \A i \in 1..Len(frontier) : i = 1 \/ (i - 1 \in 1..Len(Tail(frontier)) /\ Tail(frontier)[i - 1] = frontier[i])
    <3> TAKE i \in 1..Len(frontier)
    <3>1. i # 1 => i - 1 \in 1..Len(Tail(frontier)) /\ (i - 1) + 1 = i
      BY <1>2
    <3> QED
      BY <1>2, <3>1
  <2>4. 1 \in 1..Len(frontier)
    BY <1>2
  <2> HIDE DEF first
  <2>5. Pending' \subseteq Queued
    BY <2>1, <2>2, <2>4 DEF Queued, first
  <2>6. Queued \subseteq Pending'
    BY <2>1, <2>3 DEF Queued, first
  <2> QED
    BY <2>5, <2>6 DEF Pending
<1>5. /\ first \in Pending
      /\ \A e \in Pending : e \in Entries /\ first.depth <= e.depth
  <2>1. 1 \in 1..Len(frontier)
    BY <1>2
  <2> QED
    BY <1>3, <1>4, <2>1 DEF Queued
<1>6. AtDepth(first.depth)
  <2>1. PICK d \in 0..MAX_BROWSE_DEPTH : AtDepth(d)
    BY DEF Sound
  <2>2. first.depth \in 0..MAX_BROWSE_DEPTH
    BY <1>3 DEF Entries
  <2>3. \A e \in Pending : e.depth = d \/ e.depth = d + 1
    BY <2>1 DEF AtDepth
  <2>4. CASE first.depth = d
    BY <2>1, <2>4
  <2>5. CASE first.depth = d + 1
    <3>1. \A e \in Pending : e.depth # d
      <4>1. \A e \in Pending : d + 1 <= e.depth
        BY <1>5, <2>5
      <4>2. ~(d + 1 <= d)
        OBVIOUS
      <4> QED
        BY <4>1, <4>2
    <3>2. d + 1 \in 0..MAX_BROWSE_DEPTH
      BY <2>2, <2>5
    <3> QED
      BY <1>1, <2>1, <2>5, <3>1, <3>2, NextDepth
  <2> QED
    BY <1>5, <2>3, <2>4, <2>5
<1>8. first.depth \in 0..MAX_BROWSE_DEPTH /\ first.node \in Nodes
  BY <1>3 DEF Entries
<1> PICK k \in 0..MAX_BROWSE_DEPTH : k = first.depth
  BY <1>8
<1>7. AtDepth(k)'
  <2>1. AtDepth(k)
    BY <1>6
  <2>2. entry'.depth = k /\ Pending' = Pending
    BY <1>2, <1>4
  <2> HIDE DEF first
  <2> QED
    BY <2>1, <2>2 DEF AtDepth
<1>9. \A i, j \in 1..Len(frontier') : i < j => frontier'[i].depth <= frontier'[j].depth
  <2> SUFFICES ASSUME NEW i \in 1..Len(Tail(frontier)), NEW j \in 1..Len(Tail(frontier)), i < j
               PROVE  Tail(frontier)[i].depth <= Tail(frontier)[j].depth
    OBVIOUS
  <2>1. i + 1 \in 1..Len(frontier) /\ j + 1 \in 1..Len(frontier) /\ i + 1 < j + 1
    BY <1>2
  <2> QED
    BY <1>1, <1>2, <2>1
<1>10. entry' \in Entries /\ received' \in 0..Len(references'[entry'.node])
  <2>1. references[first.node] \in Seq(OS!Reference)
    BY <1>1, <1>8, WalkConstants
  <2>2. Len(references[first.node]) \in Nat
    <3> HIDE DEF OS!Reference
    <3> QED
      BY <2>1, LenProperties
  <2> QED
    BY <1>2, <2>2
<1>11. /\ points' \in Seq(Nodes)
       /\ \A x \in OS!ToSet(points)' : \E n \in visited' : x \in VariablesOf(references, n)'
  BY DEF Sound
<1>12. \E d \in 0..MAX_BROWSE_DEPTH : AtDepth(d)'
  BY <1>7
<1> QED
  BY <1>1, <1>2, <1>9, <1>10, <1>11, <1>12 DEF Sound

\* Reading the references of the current object: none at depth d + 1 is lost, none is met
\* twice, and its variables are listed.
LEMMA ProcessKeeps ==
    ASSUME Sound, OS!ProcessChildren
    PROVE  Sound'
<1> DEFINE s == references[entry.node]
           D == entry.depth
           Own == {i \in 1..received : s[i].forward /\ s[i].class = "variable"}
           Wanted(r) == r.forward /\ r.class = "object" /\ r.namespace # 0 /\ D + 1 <= MAX_BROWSE_DEPTH
           New == {i \in 1..received :
                      /\ Wanted(s[i]) /\ s[i].target \notin visited
                      /\ ~ \E k \in 1..i - 1 : Wanted(s[k]) /\ s[k].target = s[i].target}
           found == [i \in DOMAIN InOrder(Own) |-> s[InOrder(Own)[i]].target]
           pushed == [i \in DOMAIN InOrder(New) |->
                         [node |-> s[InOrder(New)[i]].target, depth |-> D + 1]]
           Met == {s[i].target : i \in New}
<1>1. /\ at = "process" /\ at' = "next" /\ UNCHANGED references
      /\ points' = points \o found /\ frontier' = frontier \o pushed
      /\ visited' = visited \cup Met
  <2>1. OS!Variables = Own
    BY DEF OS!Variables, OS!Received
  <2>2. OS!Fresh = New
    BY DEF OS!Fresh, OS!Received, OS!Descend
  <2>3. \A S : OS!InOrder(S) = InOrder(S)
    BY DEF OS!InOrder, InOrder, OS!Cardinality, Cardinality
  <2> HIDE DEF Own, New
  <2> QED
    BY <2>1, <2>2, <2>3 DEF OS!ProcessChildren, OS!Received
<1>2. /\ references \in AddressSpaces /\ entry \in Entries /\ received = Len(s)
      /\ frontier \in Seq(Entries) /\ points \in Seq(Nodes)
      /\ \A i, j \in 1..Len(frontier) : i < j => frontier[i].depth <= frontier[j].depth
      /\ \A x \in OS!ToSet(points) : \E n \in visited : x \in VariablesOf(references, n)
      /\ MAX_BROWSE_DEPTH \in Nat
  BY <1>1, WalkConstants DEF Sound
<1>3. D \in 0..MAX_BROWSE_DEPTH /\ entry.node \in Nodes
  BY <1>2 DEF Entries
<1>4. s \in Seq(OS!Reference) /\ Len(s) \in Nat /\ DOMAIN s = 1..Len(s)
      /\ \A i \in 1..Len(s) : s[i] \in OS!Reference /\ s[i].target \in Nodes
  <2>1. s \in Seq(OS!Reference)
    BY <1>2, <1>3, WalkConstants
  <2>2. \A r \in OS!Reference : r.target \in Nodes
    BY DEF OS!Reference
  <2> HIDE DEF s, OS!Reference
  <2>3. Len(s) \in Nat /\ DOMAIN s = 1..Len(s)
    BY <2>1, LenProperties
  <2>4. \A i \in 1..Len(s) : s[i] \in OS!Reference
    BY <2>1, ElementOfSeq
  <2> QED
    BY <2>1, <2>2, <2>3, <2>4
<1> PICK d \in 0..MAX_BROWSE_DEPTH : d = D
  BY <1>3
<1>5. AtDepth(d)
  <2>1. PICK k \in 0..MAX_BROWSE_DEPTH : AtDepth(k)
    BY DEF Sound
  <2>2. d = k
    BY <1>1, <2>1 DEF AtDepth
  <2> QED
    BY <2>1, <2>2, Zenon
<1>6. OS!ToSet(s) = {s[i] : i \in 1..Len(s)}
  BY <1>4 DEF OS!ToSet
<1> HIDE DEF s
<1>7. Own \in SUBSET Nat /\ New \in SUBSET Nat /\ IsFiniteSet(Own) /\ IsFiniteSet(New)
  <2>1. IsFiniteSet(1..received) /\ 1..received \in SUBSET Nat
    <3> HIDE DEF Own, New
    <3>1. 1 \in Int /\ received \in Int
      BY <1>2, <1>4
    <3>2. IsFiniteSet(1..received)
      BY <3>1, FS_Interval, Zenon
    <3>3. 1..received \in SUBSET Nat
      BY <3>1
    <3> QED
      BY <3>2, <3>3
  <2>2. Own \in SUBSET (1..received) /\ New \in SUBSET (1..received)
    OBVIOUS
  <2> HIDE DEF Own, New
  <2> QED
    BY <2>1, <2>2, FS_Subset
\* The variables.
<1>8. VariablesOf(references, entry.node) = {s[i].target : i \in Own}
  BY <1>2, <1>6 DEF VariablesOf, Ahead, s
<1>9. /\ found \in Seq(Nodes)
      /\ \A i \in 1..Len(found) : found[i] \in VariablesOf(references, entry.node)
      /\ \A x \in VariablesOf(references, entry.node) : \E i \in 1..Len(found) : found[i] = x
  <2> DEFINE f == [i \in Own |-> s[i].target]
  <2>1. f \in [Own -> Nodes]
    BY <1>2, <1>4
  <2>2. \A i \in Own : f[i] = s[i].target
    OBVIOUS
  <2>3. found = List(Own, f)
    <3>1. \A i \in DOMAIN InOrder(Own) : InOrder(Own)[i] \in Own
      <4> HIDE DEF Own
      <4> QED
        BY <1>7, InOrderFacts
    <3> HIDE DEF Own
    <3> QED
      BY <3>1 DEF List
  <2> HIDE DEF f, Own, found
  <2>4. /\ found \in Seq(Nodes)
        /\ \A i \in 1..Len(found) : \E p \in Own : found[i] = f[p]
        /\ \A p \in Own : \E i \in 1..Len(found) : found[i] = f[p]
    <3>1. Own \in SUBSET Nat /\ IsFiniteSet(Own)
      BY <1>7
    <3>2. /\ List(Own, f) \in Seq(Nodes)
          /\ \A i \in 1..Len(List(Own, f)) : \E p \in Own : List(Own, f)[i] = f[p]
          /\ \A p \in Own : \E i \in 1..Len(List(Own, f)) : List(Own, f)[i] = f[p]
      BY <2>1, <3>1, Listed, ZenonT(60)
    <3> QED
      BY <2>3, <3>2, Zenon
  <2>5. \A x : x \in VariablesOf(references, entry.node) <=> \E p \in Own : x = f[p]
    BY <1>8, <2>2
  <2>6. \A i \in 1..Len(found) : found[i] \in VariablesOf(references, entry.node)
    BY <2>4, <2>5, Zenon
  <2>7. ASSUME NEW x \in VariablesOf(references, entry.node)
        PROVE  \E i \in 1..Len(found) : found[i] = x
    <3>1. PICK p \in Own : x = f[p]
      BY <2>5, <2>7, Zenon
    <3>2. PICK i \in 1..Len(found) : found[i] = f[p]
      BY <2>4, Zenon
    <3> QED
      BY <3>1, <3>2, Zenon
  <2> QED
    BY <2>4, <2>6, <2>7, Zenon
<1> HIDE DEF found
\* The objects.
<1>10. \A t \in Met : /\ t \in Nodes /\ t \notin visited /\ D + 1 <= MAX_BROWSE_DEPTH
                      /\ t \in ObjectsOf(references, entry.node)
  BY <1>2, <1>4, <1>6 DEF ObjectsOf, Ahead, s
<1>11. ASSUME D < MAX_BROWSE_DEPTH, NEW t \in ObjectsOf(references, entry.node), t \notin visited
       PROVE  t \in Met
  <2> DEFINE Candidates == {i \in 1..received : Wanted(s[i]) /\ s[i].target = t}
  <2>1. D + 1 <= MAX_BROWSE_DEPTH
    BY <1>2, <1>3, <1>11
  <2>2. Candidates # {}
    BY <1>2, <1>6, <1>11, <2>1 DEF ObjectsOf, Ahead, s
  <2>3. Candidates \in SUBSET Nat
    OBVIOUS
  <2> HIDE DEF Candidates
  <2>4. PICK i \in Candidates : \A y \in Candidates : ~(y < i)
    BY <2>2, <2>3, Least
  <2>5. i \in 1..received /\ Wanted(s[i]) /\ s[i].target = t
    BY DEF Candidates
  <2>6. ~ \E k \in 1..i - 1 : Wanted(s[k]) /\ s[k].target = t
    <3> SUFFICES ASSUME NEW k \in 1..i - 1, Wanted(s[k]), s[k].target = t PROVE FALSE
      OBVIOUS
    <3>1. k \in 1..received /\ k < i
      BY <1>2, <1>4, <2>5
    <3>2. k \in Candidates
      BY <3>1 DEF Candidates
    <3> QED
      BY <2>4, <3>1, <3>2
  <2>7. i \in New
    BY <1>11, <2>5, <2>6
  <2> QED
    BY <2>5, <2>7
<1>12. /\ pushed \in Seq(Entries)
       /\ \A i \in 1..Len(pushed) : pushed[i].node \in Met /\ pushed[i].depth = D + 1
       /\ \A t \in Met : \E i \in 1..Len(pushed) : pushed[i].node = t /\ pushed[i].depth = D + 1
  <2> DEFINE f == [i \in New |-> [node |-> s[i].target, depth |-> D + 1]]
  <2>1. f \in [New -> Entries]
    <3>1. ASSUME NEW i \in New
          PROVE  [node |-> s[i].target, depth |-> D + 1] \in Entries
      <4>1. s[i].target \in Nodes /\ D + 1 \in 0..MAX_BROWSE_DEPTH
        BY <1>2, <1>3, <1>4
      <4> QED
        BY <4>1 DEF Entries
    <3> HIDE DEF New, D, Entries
    <3> QED
      BY <3>1
  <2>2. \A i \in New : f[i].node = s[i].target /\ f[i].depth = D + 1
    OBVIOUS
  <2>3. pushed = List(New, f)
    <3>1. \A i \in DOMAIN InOrder(New) : InOrder(New)[i] \in New
      <4> HIDE DEF New
      <4> QED
        BY <1>7, InOrderFacts
    <3> HIDE DEF New
    <3> QED
      BY <3>1 DEF List
  <2>4. \A t \in Met : \E p \in New : t = s[p].target
    OBVIOUS
  <2>5. \A p \in New : s[p].target \in Met
    OBVIOUS
  <2> HIDE DEF f, New, pushed, Entries, Met, D
  <2>6. /\ pushed \in Seq(Entries)
        /\ \A i \in 1..Len(pushed) : \E p \in New : pushed[i] = f[p]
        /\ \A p \in New : \E i \in 1..Len(pushed) : pushed[i] = f[p]
    <3>1. New \in SUBSET Nat /\ IsFiniteSet(New)
      BY <1>7
    <3>2. /\ List(New, f) \in Seq(Entries)
          /\ \A i \in 1..Len(List(New, f)) : \E p \in New : List(New, f)[i] = f[p]
          /\ \A p \in New : \E i \in 1..Len(List(New, f)) : List(New, f)[i] = f[p]
      BY <2>1, <3>1, Listed, ZenonT(60)
    <3> QED
      BY <2>3, <3>2, Zenon
  <2>7. ASSUME NEW i \in 1..Len(pushed)
        PROVE  pushed[i].node \in Met /\ pushed[i].depth = D + 1
    <3>1. PICK p \in New : pushed[i] = f[p]
      BY <2>6
    <3> QED
      BY <2>2, <2>5, <3>1
  <2>8. ASSUME NEW t \in Met
        PROVE  \E i \in 1..Len(pushed) : pushed[i].node = t /\ pushed[i].depth = D + 1
    <3>1. PICK p \in New : t = s[p].target
      BY <2>4
    <3>2. PICK i \in 1..Len(pushed) : pushed[i] = f[p]
      BY <2>6
    <3> QED
      BY <2>2, <3>1, <3>2
  <2> QED
    BY <2>6, <2>7, <2>8
<1> HIDE DEF pushed, Own, New, Met
<1>13. /\ points' \in Seq(Nodes) /\ Len(points') = Len(points) + Len(found)
       /\ OS!ToSet(points') = OS!ToSet(points) \cup VariablesOf(references, entry.node)
  <2>1. /\ points \o found \in Seq(Nodes) /\ Len(points \o found) = Len(points) + Len(found)
        /\ Len(points) \in Nat /\ Len(found) \in Nat
        /\ \A i \in 1..Len(points) : (points \o found)[i] = points[i]
        /\ \A i \in 1..Len(found) : (points \o found)[Len(points) + i] = found[i]
        /\ \A i \in 1..Len(points \o found) :
              (i \in 1..Len(points) /\ (points \o found)[i] = points[i])
              \/ (i - Len(points) \in 1..Len(found) /\ (points \o found)[i] = found[i - Len(points)])
    BY <1>2, <1>9, Joined
  <2>2. \A q \in Seq(Nodes) : OS!ToSet(q) = {q[i] : i \in 1..Len(q)}
    <3> TAKE q \in Seq(Nodes)
    <3>1. DOMAIN q = 1..Len(q)
      BY LenProperties
    <3> QED
      BY <3>1 DEF OS!ToSet
  <2> DEFINE all == points \o found
  <2>3. all \in Seq(Nodes) /\ points' = all
    BY <1>1, <2>1
  <2>4. OS!ToSet(all) = {all[i] : i \in 1..Len(all)} /\ OS!ToSet(points) = {points[i] : i \in 1..Len(points)}
    BY <1>2, <2>2, <2>3
  <2>5. ASSUME NEW x \in OS!ToSet(all)
        PROVE  x \in OS!ToSet(points) \cup VariablesOf(references, entry.node)
    <3>1. PICK i \in 1..Len(all) : x = all[i]
      BY <2>4, <2>5
    <3> QED
      BY <1>9, <2>1, <2>4, <3>1
  <2>6. ASSUME NEW x \in OS!ToSet(points)
        PROVE  x \in OS!ToSet(all)
    <3>1. PICK i \in 1..Len(points) : x = points[i]
      BY <2>4, <2>6
    <3>2. i \in 1..Len(all) /\ all[i] = x
      BY <2>1, <3>1
    <3> QED
      BY <2>4, <3>2
  <2>7. ASSUME NEW x \in VariablesOf(references, entry.node)
        PROVE  x \in OS!ToSet(all)
    <3>1. PICK i \in 1..Len(found) : x = found[i]
      BY <1>9, <2>7
    <3>2. Len(points) + i \in 1..Len(all) /\ all[Len(points) + i] = x
      BY <2>1, <3>1
    <3> QED
      BY <2>4, <3>2
  <2> HIDE DEF all
  <2>8. OS!ToSet(all) = OS!ToSet(points) \cup VariablesOf(references, entry.node)
    BY <2>5, <2>6, <2>7
  <2>9. Len(all) = Len(points) + Len(found)
    BY <2>1 DEF all
  <2> QED
    BY <2>3, <2>8, <2>9
<1> DEFINE Fresh == {pushed[i] : i \in 1..Len(pushed)}
<1>14. /\ frontier' \in Seq(Entries) /\ Pending' = Queued \cup Fresh
       /\ \A i, j \in 1..Len(frontier') : i < j => frontier'[i].depth <= frontier'[j].depth
  <2>1. /\ frontier \o pushed \in Seq(Entries) /\ Len(frontier \o pushed) = Len(frontier) + Len(pushed)
        /\ Len(frontier) \in Nat /\ Len(pushed) \in Nat
        /\ \A i \in 1..Len(frontier) : (frontier \o pushed)[i] = frontier[i]
        /\ \A i \in 1..Len(pushed) : (frontier \o pushed)[Len(frontier) + i] = pushed[i]
        /\ \A i \in 1..Len(frontier \o pushed) :
              (i \in 1..Len(frontier) /\ (frontier \o pushed)[i] = frontier[i])
              \/ (i - Len(frontier) \in 1..Len(pushed) /\ (frontier \o pushed)[i] = pushed[i - Len(frontier)])
    <3> HIDE DEF Entries
    <3> QED
      BY <1>2, <1>12, Joined
  <2> DEFINE all == frontier \o pushed
  <2>2. all \in Seq(Entries) /\ frontier' = all
    BY <1>1, <2>1
  <2>3. Pending' = {all[i] : i \in 1..Len(all)}
    BY <1>1, <2>2 DEF Pending, Queued
  <2>4. ASSUME NEW e, e \in Queued \cup Fresh
        PROVE  e \in Pending'
    <3>1. CASE e \in Queued
      <4>1. PICK i \in 1..Len(frontier) : e = frontier[i]
        BY <3>1 DEF Queued
      <4>2. i \in 1..Len(all) /\ all[i] = e
        BY <2>1, <4>1
      <4> QED
        BY <2>3, <4>2
    <3>2. CASE e \in Fresh
      <4>1. PICK i \in 1..Len(pushed) : e = pushed[i]
        BY <3>2
      <4>2. Len(frontier) + i \in 1..Len(all) /\ all[Len(frontier) + i] = e
        BY <2>1, <4>1
      <4> QED
        BY <2>3, <4>2
    <3> QED
      BY <2>4, <3>1, <3>2
  <2>5. ASSUME NEW e \in Pending'
        PROVE  e \in Queued \cup Fresh
    <3>1. PICK i \in 1..Len(all) : e = all[i]
      BY <2>3, <2>5
    <3> QED
      BY <2>1, <3>1 DEF Queued
  <2> HIDE DEF all
  <2>6. \A i \in 1..Len(frontier) : frontier[i].depth <= d + 1
    <3>1. \A e \in Queued : e.depth = d \/ e.depth = d + 1
      BY <1>1, <1>5 DEF AtDepth, Pending
    <3> QED
      BY <3>1 DEF Queued
  <2>7. \A i \in 1..Len(pushed) : pushed[i].depth = d + 1
    BY <1>12
  <2>9. \A i \in 1..Len(all) :
            \/ i \in 1..Len(frontier) /\ all[i] = frontier[i]
            \/ i - Len(frontier) \in 1..Len(pushed) /\ all[i] = pushed[i - Len(frontier)]
    BY <2>1 DEF all
  <2>8. ASSUME NEW i \in 1..Len(all), NEW j \in 1..Len(all), i < j
        PROVE  all[i].depth <= all[j].depth
    <3>1. CASE j \in 1..Len(frontier) /\ all[j] = frontier[j]
      <4>1. i \in 1..Len(frontier) /\ all[i] = frontier[i]
        BY <2>1, <2>8, <3>1 DEF all
      <4> QED
        BY <1>2, <2>8, <3>1, <4>1
    <3>2. CASE j - Len(frontier) \in 1..Len(pushed) /\ all[j] = pushed[j - Len(frontier)]
      <4>1. all[j].depth = d + 1
        BY <2>7, <3>2
      <4>2. all[i].depth <= d + 1
        <5>1. CASE i \in 1..Len(frontier) /\ all[i] = frontier[i]
          BY <2>6, <5>1
        <5>2. CASE i - Len(frontier) \in 1..Len(pushed) /\ all[i] = pushed[i - Len(frontier)]
          <6>1. all[i].depth = d + 1
            BY <2>7, <5>2
          <6> QED
            BY <6>1
        <5> QED
          BY <2>9, <5>1, <5>2, Zenon
      <4> QED
        BY <4>1, <4>2
    <3> QED
      BY <2>9, <3>1, <3>2, Zenon
  <2> HIDE DEF all, Fresh, Entries
  <2> QED
    BY <2>2, <2>4, <2>5, <2>8
<1>15. \A e \in Fresh : e.node \in Met /\ e.depth = d + 1
  BY <1>12
<1>16. \A t \in Met : \E e \in Fresh : e.node = t /\ e.depth = d + 1
  BY <1>12
<1> HIDE DEF Fresh
<1>17. AtDepth(d)'
  <2>1. /\ Near(references)[d] \subseteq visited
        /\ \A e \in Queued \cup {entry} :
            /\ e.node \in visited /\ e.node \in Near(references)[e.depth]
            /\ e.depth = d \/ (e.depth = d + 1 /\ e.node \notin Near(references)[d])
        /\ \A n \in visited : n \in Near(references)[d]
                             \/ \E e \in Queued \cup {entry} : e.node = n /\ e.depth = d + 1
        /\ \A n \in visited :
            \/ \E e \in Queued \cup {entry} : e.node = n
            \/ /\ VariablesOf(references, n) \subseteq OS!ToSet(points)
               /\ d < MAX_BROWSE_DEPTH => ObjectsOf(references, n) \subseteq visited
    BY <1>1, <1>5 DEF AtDepth, Pending
  <2>2. entry.depth = d /\ entry.node \in Near(references)[d] /\ d # d + 1
    BY <2>1
  <2>3. \A t \in Met : t \in Near(references)[d + 1] /\ t \notin Near(references)[d]
    <3> TAKE t \in Met
    <3>1. d + 1 \in 1..MAX_BROWSE_DEPTH /\ (d + 1) - 1 = d
      BY <1>2, <1>10
    <3>2. Near(references)[d + 1] = Near(references)[d] \cup UNION {ObjectsOf(references, n) : n \in Near(references)[d]}
      BY <1>2, <3>1, NearFacts
    <3> QED
      BY <1>10, <2>1, <2>2, <3>2
  <2>4. \A e \in Pending' :
            /\ e.node \in visited' /\ e.node \in Near(references)[e.depth]
            /\ e.depth = d \/ (e.depth = d + 1 /\ e.node \notin Near(references)[d])
    <3> TAKE e \in Pending'
    <3>1. CASE e \in Queued
      BY <1>1, <2>1, <3>1
    <3>2. CASE e \in Fresh
      BY <1>1, <1>15, <2>3, <3>2
    <3> QED
      BY <1>14, <3>1, <3>2
  <2>5. \A n \in visited' : n \in Near(references)[d] \/ \E e \in Pending' : e.node = n /\ e.depth = d + 1
    <3> TAKE n \in visited'
    <3>1. CASE n \in visited
      BY <1>14, <2>1, <2>2, <3>1
    <3>2. CASE n \in Met
      BY <1>14, <1>16, <3>2
    <3> QED
      BY <1>1, <3>1, <3>2
  <2>6. \A n \in visited' :
            \/ \E e \in Pending' : e.node = n
            \/ /\ VariablesOf(references, n) \subseteq OS!ToSet(points')
               /\ d < MAX_BROWSE_DEPTH => ObjectsOf(references, n) \subseteq visited'
    <3> TAKE n \in visited'
    <3>1. CASE n \in Met
      BY <1>14, <1>16, <3>1
    <3>2. CASE n = entry.node
      <4>1. VariablesOf(references, n) \subseteq OS!ToSet(points')
        BY <1>13, <3>2
      <4>2. d < MAX_BROWSE_DEPTH => ObjectsOf(references, n) \subseteq visited'
        BY <1>1, <1>11, <3>2
      <4> QED
        BY <4>1, <4>2
    <3>3. CASE n \in visited /\ n # entry.node
      <4>1. CASE \E e \in Queued : e.node = n
        BY <1>14, <4>1
      <4>2. CASE /\ VariablesOf(references, n) \subseteq OS!ToSet(points)
                 /\ d < MAX_BROWSE_DEPTH => ObjectsOf(references, n) \subseteq visited
        BY <1>1, <1>13, <4>2
      <4> QED
        BY <2>1, <3>3, <4>1, <4>2
    <3> QED
      BY <1>1, <3>1, <3>2, <3>3
  <2>7. at' \notin {"children", "process"} /\ references' = references
    BY <1>1
  <2>8. Near(references)[d] \subseteq visited'
    BY <1>1, <2>1
  <2> QED
    BY <2>4, <2>5, <2>6, <2>7, <2>8 DEF AtDepth
<1>18. \A x \in OS!ToSet(points') : \E n \in visited' : x \in VariablesOf(references, n)
  <2>1. entry.node \in visited
    BY <1>1, <1>5 DEF AtDepth, Pending
  <2> QED
    BY <1>1, <1>2, <1>13, <2>1
<1>19. \E k \in 0..MAX_BROWSE_DEPTH : AtDepth(k)'
  BY <1>17
<1>20. at' = "next" /\ references' = references /\ references \in AddressSpaces
  BY <1>1, <1>2
<1> QED
  BY <1>13, <1>14, <1>18, <1>19, <1>20 DEF Sound

\* A walk begins with the root, of depth 0.
LEMMA StartIsSound ==
    ASSUME WalkInv, NEW space \in AddressSpaces, OS!StartBrowse(TRUE, space)
    PROVE  Sound'
<1>1. /\ at' = "next" /\ references' = space /\ visited' = {Root} /\ points' = <<>>
      /\ frontier' = <<[node |-> Root, depth |-> 0]>>
  BY DEF OS!StartBrowse, WalkInv, WalkTypes
<1>2. MAX_BROWSE_DEPTH \in Nat /\ Root \in Nodes /\ 0 \in 0..MAX_BROWSE_DEPTH /\ Near(space)[0] = {Root}
  BY WalkConstants, NearFacts
<1> DEFINE first == [node |-> Root, depth |-> 0]
<1>3. first \in Entries /\ first.node = Root /\ first.depth = 0
  BY <1>2 DEF Entries
<1>4. /\ frontier' \in Seq(Entries) /\ Len(frontier') = 1 /\ frontier'[1] = first
      /\ points' \in Seq(Nodes) /\ OS!ToSet(points') = {}
  <2>1. <<first>> \in Seq(Entries) /\ Len(<<first>>) = 1 /\ <<first>>[1] = first
    <3> HIDE DEF first, Entries
    <3> QED
      BY <1>3
  <2>2. OS!ToSet(<<>>) = {}
    BY DEF OS!ToSet
  <2> QED
    BY <1>1, <2>1, <2>2
<1>5. Pending' = {first}
  <2>1. {frontier'[i] : i \in 1..Len(frontier')} = {first}
    <3> HIDE DEF first
    <3> QED
      BY <1>4
  <2> QED
    BY <1>1, <2>1 DEF Pending, Queued
<1> PICK d \in 0..MAX_BROWSE_DEPTH : d = 0
  BY <1>2
<1>6. AtDepth(d)'
  <2>1. Near(references')[d] = {Root} /\ visited' = {Root}
    BY <1>1, <1>2
  <2> HIDE DEF first
  <2>2. \A e \in Pending' : e.node = Root /\ e.depth = 0
    BY <1>3, <1>5
  <2>3. \E e \in Pending' : e.node = Root
    BY <1>3, <1>5
  <2> QED
    BY <1>1, <2>1, <2>2, <2>3 DEF AtDepth
<1>7. \A i, j \in 1..Len(frontier') : i < j => frontier'[i].depth <= frontier'[j].depth
  <2>1. \A i, j \in 1..1 : ~(i < j)
    OBVIOUS
  <2> QED
    BY <1>4, <2>1
<1> QED
  BY <1>1, <1>4, <1>6, <1>7 DEF Sound

\* Pages of references, the end of the pages and the end of the frontier change
\* nothing of what was met.
LEMMA PageKeeps ==
    ASSUME Sound, at = "children", at' \in {"children", "process"},
           received' \in 0..Len(references[entry.node]),
           at' = "process" => received' = Len(references[entry.node]),
           UNCHANGED <<references, visited, frontier, entry, points>>
    PROVE  Sound'
<1>1. PICK d \in 0..MAX_BROWSE_DEPTH : AtDepth(d)
  BY DEF Sound
<1>2. Pending' = Pending
  BY DEF Pending, Queued
<1>3. AtDepth(d)'
  BY <1>1, <1>2 DEF AtDepth
<1> QED
  BY <1>3 DEF Sound

\* A walk with nothing left to read changes nothing of what was met.
LEMMA LeavingKeeps ==
    ASSUME Sound, at \in {"next", "preview", "idle"}, frontier = <<>>, at' \in {"preview", "idle"},
           UNCHANGED <<references, visited, frontier, points>>
    PROVE  Sound'
<1>1. PICK d \in 0..MAX_BROWSE_DEPTH : AtDepth(d)
  BY DEF Sound
<1>2. Pending' = Pending
  BY DEF Pending, Queued
<1>3. AtDepth(d)'
  BY <1>1, <1>2 DEF AtDepth
<1> QED
  BY <1>3 DEF Sound

walking == <<job, at, outcome, warnings, points, opcua_job>>

\* Steps that leave the job alone keep the invariant.
LEMMA StutterKeepsWalk == WalkInv /\ UNCHANGED walking => WalkInv'
<1> SUFFICES ASSUME WalkInv, UNCHANGED walking PROVE WalkInv'
  OBVIOUS
<1>1. UNCHANGED <<job, at, outcome, warnings, points, scan_connected, devices, references, visited,
                  frontier, entry, received, cut>>
  BY DEF walking, opcua_job
<1>2. Sound => Sound'
  BY <1>1 DEF Sound, AtDepth, Pending, Queued
<1>3. WalkTypes' /\ (InFull' <=> InFull)
  BY <1>1 DEF WalkInv, WalkTypes, InFull
<1> QED
  BY <1>1, <1>2, <1>3 DEF WalkInv

\* Each step of a discovery keeps the invariant.
LEMMA OpcuaDiscoverKeeps == WalkInv /\ OS!Discover => WalkInv'
<1> SUFFICES ASSUME WalkTypes, OS!Discover PROVE WalkTypes' /\ job' # "browse"
  BY DEF WalkInv
<1>1. ASSUME OS!StartDiscover PROVE WalkTypes' /\ job' # "browse"
  BY <1>1 DEF OS!StartDiscover, WalkTypes, OS!walk
<1>2. ASSUME NEW answer \in SUBSET Endpoints, NEW good \in BOOLEAN, OS!GetEndpoints(answer, good)
      PROVE  WalkTypes' /\ job' # "browse"
  <2>1. job = "discover" /\ job' = job /\ at = "endpoints"
    BY <1>2 DEF OS!GetEndpoints, OS!ScanEnds, WalkTypes
  <2>2. \/ devices' # {} /\ at' = "idle" /\ scan_connected' = FALSE
        \/ at' = "check" /\ UNCHANGED <<outcome, scan_connected>>
    BY <1>2 DEF OS!GetEndpoints, OS!ScanEnds
  <2> QED
    BY <2>1, <2>2 DEF WalkTypes
<1>3. ASSUME NEW good \in BOOLEAN, OS!ConnectCheck(good)
      PROVE  WalkTypes' /\ job' # "browse"
  BY <1>3 DEF OS!ConnectCheck, OS!ScanEnds, WalkTypes
<1> QED
  BY <1>1, <1>2, <1>3 DEF OS!Discover

\* Each step of a browse goes from one stage to another.
LEMMA BrowseKeepsTypes == WalkTypes /\ OS!Browse => WalkTypes' /\ job' = "browse"
<1> SUFFICES ASSUME WalkTypes, OS!Browse PROVE WalkTypes' /\ job' = "browse"
  OBVIOUS
<1>1. ASSUME NEW good \in BOOLEAN, NEW space \in AddressSpaces, OS!StartBrowse(good, space)
      PROVE  WalkTypes' /\ job' = "browse"
  BY <1>1 DEF OS!StartBrowse, WalkTypes
<1>2. CASE OS!PopFrontier
  BY <1>2 DEF OS!PopFrontier, WalkTypes
<1>3. CASE OS!FrontierEmpty
  BY <1>3 DEF OS!FrontierEmpty, OS!walk, WalkTypes
<1>4. ASSUME NEW n \in 1..OS!Remaining, OS!ReceivePage(n)
      PROVE  WalkTypes' /\ job' = "browse"
  BY <1>4 DEF OS!ReceivePage, WalkTypes
<1>5. CASE OS!BrowseFails
  BY <1>5 DEF OS!BrowseFails, OS!ScanEnds, OS!walk, WalkTypes
<1>6. CASE OS!PagesEnd \/ OS!LastPage
  BY <1>6 DEF OS!PagesEnd, OS!LastPage, OS!walk, WalkTypes
<1>7. CASE OS!ProcessChildren
  <2>1. at = "process" /\ at' = "next" /\ received' = 0 /\ UNCHANGED <<job, outcome>>
    BY <1>7 DEF OS!ProcessChildren
  <2> QED
    BY <2>1 DEF WalkTypes
<1>8. ASSUME NEW values \in 0..2 * Len(points), OS!Preview(values)
      PROVE  WalkTypes' /\ job' = "browse"
  BY <1>8 DEF OS!Preview, OS!ScanEnds, WalkTypes
<1> QED
  BY <1>1, <1>2, <1>3, <1>4, <1>5, <1>6, <1>7, <1>8 DEF OS!Browse

\* Each step of a browse that may still be complete keeps what was met sound.
LEMMA OpcuaBrowseKeeps == WalkInv /\ OS!Browse => WalkInv'
<1> SUFFICES ASSUME WalkInv, OS!Browse, InFull' PROVE Sound'
  BY BrowseKeepsTypes DEF WalkInv
<1>1. WalkTypes /\ (job = "browse" /\ InFull => Sound)
  BY DEF WalkInv
<1>2. outcome' # "error" /\ "capped" \notin warnings' /\ ~cut'
  BY DEF InFull
<1>3. ASSUME NEW good \in BOOLEAN, NEW space \in AddressSpaces, OS!StartBrowse(good, space)
      PROVE  Sound'
  <2>1. good
    BY <1>2, <1>3 DEF OS!StartBrowse
  <2>2. OS!StartBrowse(TRUE, space)
    BY <1>3, <2>1 DEF OS!StartBrowse
  <2> QED
    BY <2>2, StartIsSound
<1>4. ASSUME OS!PopFrontier PROVE Sound'
  <2>1. /\ at = "next" /\ frontier # <<>> /\ frontier' = Tail(frontier)
        /\ UNCHANGED <<job, outcome, references, visited, received, points, cut>>
        /\ \/ "capped" \in warnings'
           \/ entry' = Head(frontier) /\ at' = "children" /\ UNCHANGED warnings
    BY <1>4 DEF OS!PopFrontier, OS!PopFront
  <2>2. entry' = Head(frontier) /\ at' = "children" /\ UNCHANGED warnings
    BY <1>2, <2>1
  <2>3. Sound /\ received = 0
    BY <1>1, <1>2, <2>1, <2>2 DEF WalkTypes, InFull
  <2> QED
    BY <2>1, <2>2, <2>3, PopKeeps
<1>5. ASSUME OS!FrontierEmpty PROVE Sound'
  <2>1. /\ at = "next" /\ frontier = <<>> /\ at' = "preview"
        /\ UNCHANGED <<job, outcome, warnings, references, visited, frontier, points, cut>>
    BY <1>5 DEF OS!FrontierEmpty, OS!walk
  <2>2. Sound
    BY <1>1, <1>2, <2>1 DEF WalkTypes, InFull
  <2> QED
    BY <2>1, <2>2, LeavingKeeps
<1>6. ASSUME NEW n \in 1..OS!Remaining, OS!ReceivePage(n) PROVE Sound'
  <2>1. /\ at = "children" /\ received' = received + n /\ at' = at
        /\ UNCHANGED <<job, outcome, warnings, references, visited, frontier, entry, points, cut>>
        /\ n \in 1..Len(references[entry.node]) - received
    BY <1>6 DEF OS!ReceivePage, OS!Remaining
  <2>2. Sound
    BY <1>1, <1>2, <2>1 DEF WalkTypes, InFull
  <2>3. Len(references[entry.node]) \in Nat /\ received \in 0..Len(references[entry.node])
    <3>1. references \in [Nodes -> Seq(OS!Reference)] /\ entry.node \in Nodes
          /\ received \in 0..Len(references[entry.node])
      BY <2>1, <2>2, WalkConstants DEF Sound, Entries
    <3> HIDE DEF OS!Reference
    <3> QED
      BY <3>1, LenProperties
  <2>4. received' \in 0..Len(references[entry.node])
    BY <2>1, <2>3
  <2>5. at' \in {"children", "process"} /\ at' # "process"
    BY <2>1
  <2> QED
    BY <2>1, <2>2, <2>4, <2>5, PageKeeps
<1>7. ~OS!BrowseFails /\ ~OS!PagesEnd
  BY <1>2 DEF OS!BrowseFails, OS!PagesEnd, OS!ScanEnds
<1>8. ASSUME OS!LastPage PROVE Sound'
  <2>1. /\ at = "children" /\ at' = "process" /\ Len(references[entry.node]) - received = 0
        /\ UNCHANGED <<job, outcome, warnings, references, visited, frontier, entry, received, points, cut>>
    BY <1>8 DEF OS!LastPage, OS!Remaining, OS!walk
  <2>2. Sound
    BY <1>1, <1>2, <2>1 DEF WalkTypes, InFull
  <2>3. Len(references[entry.node]) \in Nat /\ received \in 0..Len(references[entry.node])
    <3>1. references \in [Nodes -> Seq(OS!Reference)] /\ entry.node \in Nodes
          /\ received \in 0..Len(references[entry.node])
      BY <2>1, <2>2, WalkConstants DEF Sound, Entries
    <3> HIDE DEF OS!Reference
    <3> QED
      BY <3>1, LenProperties
  <2>4. received = Len(references[entry.node])
    BY <2>1, <2>3
  <2> QED
    BY <2>1, <2>2, <2>3, <2>4, PageKeeps
<1>9. ASSUME OS!ProcessChildren PROVE Sound'
  <2>1. at = "process" /\ UNCHANGED <<job, outcome, warnings, cut>>
    BY <1>9 DEF OS!ProcessChildren
  <2>2. Sound
    BY <1>1, <1>2, <2>1 DEF WalkTypes, InFull
  <2> QED
    BY <1>9, <2>2, ProcessKeeps
<1>10. ASSUME NEW values \in 0..2 * Len(points), OS!Preview(values) PROVE Sound'
  <2>1. /\ at = "preview" /\ at' = "idle"
        /\ UNCHANGED <<job, warnings, references, visited, frontier, points, cut>>
    BY <1>10 DEF OS!Preview, OS!ScanEnds
  <2>2. Sound /\ frontier = <<>>
    BY <1>1, <1>2, <2>1 DEF WalkTypes, InFull, Sound
  <2> QED
    BY <2>1, <2>2, LeavingKeeps
<1> QED
  BY <1>3, <1>4, <1>5, <1>6, <1>7, <1>8, <1>9, <1>10 DEF OS!Browse

OpcuaJobInv ==
    /\ role = "none" => protocol = "none"
    /\ protocol \in {"none", "opcua"} => WalkInv

\* Before an adapter is built no job is under way.
LEMMA InitWalk == Init => OpcuaJobInv
<1> SUFFICES ASSUME Init PROVE WalkInv
  BY DEF OpcuaJobInv, Init
<1>1. OS!OpcuaScanInit
  BY DEF Init
<1> QED
  BY <1>1 DEF OS!OpcuaScanInit, WalkInv, WalkTypes

\* Each step of any adapter keeps the invariant.
LEMMA OpcuaJobKeeps == OpcuaJobInv /\ [Next]_vars => OpcuaJobInv'
<1> SUFFICES ASSUME OpcuaJobInv, [Next]_vars PROVE OpcuaJobInv'
  OBVIOUS
<1>1. ASSUME NEW id \in Configurable, NEW use \in {"worker", "job"}, Build(id, use)
      PROVE  OpcuaJobInv'
  <2>1. UNCHANGED walking /\ role = "none" /\ role' # "none"
    BY <1>1 DEF Build, oneshot, walking
  <2> QED
    BY <1>1, <2>1, StutterKeepsWalk DEF OpcuaJobInv, Build
<1>2. CASE OpcuaJob
  BY <1>2, OpcuaDiscoverKeeps, OpcuaBrowseKeeps DEF OpcuaJob, OS!OpcuaScanNext, Built, OpcuaJobInv
<1>3. CASE OpcuaWorker
  <2>1. UNCHANGED walking
    BY <1>3 DEF OpcuaWorker, oneshot, walking
  <2> QED
    BY <1>3, <2>1, StutterKeepsWalk DEF OpcuaWorker, Built, OpcuaJobInv
<1>4. CASE BacnetWorker \/ BacnetJob \/ ModbusWorker \/ ModbusJob
  BY <1>4 DEF BacnetWorker, BacnetJob, ModbusWorker, ModbusJob, Built, OpcuaJobInv
<1>5. CASE UNCHANGED vars
  <2>1. UNCHANGED <<walking, protocol, role>>
    BY <1>5 DEF vars, oneshot, walking
  <2> QED
    BY <2>1, StutterKeepsWalk DEF OpcuaJobInv
<1> QED
  BY <1>1, <1>2, <1>3, <1>4, <1>5 DEF Next

\* A browse that succeeds without a warning found the variables of every object within
\* the depth, for any address space, in whatever pages it was read; a discovery that
\* succeeds names a device, and no job leaves its connection open.
THEOREM WalkCompleteAlways == Spec => []OpcuaWalkIsComplete
<1>1. OpcuaJobInv => OpcuaWalkIsComplete
  <2> SUFFICES ASSUME WalkInv PROVE OS!WalkIsComplete
    BY DEF OpcuaJobInv, OpcuaWalkIsComplete
  <2>1. /\ at = "idle" => ~scan_connected
        /\ job = "discover" /\ outcome = "ok" => devices # {}
    BY DEF WalkInv, WalkTypes
  <2>2. ASSUME job = "browse", outcome = "ok", "capped" \notin warnings, ~cut
        PROVE  OS!ToSet(points) =
                  UNION {{r.target : r \in OS!Forward(n, "variable")} : n \in OS!Within[MAX_BROWSE_DEPTH]}
    <3>1. Sound /\ at \notin {"next", "children", "process"}
      BY <2>2 DEF WalkInv, WalkTypes, InFull
    <3>2. \A n : VariablesOf(references, n) = {r.target : r \in OS!Forward(n, "variable")}
      BY DEF VariablesOf, Ahead, OS!Forward
    <3> QED
      BY <3>1, <3>2, AtTheEnd, WithinIsNear
  <2> QED
    BY <2>1, <2>2 DEF OS!WalkIsComplete
<1> QED
  BY <1>1, InitWalk, OpcuaJobKeeps, PTL DEF Spec
=============================================================================
