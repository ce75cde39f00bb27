--------------------------- MODULE AdapterCallProofs -------------------------
(***************************************************************************)
(* Proofs about the calls that a worker makes of its adapter, for any      *)
(* points, devices, interfaces, passes, chunk sizes and registers.         *)
(*                                                                         *)
(* BACnet: every request of a call leaves through the session this call    *)
(* resolved; a poll that returns answers every enabled point once,         *)
(* whichever groups fell back to single reads and in whichever order they  *)
(* ended; and a device is reported unresolved only after every pass has    *)
(* covered it with a Who-Is, exactly once, because the chunks of a sorted  *)
(* list are disjoint ranges that follow one another.                       *)
(*                                                                         *)
(* Modbus: a sample is the answer to the request of its own point, and a   *)
(* poll that returns answers every point once.                             *)
(*                                                                         *)
(* OPC UA: a sample has the value of its own node, and a poll that returns *)
(* answers every point once.                                               *)
(*                                                                         *)
(* The steps of an adapter are those of its instance; every other step is  *)
(* of an adapter that was not built, or of a job, which has state of its   *)
(* own.                                                                    *)
(***************************************************************************)
EXTENDS Adapters, NumberFacts, FiniteSetTheorems, TLAPS

-----------------------------------------------------------------------------
(* Calls and polls. *)

Stages == {"out", "waiting", "multiple", "single", "done"}

\* Which call a step belongs to, and what it was asked for.
CallTypes ==
    /\ pc \in {"reading", "announcing", "checking"} =>
          op = (IF pc = "reading" THEN "poll" ELSE "refresh")
    /\ op \in {"poll", "refresh", "none"}
    /\ pc \in {"idle", "building", "reading", "announcing", "checking"}
    /\ pc # "idle" => result = "none"
    /\ pc = "building" => op # "none"
    /\ op = "poll" => asked \subseteq Points
    /\ group \in [Devices -> Stages]
    /\ left \in [Devices -> SUBSET Points]

Answered == samples \cup failures

\* A group that runs has an answer for the points it has read, and for no other.
GroupProgress(d) ==
    /\ group[d] = "out" => B!Of(d) = {}
    /\ group[d] \in {"waiting", "multiple"} => B!Of(d) \cap Answered = {}
    /\ group[d] = "single" => /\ left[d] \subseteq B!Of(d)
                              /\ left[d] = B!Of(d) \ Answered
    /\ group[d] = "done" => B!Of(d) \subseteq Answered

EachPointOnce ==
    /\ samples \cap failures = {}
    /\ Answered \subseteq asked
    /\ \A p \in asked : DeviceOf[p] = Unparsed => p \in failures

PollInv ==
    /\ op = "poll" /\ result = "none" => EachPointOnce /\ \A d \in Devices : GroupProgress(d)
    /\ B!PollAnswersAll

CallInv == CallTypes /\ PollInv /\ B!SessionServesCall

\* Until an adapter is built nobody has touched its state.
IInv ==
    /\ role = "none" => protocol = "none"
    /\ protocol \in {"none", "bacnet"} => CallInv

-----------------------------------------------------------------------------
\* What the proofs about polls use of the constants.
LEMMA CallConstants ==
    /\ Points \subseteq Nat
    /\ DeviceOf \in [Points -> Devices \cup {Unparsed}]
    /\ Unparsed \notin Devices
BY AdaptersAssumption DEF AdaptersAssumption, B!BacnetAssumption

\* The next point to be read by itself.
LEMMA NextPoint ==
    ASSUME NEW S \in SUBSET Nat, S # {}
    PROVE  B!Min(S) \in S
BY Lowest DEF B!Min

\* Before an adapter is built no call is under way.
LEMMA InitCallInv == Init => IInv
<1> SUFFICES ASSUME Init PROVE CallInv
  BY DEF IInv, Init
<1>1. B!Init
  BY DEF Init
<1>2. CallTypes /\ PollInv /\ B!SessionServesCall
  BY <1>1 DEF B!Init, B!None, CallTypes, Stages, PollInv, B!PollAnswersAll, B!SessionServesCall
<1> QED
  BY <1>2 DEF CallInv

\* What the invariant of a call is about.
state == <<pc, op, asked, result, want, session, group, left, samples, failures>>

\* Steps that leave the call alone keep the invariant.
LEMMA StutterKeeps == CallInv /\ UNCHANGED state => CallInv'
BY DEF CallInv, CallTypes, PollInv, EachPointOnce, GroupProgress, Answered, B!Of,
       B!PollAnswersAll, B!IsPollAnswer, B!SessionServesCall, state

\* What a refresh has to keep: it answers no poll.
LEMMA OtherCallKeeps ==
    ASSUME CallInv, op' # "poll", CallTypes', B!SessionServesCall'
    PROVE  CallInv'
BY DEF CallInv, PollInv, B!PollAnswersAll

-----------------------------------------------------------------------------
\* Building or dropping the session keeps the invariant (ensure_poll_client).
LEMMA SessionKeeps == CallInv /\ B!Session => CallInv'
<1> SUFFICES ASSUME CallInv, B!Session PROVE CallInv'
  OBVIOUS
<1> USE DEF B!caller, B!polled, B!refresh, B!network, B!Return
<1>i. CallTypes /\ PollInv
  BY DEF CallInv
<1>1. CASE B!BuildClient
  <2>1. CallTypes'
    BY <1>1, <1>i DEF CallTypes, B!BuildClient
  <2>2. PollInv'
    BY <1>1, <1>i DEF PollInv, EachPointOnce, GroupProgress, Answered, B!Of, B!PollAnswersAll,
       B!IsPollAnswer, B!BuildClient
  <2>3. B!SessionServesCall'
    BY <1>1 DEF B!SessionServesCall, B!BuildClient
  <2> QED
    BY <2>1, <2>2, <2>3 DEF CallInv
<1>2. CASE B!BuildFails
  BY <1>2, <1>i DEF CallTypes, B!BuildFails, CallInv, PollInv, B!PollAnswersAll,
     B!SessionServesCall
<1> QED
  BY <1>1, <1>2 DEF B!Session

\* A call starts on a session for what it resolved, or by building one.
LEMMA ReadyToCall ==
    ASSUME NEW ready \in {"reading", "announcing"}, B!EnsurePollClient(ready)
    PROVE  pc' \in {"building", ready} /\ B!SessionServesCall'
<1>1. CASE B!NeedsRebuild(want')
  BY <1>1 DEF B!EnsurePollClient, B!SessionServesCall
<1>2. CASE ~B!NeedsRebuild(want')
  BY <1>2 DEF B!EnsurePollClient, B!SessionServesCall, B!NeedsRebuild
<1> QED
  BY <1>1, <1>2

\* A poll that starts puts every parsed point of the call in the group of its device.
LEMMA StartPollKeeps ==
    ASSUME CallInv, NEW ps \in SUBSET Points, B!StartPoll(ps)
    PROVE  CallInv'
<1> USE CallConstants DEF B!StartPoll
<1>1. pc' \in {"building", "reading"} /\ B!SessionServesCall'
  BY ReadyToCall
<1>2. CallTypes'
  BY <1>1 DEF CallTypes, Stages, B!None
<1>3. asked' \subseteq Points /\ samples' = {} /\ failures' = {p \in asked' : DeviceOf[p] = Unparsed}
  BY DEF B!Parsed
<1>4. EachPointOnce'
  BY <1>3 DEF EachPointOnce, Answered
<1>5. ASSUME NEW d \in Devices PROVE GroupProgress(d)'
  <2>1. group'[d] = IF \E p \in asked' : DeviceOf[p] = d THEN "waiting" ELSE "out"
    OBVIOUS
  <2>2. B!Of(d)' = {p \in asked' : DeviceOf[p] = d}
    BY DEF B!Of
  <2>3. B!Of(d)' \cap Answered' = {}
    BY <1>3, <2>2 DEF Answered
  <2> QED
    BY <2>1, <2>2, <2>3 DEF GroupProgress
<1>6. PollInv'
  BY <1>4, <1>5 DEF PollInv, B!PollAnswersAll, B!None
<1> QED
  BY <1>1, <1>2, <1>6 DEF CallInv

\* Each step of a running poll, apart from its start and end.
LEMMA ReadKeeps ==
    ASSUME CallInv, pc = "reading", NEW d \in Devices,
           UNCHANGED <<session, op, asked, result, want, pc>>,
           group' \in [Devices -> Stages], left' \in [Devices -> SUBSET Points],
           \A e \in Devices \ {d} : group'[e] = group[e] /\ left'[e] = left[e],
           Answered \subseteq Answered', Answered' \subseteq Answered \cup B!Of(d),
           samples' \cap failures' = {}, failures \subseteq failures',
           GroupProgress(d)'
    PROVE  CallInv'
<1> USE CallConstants
<1>1. CallTypes /\ PollInv /\ op = "poll" /\ result = "none"
  BY DEF CallInv, CallTypes
<1>2. CallTypes'
  BY <1>1 DEF CallTypes
<1>3. B!SessionServesCall'
  BY DEF CallInv, B!SessionServesCall
<1>4. EachPointOnce'
  BY <1>1 DEF PollInv, EachPointOnce, B!Of
<1>5. ASSUME NEW e \in Devices \ {d} PROVE GroupProgress(e)'
  <2>1. B!Of(e)' = B!Of(e) /\ B!Of(e) \cap B!Of(d) = {}
    BY DEF B!Of
  <2>2. B!Of(e) \cap Answered' = B!Of(e) \cap Answered
    BY <2>1
  <2>3. GroupProgress(e) /\ group'[e] = group[e] /\ left'[e] = left[e]
    BY <1>1 DEF PollInv
  <2> QED
    BY <2>1, <2>2, <2>3 DEF GroupProgress
<1>6. PollInv'
  BY <1>1, <1>4, <1>5 DEF PollInv, B!PollAnswersAll
<1> QED
  BY <1>2, <1>3, <1>6 DEF CallInv

\* Each step of a poll keeps the invariant.
LEMMA PollKeeps == CallInv /\ B!Poll => CallInv'
<1> SUFFICES ASSUME CallInv, B!Poll PROVE CallInv'
  OBVIOUS
<1> USE CallConstants DEF B!caller, B!refresh, B!network
<1>i. CallTypes /\ PollInv
  BY DEF CallInv
<1>r. ASSUME pc = "reading"
      PROVE  /\ EachPointOnce /\ \A d \in Devices : GroupProgress(d)
             /\ \A d \in Devices : B!Of(d) \subseteq Points
  BY <1>i, <1>r DEF CallTypes, PollInv, B!Of
<1>1. ASSUME NEW ps \in SUBSET Points, B!PollNothing(ps) PROVE CallInv'
  <2>1. CallTypes'
    BY <1>1, <1>i DEF CallTypes, B!PollNothing, B!ForgetPoll, Stages
  <2>2. PollInv'
    BY <1>1 DEF B!PollNothing, B!ForgetPoll, PollInv, B!PollAnswersAll, B!IsPollAnswer
  <2>3. B!SessionServesCall'
    BY <1>1 DEF B!PollNothing, B!SessionServesCall
  <2> QED
    BY <2>1, <2>2, <2>3 DEF CallInv
<1>2. ASSUME NEW ps \in SUBSET Points, B!StartPoll(ps) PROVE CallInv'
  BY <1>2, StartPollKeeps
<1>3. ASSUME NEW d \in Devices, B!ReadGroup(d) PROVE CallInv'
  <2> USE <1>3 DEF B!ReadGroup
  <2>1. GroupProgress(d)'
    BY <1>i, <1>r DEF GroupProgress, Answered, B!Of, CallTypes
  <2>2. group' \in [Devices -> Stages]
    BY <1>i DEF CallTypes, Stages
  <2> QED
    BY <1>i, <1>r, <2>1, <2>2, ReadKeeps DEF CallTypes, Answered, EachPointOnce
<1>4. ASSUME NEW d \in Devices, NEW answer \in [B!Refs(d) -> B!Replies], B!MultipleRead(d, answer)
      PROVE  CallInv'
  <2> USE <1>4 DEF B!MultipleRead
  <2>1. CASE B!GroupReadWhole(d, answer)
    <3>1. samples' = samples \cup B!Of(d) /\ UNCHANGED <<failures, left>>
      BY <2>1 DEF B!GroupReadWhole
    <3>2. group' = [group EXCEPT ![d] = "done"]
      BY <2>1
    <3>3. GroupProgress(d)'
      BY <1>i, <3>1, <3>2 DEF GroupProgress, Answered, B!Of, CallTypes
    <3>4. B!Of(d) \cap Answered = {}
      BY <1>r DEF GroupProgress
    <3>5. group' \in [Devices -> Stages]
      BY <1>i, <3>2 DEF CallTypes, Stages
    <3> QED
      BY <1>i, <1>r, <3>1, <3>2, <3>3, <3>4, <3>5, ReadKeeps DEF CallTypes, Answered, EachPointOnce
  <2>2. CASE ~B!GroupReadWhole(d, answer)
    <3>1. UNCHANGED <<samples, failures>> /\ group' = [group EXCEPT ![d] = "single"]
          /\ left' = [left EXCEPT ![d] = B!Of(d)]
      BY <2>2
    <3>2. GroupProgress(d)'
      BY <1>i, <1>r, <3>1 DEF GroupProgress, Answered, B!Of, CallTypes
    <3>3. group' \in [Devices -> Stages] /\ left' \in [Devices -> SUBSET Points]
      BY <1>i, <1>r, <3>1 DEF CallTypes, Stages
    <3> QED
      BY <1>i, <1>r, <3>1, <3>2, <3>3, ReadKeeps DEF CallTypes, Answered, EachPointOnce
  <2> QED
    BY <2>1, <2>2
<1>5. ASSUME NEW d \in Devices, B!MultipleReadFails(d) PROVE CallInv'
  <2> USE <1>5 DEF B!MultipleReadFails
  <2>1. GroupProgress(d)'
    BY <1>i, <1>r DEF GroupProgress, Answered, B!Of, CallTypes
  <2>2. group' \in [Devices -> Stages] /\ left' \in [Devices -> SUBSET Points]
    BY <1>i, <1>r DEF CallTypes, Stages
  <2> QED
    BY <1>i, <1>r, <2>1, <2>2, ReadKeeps DEF CallTypes, Answered, EachPointOnce
<1>6. ASSUME NEW d \in Devices, NEW good \in BOOLEAN, B!SingleRead(d, good) PROVE CallInv'
  <2> USE <1>6 DEF B!SingleRead
  <2> DEFINE p == B!Min(left[d])
  <2>1. p \in left[d]
    BY <1>i, NextPoint DEF CallTypes
  <2> HIDE DEF p
  <2>2. p \in B!Of(d) /\ p \notin Answered /\ left[d] = B!Of(d) \ Answered
    BY <1>r, <2>1 DEF GroupProgress
  <2>3. left' = [left EXCEPT ![d] = left[d] \ {p}] /\ group' = group
    BY DEF p
  <2>4. /\ samples' = (IF good THEN samples \cup {p} ELSE samples)
        /\ failures' = (IF good THEN failures ELSE failures \cup {p})
    BY DEF p
  <2>5. Answered' = Answered \cup {p}
    BY <2>4 DEF Answered
  <2>6. GroupProgress(d)'
    BY <1>i, <2>2, <2>3, <2>5 DEF GroupProgress, B!Of, CallTypes
  <2>7. left' \in [Devices -> SUBSET Points]
    BY <1>i, <2>3 DEF CallTypes
  <2>8. samples' \cap failures' = {} /\ failures \subseteq failures'
    <3>1. samples \cap failures = {} /\ p \notin samples /\ p \notin failures
      BY <1>r, <2>2 DEF EachPointOnce, Answered
    <3>2. CASE good
      BY <2>4, <3>1, <3>2
    <3>3. CASE ~good
      BY <2>4, <3>1, <3>3
    <3> QED
      BY <3>2, <3>3
  <2> QED
    BY <1>i, <1>r, <2>2, <2>3, <2>5, <2>6, <2>7, <2>8, ReadKeeps DEF CallTypes
<1>7. ASSUME NEW d \in Devices, B!GroupEnds(d) PROVE CallInv'
  <2> USE <1>7 DEF B!GroupEnds
  <2>1. GroupProgress(d)'
    BY <1>i, <1>r DEF GroupProgress, Answered, B!Of, CallTypes
  <2>2. group' \in [Devices -> Stages]
    BY <1>i DEF CallTypes, Stages
  <2> QED
    BY <1>i, <1>r, <2>1, <2>2, ReadKeeps DEF CallTypes, Answered, EachPointOnce
<1>8. CASE B!PollReturns
  <2> USE <1>8 DEF B!PollReturns, B!Return, B!polled
  <2>1. CallTypes'
    BY <1>i DEF CallTypes
  <2>2. ASSUME NEW p \in asked PROVE p \in Answered
    <3>1. CASE DeviceOf[p] = Unparsed
      BY <1>r, <3>1 DEF EachPointOnce, Answered
    <3>2. CASE DeviceOf[p] # Unparsed
      <4>1. asked \subseteq Points
        BY <1>i DEF CallTypes
      <4>2. DeviceOf[p] \in Devices /\ p \in B!Of(DeviceOf[p])
        BY <3>2, <4>1 DEF B!Of
      <4> QED
        BY <1>r, <4>2 DEF GroupProgress
    <3> QED
      BY <3>1, <3>2
  <2>3. B!PollAnswersAll'
    BY <1>r, <2>2 DEF B!PollAnswersAll, B!IsPollAnswer, EachPointOnce, Answered
  <2> QED
    BY <2>1, <2>3 DEF CallInv, PollInv, B!SessionServesCall
<1> QED
  BY <1>1, <1>2, <1>3, <1>4, <1>5, <1>6, <1>7, <1>8 DEF B!Poll

\* Each step of a refresh keeps the invariant of calls.
LEMMA RefreshKeeps == CallInv /\ B!Refresh => CallInv'
<1> SUFFICES ASSUME CallInv, B!Refresh PROVE CallInv'
  OBVIOUS
<1> USE DEF B!caller, B!refresh, B!network, B!polled, B!Return
<1>i. CallTypes /\ B!SessionServesCall
  BY DEF CallInv
<1>1. ASSUME NEW ds \in SUBSET Devices, B!StartRefresh(ds) PROVE CallInv'
  <2>1. pc' \in {"building", "announcing"} /\ B!SessionServesCall'
    BY <1>1, ReadyToCall DEF B!StartRefresh
  <2>2. CallTypes' /\ op' = "refresh"
    BY <1>1, <2>1 DEF B!StartRefresh, B!ForgetPoll, CallTypes, Stages, B!None
  <2> QED
    BY <2>1, <2>2, OtherCallKeeps
<1>2. ASSUME NEW d \in Devices, B!LateIAm(d) PROVE CallInv'
  BY <1>2, StutterKeeps DEF B!LateIAm, state
<1>3. CASE B!CheckDevice
  BY <1>3, StutterKeeps DEF B!CheckDevice, state
<1>4. ASSUME NEW range, NEW answers, B!WhoIs(range, answers) PROVE CallInv'
  <2>1. op = "refresh" /\ UNCHANGED <<session, want, op, asked, result, group, left>>
    BY <1>4, <1>i DEF CallTypes, B!WhoIs
  <2>2. pc = "announcing" /\ pc' \in {"announcing", "checking"}
    BY <1>4 DEF B!WhoIs
  <2>3. CallTypes' /\ B!SessionServesCall'
    BY <1>i, <2>1, <2>2 DEF CallTypes, B!SessionServesCall
  <2> QED
    BY <2>1, <2>3, OtherCallKeeps
<1>5. CASE B!RefreshNothing \/ B!WhoIsFails \/ B!TargetedPass \/ B!RefreshReturns
  <2>1. op = "refresh" /\ UNCHANGED <<session, want, op, asked, group, left>>
    BY <1>5, <1>i DEF CallTypes, B!RefreshNothing, B!WhoIsFails, B!TargetedPass, B!RefreshReturns
  <2>2. /\ pc \in {"announcing", "checking"} /\ pc' \in {"idle", "announcing"}
        /\ pc' # "idle" => result' = result
    BY <1>5 DEF B!RefreshNothing, B!WhoIsFails, B!TargetedPass, B!RefreshReturns
  <2>3. CallTypes' /\ B!SessionServesCall'
    BY <1>i, <2>1, <2>2 DEF CallTypes, B!SessionServesCall
  <2> QED
    BY <2>1, <2>3, OtherCallKeeps
<1> QED
  BY <1>1, <1>2, <1>3, <1>4, <1>5 DEF B!Refresh

\* Each step of the adapter keeps the invariant.
LEMMA BacnetKeeps == CallInv /\ B!Next => CallInv'
<1>1. CallInv /\ B!InterfacesChange => CallInv'
  BY StutterKeeps DEF B!InterfacesChange, B!caller, B!polled, state
<1> QED
  BY <1>1, SessionKeeps, PollKeeps, RefreshKeeps DEF B!Next

\* Each step of any adapter keeps the invariant.
LEMMA StepKeeps == IInv /\ [Next]_vars => IInv'
<1> SUFFICES ASSUME IInv, [Next]_vars PROVE IInv'
  OBVIOUS
<1>1. ASSUME NEW id \in Configurable, NEW use \in {"worker", "job"}, Build(id, use) PROVE IInv'
  <2>1. UNCHANGED state /\ role = "none" /\ role' # "none"
    BY <1>1 DEF Build, call, bacnet, state
  <2> QED
    BY <1>1, <2>1, StutterKeeps DEF IInv, Build
<1>2. CASE BacnetWorker
  BY <1>2, BacnetKeeps DEF BacnetWorker, Built, IInv
<1>3. CASE BacnetJob
  <2>1. UNCHANGED state
    BY <1>3 DEF BacnetJob, call, bacnet, state
  <2> QED
    BY <1>3, <2>1, StutterKeeps DEF BacnetJob, Built, IInv
<1>4. CASE ModbusWorker \/ ModbusJob \/ OpcuaWorker \/ OpcuaJob
  BY <1>4 DEF ModbusWorker, ModbusJob, OpcuaWorker, OpcuaJob, Built, IInv
<1>5. CASE UNCHANGED vars
  <2>1. UNCHANGED <<state, protocol, role>>
    BY <1>5 DEF vars, call, bacnet, state
  <2> QED
    BY <2>1, StutterKeeps DEF IInv
<1> QED
  BY <1>1, <1>2, <1>3, <1>4, <1>5 DEF Next

-----------------------------------------------------------------------------
\* A BACnet poll that returns answers every enabled point once, whatever part
\* of it fell back to single reads (poll, read_group_rpm, read_group_individual).
THEOREM PollAnswersAlways == Spec => []BacnetPollAnswersAll
<1>1. IInv => BacnetPollAnswersAll
  BY DEF IInv, CallInv, PollInv, BacnetPollAnswersAll
<1> QED
  BY <1>1, InitCallInv, StepKeeps, PTL DEF Spec

\* The requests of a BACnet call leave through a client bound to the interface
\* that this call resolved (ensure_poll_client).
THEOREM SessionServesAlways == Spec => []BacnetSessionServesCall
<1>1. IInv => BacnetSessionServesCall
  BY DEF IInv, CallInv, BacnetSessionServesCall
<1> QED
  BY <1>1, InitCallInv, StepKeeps, PTL DEF Spec

-----------------------------------------------------------------------------
(* Chunks of a sorted list. *)

\* The position of an instance in the sorted list, and the chunk it is in.
Index(ds, d) == Rank(ds, d) \div REFRESH_TARGETED_CHUNK_SIZE
Chunk(ds, d) == {e \in ds : Index(ds, e) = Index(ds, d)}
Span(c) == {d \in Devices : B!Min(c) <= d /\ d <= B!Max(c)}

\* What the proofs about refreshes use of the constants.
LEMMA RefreshConstants ==
    /\ Devices \subseteq Nat /\ IsFiniteSet(Devices)
    /\ REFRESH_TARGETED_PASSES \in Nat
    /\ REFRESH_TARGETED_CHUNK_SIZE \in Nat \ {0}
<1>1. B!BacnetAssumption
  BY AdaptersAssumption DEF AdaptersAssumption
<1> QED
  BY <1>1 DEF B!BacnetAssumption, B!IsFiniteSet, IsFiniteSet

\* The ranges of a pass, chunk by chunk.
LEMMA RangesOfChunks ==
    ASSUME NEW ds \in SUBSET Devices
    PROVE  B!device_instance_ranges(ds) = {Span(Chunk(ds, d)) : d \in ds}
<1>1. ASSUME NEW S PROVE B!Cardinality(S) = Cardinality(S)
  BY DEF B!Cardinality, Cardinality
<1>2. B!Chunks(ds) = {Chunk(ds, d) : d \in ds}
  BY <1>1 DEF B!Chunks, Chunk, Index, Rank
<1> QED
  BY <1>2 DEF B!device_instance_ranges, Span

\* A nonempty finite set of numbers has a largest: the element with the fewest above it.
LEMMA Greatest ==
    ASSUME NEW S \in SUBSET Nat, IsFiniteSet(S), S # {}
    PROVE  \E x \in S : \A y \in S : y <= x
<1> DEFINE Above(x) == {y \in S : x < y}
           Counts == {n \in Nat : \E x \in S : n = Cardinality(Above(x))}
<1>1. ASSUME NEW x \in S
      PROVE  IsFiniteSet(Above(x)) /\ Cardinality(Above(x)) \in Nat
  <2>1. Above(x) \in SUBSET S
    OBVIOUS
  <2> HIDE DEF Above
  <2>2. IsFiniteSet(Above(x))
    BY <2>1, FS_Subset
  <2> QED
    BY <2>2, FS_CardinalityType
<1>2. PICK n \in Counts : \A m \in Counts : n <= m
  <2> HIDE DEF Above
  <2>1. Counts \in SUBSET Nat /\ Counts # {}
    BY <1>1
  <2> HIDE DEF Counts
  <2> QED
    BY <2>1, Lowest
<1>3. PICK x \in S : n = Cardinality(Above(x))
  OBVIOUS
<1>4. ASSUME NEW y \in S, x < y PROVE FALSE
  <2>0. \A z \in S : y < z => x < z
    BY <1>4
  <2>1. Above(y) \in SUBSET Above(x) /\ y \in Above(x) /\ y \notin Above(y)
    <3>1. x \in Nat /\ y \in Nat /\ ~(y < y)
      OBVIOUS
    <3> QED
      BY <1>4, <2>0, <3>1
  <2>2. Cardinality(Above(y)) \in Counts
    BY <1>1
  <2> HIDE DEF Above, Counts
  <2>3. n <= Cardinality(Above(y))
    BY <1>2, <2>2
  <2>4. Cardinality(Above(y)) <= Cardinality(Above(x))
    BY <1>1, <2>1, FS_Subset
  <2>5. Cardinality(Above(x)) = Cardinality(Above(y))
    BY <1>1, <1>3, <2>3, <2>4
  <2>6. Above(x) = Above(y)
    BY <1>1, <2>1, <2>5, FS_Subset
  <2> QED
    BY <2>1, <2>6
<1> QED
  BY <1>4

\* The smallest and the largest instance of a chunk are its own.
LEMMA Ends ==
    ASSUME NEW c \in SUBSET Devices, c # {}
    PROVE  /\ B!Min(c) \in c /\ \A y \in c : B!Min(c) <= y
           /\ B!Max(c) \in c /\ \A y \in c : y <= B!Max(c)
<1>1. c \in SUBSET Nat /\ IsFiniteSet(c)
  BY RefreshConstants, FS_Subset
<1>2. \E x \in c : \A y \in c : x <= y
  BY <1>1, Lowest
<1>3. \E x \in c : \A y \in c : x >= y
  <2>1. PICK x \in c : \A y \in c : y <= x
    BY <1>1, Greatest
  <2>2. \A y \in c : x >= y
    BY <1>1, <2>1
  <2> QED
    BY <2>2
<1>4. B!Min(c) \in c /\ \A y \in c : B!Min(c) <= y
  BY <1>2 DEF B!Min
<1>5. B!Max(c) \in c /\ \A y \in c : B!Max(c) >= y
  BY <1>3 DEF B!Max
<1> QED
  BY <1>1, <1>4, <1>5

\* A larger position is in the same chunk or in a later one.
LEMMA DivMonotone ==
    ASSUME NEW s \in Nat \ {0}, NEW a \in Nat, NEW b \in Nat, a <= b
    PROVE  a \div s \in Nat /\ a \div s <= b \div s
  OBVIOUS

\* Instances in order are in chunks in order.
LEMMA IndexMonotone ==
    ASSUME NEW ds \in SUBSET Devices, NEW x \in ds, NEW y \in ds, x <= y
    PROVE  Index(ds, x) \in Nat /\ Index(ds, y) \in Nat /\ Index(ds, x) <= Index(ds, y)
<1> DEFINE Below(d) == {e \in ds : e < d}
<1>1. ds \in SUBSET Nat /\ IsFiniteSet(ds)
  BY RefreshConstants, FS_Subset
<1>2. \A d \in ds : Below(d) \in SUBSET ds
  OBVIOUS
<1>3. Below(x) \in SUBSET Below(y)
  <2>1. \A e \in ds : e < x => e < y
    BY <1>1
  <2> QED
    BY <2>1
<1>4. Rank(ds, x) = Cardinality(Below(x)) /\ Rank(ds, y) = Cardinality(Below(y))
  BY DEF Rank
<1> HIDE DEF Below
<1>5. \A d \in ds : IsFiniteSet(Below(d)) /\ Cardinality(Below(d)) \in Nat
  BY <1>1, <1>2, FS_Subset, FS_CardinalityType
<1>6. Rank(ds, x) \in Nat /\ Rank(ds, y) \in Nat /\ Rank(ds, x) <= Rank(ds, y)
  BY <1>3, <1>4, <1>5, FS_Subset
<1> QED
  BY <1>6, RefreshConstants, DivMonotone DEF Index

\* The ranges of a pass cover what is asked for, and no device twice.
LEMMA RangesPartition ==
    ASSUME NEW ds \in SUBSET Devices
    PROVE  /\ ds \subseteq UNION B!device_instance_ranges(ds)
           /\ \A r, t \in B!device_instance_ranges(ds) : r # t => r \cap t = {}
<1>1. \A d \in ds : d \in Chunk(ds, d) /\ Chunk(ds, d) \in SUBSET Devices
  BY DEF Chunk
<1>2. \A d \in ds : d \in Span(Chunk(ds, d))
  BY <1>1, Ends DEF Span
<1>3. ASSUME NEW d \in ds, NEW e \in ds, Index(ds, d) < Index(ds, e)
      PROVE  Span(Chunk(ds, d)) \cap Span(Chunk(ds, e)) = {}
  <2>1. /\ B!Max(Chunk(ds, d)) \in Chunk(ds, d)
        /\ B!Min(Chunk(ds, e)) \in Chunk(ds, e)
    BY <1>1, Ends
  <2> DEFINE top == B!Max(Chunk(ds, d))
             low == B!Min(Chunk(ds, e))
  <2>2. top \in ds /\ low \in ds /\ Index(ds, top) = Index(ds, d) /\ Index(ds, low) = Index(ds, e)
    BY <2>1 DEF Chunk
  <2>3. top \in Nat /\ low \in Nat
    BY <2>2, RefreshConstants
  <2>4. top < low
    <3> SUFFICES ASSUME low <= top PROVE FALSE
      BY <2>3
    <3> HIDE DEF top, low
    <3>1. Index(ds, low) \in Nat /\ Index(ds, top) \in Nat /\ Index(ds, low) <= Index(ds, top)
      BY <2>2, IndexMonotone
    <3> QED
      BY <1>3, <2>2, <3>1
  <2>5. ASSUME NEW x \in Span(Chunk(ds, d)) \cap Span(Chunk(ds, e)) PROVE FALSE
    <3>1. x \in Nat /\ low <= x /\ x <= top
      BY RefreshConstants DEF Span
    <3> HIDE DEF top, low
    <3> QED
      BY <2>3, <2>4, <3>1
  <2> QED
    BY <2>5
<1>4. ASSUME NEW d \in ds, NEW e \in ds, Span(Chunk(ds, d)) # Span(Chunk(ds, e))
      PROVE  Span(Chunk(ds, d)) \cap Span(Chunk(ds, e)) = {}
  <2>1. Index(ds, d) # Index(ds, e)
    BY <1>4 DEF Chunk
  <2>2. Index(ds, d) \in Nat /\ Index(ds, e) \in Nat
    <3>1. d <= d /\ e <= e
      BY RefreshConstants
    <3> QED
      BY <3>1, IndexMonotone
  <2>3. CASE Index(ds, d) < Index(ds, e)
    BY <1>3, <2>3
  <2>4. CASE Index(ds, e) < Index(ds, d)
    BY <1>3, <2>4
  <2> QED
    BY <2>1, <2>2, <2>3, <2>4
<1> QED
  BY <1>2, <1>4, RangesOfChunks

-----------------------------------------------------------------------------
(* The call. *)

\* The passes that have been begun, the first being the broadcast.
Begun == REFRESH_TARGETED_PASSES - pass

\* What the pass looks for: at first everything, later what was missing.
Sought == IF pass = REFRESH_TARGETED_PASSES THEN asked ELSE unresolved

RefreshTypes ==
    /\ asked \subseteq Devices /\ unresolved \subseteq asked
    /\ pass \in 0..REFRESH_TARGETED_PASSES
    /\ probed \in [Devices -> Nat]

\* The ranges still to be announced are disjoint; who was sought is covered by
\* one of them or was, once more than in the passes before.
Announcing ==
    /\ \A r, t \in ranges : r # t => r \cap t = {}
    /\ asked \ Sought \subseteq table
    /\ \A d \in Sought : probed[d] = Begun + (IF d \in UNION ranges THEN 0 ELSE 1)

\* Who is not in the table was covered in every pass so far.
Checking ==
    /\ unchecked \subseteq asked /\ unresolved \cap unchecked = {}
    /\ asked \ (unresolved \cup unchecked) \subseteq table
    /\ \A d \in unresolved \cup (unchecked \ table) : probed[d] = Begun + 1

RefreshInv ==
    /\ op \in {"poll", "refresh", "none"}
    /\ pc = "reading" => op # "refresh"
    /\ op = "refresh" =>
          /\ RefreshTypes
          /\ pc # "idle" => result = "none"
          /\ pc \in {"building", "announcing"} => Announcing
          /\ pc = "checking" => Checking
          /\ B!RefreshIsThorough

\* Until an adapter is built nobody has touched its refresh_state.
RefreshIInv ==
    /\ role = "none" => protocol = "none"
    /\ protocol \in {"none", "bacnet"} => RefreshInv

\* Before an adapter is built no refresh is under way.
LEMMA InitRefreshInv == Init => RefreshIInv
<1> SUFFICES ASSUME Init PROVE RefreshInv
  BY DEF RefreshIInv, Init
<1> QED
  BY DEF Init, B!Init, B!None, RefreshInv

\* What the invariant is about.
refresh_state == <<pc, op, asked, result, table, pass, ranges, probed, unchecked, unresolved>>

\* Steps that leave the refresh alone keep its invariant.
LEMMA StutterKeepsRefresh == RefreshInv /\ UNCHANGED refresh_state => RefreshInv'
BY DEF RefreshInv, RefreshTypes, Announcing, Checking, Begun, Sought, B!RefreshIsThorough,
       B!IsRefreshAnswer, refresh_state

\* An error answers nothing.
LEMMA ErrorKeeps ==
    ASSUME RefreshInv, pc' = "idle", result' = "error",
           UNCHANGED <<op, asked, pass, ranges, probed, unchecked, unresolved>>
    PROVE  RefreshInv'
BY DEF RefreshInv, RefreshTypes, B!RefreshIsThorough

\* Building or dropping the session keeps the invariant of refreshes.
LEMMA SessionKeepsRefresh == RefreshInv /\ B!Session => RefreshInv'
<1> SUFFICES ASSUME RefreshInv, B!Session PROVE RefreshInv'
  OBVIOUS
<1> USE DEF B!caller, B!refresh, B!Return
<1>1. CASE B!BuildClient
  <2>1. /\ UNCHANGED <<op, asked, result, table, pass, ranges, probed, unchecked, unresolved>>
        /\ pc = "building" /\ pc' = IF op = "poll" THEN "reading" ELSE "announcing"
    BY <1>1 DEF B!BuildClient
  <2> QED
    BY <2>1 DEF RefreshInv, RefreshTypes, Announcing, Begun, Sought, B!RefreshIsThorough
<1>2. CASE B!BuildFails
  BY <1>2, ErrorKeeps DEF B!BuildFails
<1> QED
  BY <1>1, <1>2 DEF B!Session

\* Each step of a poll keeps the invariant of refreshes.
LEMMA PollKeepsRefresh == RefreshInv /\ B!Poll => RefreshInv'
<1> SUFFICES ASSUME RefreshInv, B!Poll PROVE RefreshInv'
  OBVIOUS
<1>1. CASE op' = "poll"
  BY <1>1 DEF RefreshInv
<1>2. CASE UNCHANGED refresh_state
  BY <1>2, StutterKeepsRefresh
<1>3. CASE B!PollReturns
  BY <1>3 DEF B!PollReturns, B!Return, RefreshInv
<1>4. ASSUME NEW ps \in SUBSET Points, B!PollNothing(ps) \/ B!StartPoll(ps)
      PROVE  op' = "poll"
  BY <1>4 DEF B!PollNothing, B!StartPoll
<1>5. ASSUME NEW d \in Devices,
             \/ B!ReadGroup(d) \/ B!MultipleReadFails(d) \/ B!GroupEnds(d)
             \/ \E answer \in [B!Refs(d) -> B!Replies] : B!MultipleRead(d, answer)
             \/ \E good \in BOOLEAN : B!SingleRead(d, good)
      PROVE  UNCHANGED refresh_state
  BY <1>5 DEF B!ReadGroup, B!MultipleReadFails, B!GroupEnds, B!MultipleRead, B!SingleRead,
     B!caller, B!refresh, refresh_state
<1> QED
  BY <1>1, <1>2, <1>3, <1>4, <1>5 DEF B!Poll

\* A refresh that starts has every device still to find.
LEMMA StartKeeps ==
    ASSUME NEW ds \in SUBSET Devices, B!StartRefresh(ds)
    PROVE  RefreshInv'
<1> USE RefreshConstants DEF B!StartRefresh
<1>1. /\ op' = "refresh" /\ asked' = ds /\ result' = "none"
      /\ pass' = REFRESH_TARGETED_PASSES /\ ranges' = {Devices}
      /\ probed' = [d \in Devices |-> 0] /\ unresolved' = {}
      /\ pc' \in {"building", "announcing"}
  BY DEF B!EnsurePollClient, B!None
<1>2. RefreshTypes'
  BY <1>1 DEF RefreshTypes
<1>3. Sought' = asked' /\ Begun' = 0 /\ UNION ranges' = Devices
  BY <1>1 DEF Sought, Begun
<1>4. \A d \in Sought' : probed'[d] = 0 /\ d \in UNION ranges'
  BY <1>1, <1>3
<1>5. Announcing'
  BY <1>1, <1>3, <1>4 DEF Announcing
<1> QED
  BY <1>1, <1>2, <1>5 DEF RefreshInv, B!RefreshIsThorough

\* A Who-Is covers the devices of its range once more.
LEMMA WhoIsKeeps ==
    ASSUME RefreshInv, op = "refresh", NEW range \in ranges, NEW answers \in SUBSET range,
           B!WhoIs(range, answers)
    PROVE  RefreshInv'
<1> USE RefreshConstants DEF B!WhoIs, B!caller
<1>1. RefreshTypes /\ Announcing /\ result = "none"
  BY DEF RefreshInv
<1>2. /\ UNCHANGED <<op, asked, result, pass>> /\ ranges' = ranges \ {range}
      /\ table \subseteq table'
      /\ probed' = [d \in Devices |-> IF d \in range THEN probed[d] + 1 ELSE probed[d]]
  OBVIOUS
<1>3. RefreshTypes'
  <2>1. probed' \in [Devices -> Nat]
    BY <1>1, <1>2 DEF RefreshTypes
  <2>2. unresolved' \subseteq asked'
    BY <1>1, <1>2 DEF RefreshTypes
  <2> QED
    BY <1>1, <1>2, <2>1, <2>2 DEF RefreshTypes
<1>4. Sought \subseteq asked /\ asked \subseteq Devices
  BY <1>1 DEF Sought, RefreshTypes
<1>5. range \cap UNION ranges' = {}
  BY <1>1, <1>2 DEF Announcing
<1>6. UNION ranges = range \cup UNION ranges'
  BY <1>2
<1>7. ASSUME NEW d \in Sought
      PROVE  probed'[d] = Begun + (IF d \in UNION ranges' THEN 0 ELSE 1)
  <2>1. probed[d] = Begun + (IF d \in UNION ranges THEN 0 ELSE 1) /\ d \in Devices
    BY <1>1, <1>4 DEF Announcing
  <2>2. Begun \in Int
    BY <1>1 DEF Begun, RefreshTypes
  <2>3. CASE d \in range
    BY <1>2, <1>5, <1>6, <2>1, <2>2, <2>3
  <2>4. CASE d \notin range
    BY <1>2, <1>6, <2>1, <2>4
  <2> QED
    BY <2>3, <2>4
<1>8. CASE ranges' # {}
  <2>1. pc' = "announcing" /\ UNCHANGED unresolved
    BY <1>8
  <2>2. Announcing'
    BY <1>1, <1>2, <1>7, <2>1 DEF Announcing, Begun, Sought
  <2> QED
    BY <1>1, <1>2, <1>3, <2>1, <2>2 DEF RefreshInv, B!RefreshIsThorough
<1>9. CASE ranges' = {}
  <2>1. pc' = "checking" /\ unchecked' = asked /\ unresolved' = {}
    BY <1>9
  <2>2. asked \ table' \subseteq Sought
    BY <1>1, <1>2 DEF Announcing
  <2>3. \A d \in Sought : probed'[d] = Begun + 1
    BY <1>7, <1>9
  <2>4. Checking'
    BY <1>2, <2>1, <2>2, <2>3 DEF Checking, Begun
  <2> QED
    BY <1>1, <1>2, <1>3, <2>1, <2>4 DEF RefreshInv, B!RefreshIsThorough
<1> QED
  BY <1>8, <1>9

\* Looking into the table drops the devices that answered.
LEMMA CheckKeeps ==
    ASSUME RefreshInv, op = "refresh", B!CheckDevice
    PROVE  RefreshInv'
<1> USE DEF B!CheckDevice, B!caller
<1>1. RefreshTypes /\ Checking /\ result = "none" /\ pc = "checking"
  BY DEF RefreshInv
<1>2. /\ UNCHANGED <<op, asked, result, pass, pc, table, ranges, probed>>
      /\ \E d \in unchecked :
            /\ unchecked' = unchecked \ {d}
            /\ unresolved' = IF d \in table THEN unresolved ELSE unresolved \cup {d}
  <2>1. B!Min(unchecked) \in unchecked
    BY <1>1, Ends DEF RefreshTypes, Checking
  <2> QED
    BY <2>1
<1>3. RefreshTypes'
  BY <1>1, <1>2 DEF RefreshTypes, Checking
<1>4. Checking'
  BY <1>1, <1>2 DEF Checking, Begun
<1> QED
  BY <1>1, <1>2, <1>3, <1>4 DEF RefreshInv, B!RefreshIsThorough

\* The next pass is over the devices that are still missing.
LEMMA PassKeeps ==
    ASSUME RefreshInv, op = "refresh", B!TargetedPass
    PROVE  RefreshInv'
<1> USE RefreshConstants DEF B!TargetedPass, B!caller
<1>1. RefreshTypes /\ Checking /\ result = "none"
  BY DEF RefreshInv
<1>2. /\ UNCHANGED <<op, asked, result, table, probed, unresolved>>
      /\ pc' = "announcing" /\ pass' = pass - 1 /\ pass > 0
      /\ ranges' = B!device_instance_ranges(unresolved) /\ unchecked = {}
  OBVIOUS
<1>3. RefreshTypes'
  <2>1. pass' \in 0..REFRESH_TARGETED_PASSES
    BY <1>1, <1>2 DEF RefreshTypes
  <2> QED
    BY <1>1, <1>2, <2>1 DEF RefreshTypes
<1>4. unresolved \in SUBSET Devices
  BY <1>1 DEF RefreshTypes
<1>5. Sought' = unresolved
  BY <1>1, <1>2 DEF Sought, RefreshTypes
<1>6. Begun' = Begun + 1
  BY <1>1, <1>2 DEF Begun, RefreshTypes
<1>7. Announcing'
  <2>1. /\ unresolved \subseteq UNION ranges'
        /\ \A r, t \in ranges' : r # t => r \cap t = {}
    BY <1>2, <1>4, RangesPartition
  <2>2. asked' \ Sought' \subseteq table'
    BY <1>1, <1>2, <1>5 DEF Checking
  <2>3. \A d \in unresolved : probed'[d] = Begun' + 0
    <3>1. \A d \in unresolved : probed'[d] = Begun + 1
      BY <1>1, <1>2 DEF Checking
    <3>2. Begun' + 0 = Begun + 1
      BY <1>1, <1>6 DEF Begun, RefreshTypes
    <3> QED
      BY <3>1, <3>2
  <2> QED
    BY <1>5, <2>1, <2>2, <2>3 DEF Announcing
<1> QED
  BY <1>1, <1>2, <1>3, <1>7 DEF RefreshInv, B!RefreshIsThorough

\* A refresh that returns reports what no pass found.
LEMMA ReturnKeeps ==
    ASSUME RefreshInv, op = "refresh", B!RefreshReturns \/ B!RefreshNothing
    PROVE  RefreshInv'
<1> USE RefreshConstants DEF B!RefreshReturns, B!RefreshNothing, B!Return, B!refresh
<1>1. RefreshTypes
  BY DEF RefreshInv
<1>2. /\ UNCHANGED <<op, asked, table, pass, ranges, probed, unchecked, unresolved>>
      /\ pc' = "idle" /\ result' = "ok"
  OBVIOUS
<1>3. /\ asked \ unresolved \subseteq table
      /\ \A d \in unresolved : probed[d] = REFRESH_TARGETED_PASSES + 1
  <2>1. CASE B!RefreshNothing
    BY <1>1, <2>1 DEF RefreshTypes
  <2>2. CASE B!RefreshReturns
    <3>1. Checking /\ unchecked = {}
      BY <2>2 DEF RefreshInv
    <3>2. unresolved = {} \/ Begun = REFRESH_TARGETED_PASSES
      BY <2>2 DEF Begun
    <3> QED
      BY <3>1, <3>2 DEF Checking
  <2> QED
    BY <2>1, <2>2
<1>4. RefreshTypes'
  BY <1>1, <1>2 DEF RefreshTypes
<1>5. B!RefreshIsThorough'
  BY <1>1, <1>2, <1>3 DEF B!RefreshIsThorough, B!IsRefreshAnswer, RefreshTypes
<1> QED
  BY <1>2, <1>4, <1>5 DEF RefreshInv

\* An I-Am that is late changes the table alone.
LEMMA LateKeeps ==
    ASSUME RefreshInv, NEW d \in Devices, B!LateIAm(d)
    PROVE  RefreshInv'
<1>1. /\ UNCHANGED <<pc, op, asked, result, pass, ranges, probed, unchecked, unresolved>>
      /\ table \subseteq table' /\ pc \in {"reading", "checking"}
  BY DEF B!LateIAm, B!caller, B!refresh
<1> QED
  BY <1>1 DEF RefreshInv, RefreshTypes, Checking, Begun, B!RefreshIsThorough, B!IsRefreshAnswer

\* Each step of a refresh keeps its invariant.
LEMMA RefreshKeepsRefresh == RefreshInv /\ B!Refresh => RefreshInv'
<1> SUFFICES ASSUME RefreshInv, B!Refresh PROVE RefreshInv'
  OBVIOUS
<1>1. CASE op = "refresh"
  <2>1. CASE B!WhoIsFails
    BY <2>1, ErrorKeeps DEF B!WhoIsFails, B!Return, B!refresh
  <2> QED
    BY <1>1, <2>1, StartKeeps, WhoIsKeeps, CheckKeeps, PassKeeps, ReturnKeeps, LateKeeps
    DEF B!Refresh
<1>2. CASE op # "refresh"
  <2>1. CASE UNCHANGED op
    BY <1>2, <2>1 DEF RefreshInv
  <2>2. CASE op' # op
    BY <2>2, StartKeeps DEF B!Refresh, B!RefreshNothing, B!WhoIs, B!WhoIsFails, B!CheckDevice,
       B!LateIAm, B!TargetedPass, B!RefreshReturns, B!caller, B!Return
  <2> QED
    BY <2>1, <2>2
<1> QED
  BY <1>1, <1>2

\* Each step of the adapter keeps the invariant of refreshes.
LEMMA BacnetKeepsRefresh == RefreshInv /\ B!Next => RefreshInv'
<1>1. RefreshInv /\ B!InterfacesChange => RefreshInv'
  BY StutterKeepsRefresh DEF B!InterfacesChange, B!caller, B!refresh, refresh_state
<1> QED
  BY <1>1, SessionKeepsRefresh, PollKeepsRefresh, RefreshKeepsRefresh DEF B!Next

\* Each step of any adapter keeps the invariant of refreshes.
LEMMA StepKeepsRefresh == RefreshIInv /\ [Next]_vars => RefreshIInv'
<1> SUFFICES ASSUME RefreshIInv, [Next]_vars PROVE RefreshIInv'
  OBVIOUS
<1>1. ASSUME NEW id \in Configurable, NEW use \in {"worker", "job"}, Build(id, use) PROVE RefreshIInv'
  <2>1. UNCHANGED refresh_state /\ role = "none" /\ role' # "none"
    BY <1>1 DEF Build, call, bacnet, refresh_state
  <2> QED
    BY <1>1, <2>1, StutterKeepsRefresh DEF RefreshIInv, Build
<1>2. CASE BacnetWorker
  BY <1>2, BacnetKeepsRefresh DEF BacnetWorker, Built, RefreshIInv
<1>3. CASE BacnetJob
  <2>1. UNCHANGED refresh_state
    BY <1>3 DEF BacnetJob, call, bacnet, refresh_state
  <2> QED
    BY <1>3, <2>1, StutterKeepsRefresh DEF BacnetJob, Built, RefreshIInv
<1>4. CASE ModbusWorker \/ ModbusJob \/ OpcuaWorker \/ OpcuaJob
  BY <1>4 DEF ModbusWorker, ModbusJob, OpcuaWorker, OpcuaJob, Built, RefreshIInv
<1>5. CASE UNCHANGED vars
  <2>1. UNCHANGED <<refresh_state, protocol, role>>
    BY <1>5 DEF vars, call, bacnet, refresh_state
  <2> QED
    BY <2>1, StutterKeepsRefresh DEF RefreshIInv
<1> QED
  BY <1>1, <1>2, <1>3, <1>4, <1>5 DEF Next

-----------------------------------------------------------------------------
\* The unresolved devices of a BACnet refresh were looked for once in every
\* pass, the broadcast and the targeted ones, and the others answered
\* (refresh_device_table, device_instance_ranges, partition_refresh_outcome).
THEOREM RefreshThoroughAlways == Spec => []BacnetRefreshIsThorough
<1>1. RefreshIInv => BacnetRefreshIsThorough
  BY DEF RefreshIInv, RefreshInv, BacnetRefreshIsThorough, B!RefreshIsThorough
<1> QED
  BY <1>1, InitRefreshInv, StepKeepsRefresh, PTL DEF Spec

-----------------------------------------------------------------------------
(* Polls of the Modbus adapter. *)

Requests == [number : Nat, address : Int]

\* Types of a call and its connection.
FieldTypes ==
    /\ pc \in {"idle", "connecting", "between", "waiting"}
    /\ asked \subseteq Points /\ todo \subseteq asked
    /\ current \in Points \cup {M!NoPoint}
    /\ number \in Nat
    /\ inbox \in Seq(Requests) /\ wire \in Seq(Requests)
    /\ samples \subseteq Points /\ failures \subseteq Points
    /\ source \in [Points -> Requests]
    /\ result \in {"none", "ok", "error"}

\* The points that have been answered, will be requested, or are awaited make up the call.
Awaited == IF pc = "waiting" THEN {current} ELSE {}

EachRegisterOnce ==
    /\ samples \cap failures = {}
    /\ pc # "idle" => /\ result = "none"
                      /\ samples \cup failures \cup todo \cup Awaited = asked
                      /\ (samples \cup failures) \cap (todo \cup Awaited) = {}
                      /\ todo \cap Awaited = {}
    /\ pc = "idle" /\ result = "ok" => samples \cup failures = asked

\* Numbers on the connection have been given out, and the last one was given to
\* the request that is awaited.
Fits(e, last, at_work, p) ==
    /\ e.number <= last
    /\ at_work = "waiting" /\ e.number = last => e.address = M!Wire(AddressOf[p])

NumbersAreOwn ==
    /\ \A i \in DOMAIN inbox : Fits(inbox[i], number, pc, current)
    /\ \A i \in DOMAIN wire : Fits(wire[i], number, pc, current)

FieldInv == FieldTypes /\ EachRegisterOnce /\ NumbersAreOwn /\ M!SampleIsOwn

\* Until an adapter is built nobody has touched its field.
FieldIInv ==
    /\ role = "none" => protocol = "none"
    /\ protocol \in {"none", "modbus"} => FieldInv

-----------------------------------------------------------------------------
\* What the proofs use of the constants.
LEMMA FieldConstants ==
    /\ Points \subseteq Nat
    /\ AddressOf \in [Points -> Nat]
    /\ Registers \in Nat \ {0}
    /\ \A p \in Points : M!Wire(AddressOf[p]) \in Int
<1>1. Points \subseteq Nat /\ AddressOf \in [Points -> Nat] /\ Registers \in Nat \ {0}
  BY AdaptersAssumption DEF AdaptersAssumption, M!ModbusAssumption
<1> QED
  BY <1>1 DEF M!Wire

\* The next point to be requested
LEMMA NextRegister ==
    ASSUME NEW S \in SUBSET Nat, S # {}
    PROVE  M!Min(S) \in S
BY Lowest DEF M!Min

\* Taking an answer off the wire, or a request out of the inbox, leaves the rest.
LEMMA RestOfField ==
    ASSUME NEW q \in Seq(Requests), q # <<>>
    PROVE  /\ Tail(q) \in Seq(Requests)
           /\ Head(q) = q[1] /\ 1 \in DOMAIN q /\ q[1] \in Requests
           /\ \A i \in DOMAIN Tail(q) : i + 1 \in DOMAIN q /\ Tail(q)[i] = q[i + 1]
  OBVIOUS

\* An element appended is the last; the others stay.
LEMMA FieldEnd ==
    ASSUME NEW q \in Seq(Requests), NEW e \in Requests
    PROVE  /\ Append(q, e) \in Seq(Requests)
           /\ \A i \in DOMAIN Append(q, e) :
                \/ i \in DOMAIN q /\ Append(q, e)[i] = q[i]
                \/ Append(q, e)[i] = e
  OBVIOUS

\* Before an adapter is built no poll is under way.
LEMMA InitFieldInv == Init => FieldIInv
<1> SUFFICES ASSUME Init PROVE FieldInv
  BY DEF FieldIInv, Init
<1>1. M!ModbusInit
  BY DEF Init
<1>2. FieldTypes
  BY <1>1 DEF M!ModbusInit, FieldTypes, M!NoPoint, M!NoRequest, Requests
<1>3. EachRegisterOnce /\ NumbersAreOwn /\ M!SampleIsOwn
  BY <1>1 DEF M!ModbusInit, EachRegisterOnce, NumbersAreOwn, M!SampleIsOwn
<1> QED
  BY <1>1, <1>2, <1>3 DEF FieldInv

\* Each step of the adapter keeps the invariant of its call.
LEMMA ModbusKeeps == FieldInv /\ M!ModbusNext => FieldInv'
<1> SUFFICES ASSUME FieldInv, M!ModbusNext PROVE FieldInv'
  OBVIOUS
<1> USE FieldConstants DEF M!NoPoint, M!NoRequest
<1>i. FieldTypes /\ EachRegisterOnce /\ NumbersAreOwn /\ M!SampleIsOwn
  BY DEF FieldInv
<1>1. ASSUME NEW ps \in SUBSET Points, M!StartPoll(ps) PROVE FieldInv'
  <2>1. FieldTypes'
    BY <1>1, <1>i DEF FieldTypes, M!StartPoll, M!connection, Requests
  <2>2. EachRegisterOnce'
    <3>1. /\ pc' = "connecting" /\ result' = "none" /\ asked' = ps /\ todo' = ps
          /\ samples' = {} /\ failures' = {}
      BY <1>1 DEF M!StartPoll
    <3>2. Awaited' = {}
      BY <3>1 DEF Awaited
    <3> QED
      BY <3>1, <3>2 DEF EachRegisterOnce
  <2>3. NumbersAreOwn'
    BY <1>1, <1>i DEF NumbersAreOwn, Fits, M!StartPoll, M!connection
  <2>4. M!SampleIsOwn'
    BY <1>1, <1>i DEF M!SampleIsOwn, M!StartPoll
  <2> QED
    BY <2>1, <2>2, <2>3, <2>4 DEF FieldInv
<1>2. ASSUME NEW good \in BOOLEAN, M!Connect(good) PROVE FieldInv'
  <2> USE <1>2, <1>i DEF M!Connect, M!call, M!outcome
  <2>1. FieldTypes'
    BY DEF FieldTypes
  <2>2. EachRegisterOnce'
    BY DEF EachRegisterOnce, Awaited, FieldTypes
  <2>3. NumbersAreOwn'
    BY DEF NumbersAreOwn
  <2>4. M!SampleIsOwn'
    BY DEF M!SampleIsOwn
  <2> QED
    BY <2>1, <2>2, <2>3, <2>4 DEF FieldInv
<1>3. ASSUME M!SendRequest PROVE FieldInv'
  <2> USE <1>3, <1>i DEF M!SendRequest, M!call, M!outcome
  <2>1. current' \in todo /\ current' \in Points
    BY NextRegister DEF FieldTypes
  <2> DEFINE e == [number |-> number', address |-> M!Wire(AddressOf[current'])]
  <2>2. e \in Requests /\ inbox' = Append(inbox, e) /\ number' = number + 1
    BY <2>1 DEF FieldTypes, Requests
  <2> HIDE DEF e
  <2>3. FieldTypes'
    <3>1. inbox' \in Seq(Requests)
      BY <2>2, FieldEnd DEF FieldTypes
    <3>2. number' \in Nat
      BY <2>2 DEF FieldTypes
    <3>3. UNCHANGED <<asked, wire, samples, failures, source, result>> /\ todo' \subseteq todo
      OBVIOUS
    <3> QED
      BY <2>1, <3>1, <3>2, <3>3 DEF FieldTypes
  <2>4. EachRegisterOnce'
    <3>1. /\ pc = "between" /\ pc' = "waiting" /\ todo' = todo \ {current'}
          /\ UNCHANGED <<asked, samples, failures, result>>
      OBVIOUS
    <3>2. Awaited = {} /\ Awaited' = {current'} /\ todo = todo' \cup {current'}
      BY <2>1, <3>1 DEF Awaited
    <3>3. /\ result = "none" /\ samples \cup failures \cup todo = asked
          /\ samples \cap failures = {} /\ (samples \cup failures) \cap todo = {}
      BY <3>1, <3>2 DEF EachRegisterOnce
    <3> QED
      BY <3>1, <3>2, <3>3 DEF EachRegisterOnce
  <2>5. NumbersAreOwn'
    <3>1. ASSUME NEW x \in Requests, Fits(x, number, pc, current)
          PROVE  Fits(x, number', pc', current')
      BY <3>1, <2>2 DEF Fits, FieldTypes, Requests
    <3>2. Fits(e, number', pc', current')
      BY <2>2 DEF Fits, FieldTypes, e
    <3>3. ASSUME NEW i \in DOMAIN inbox' PROVE Fits(inbox'[i], number', pc', current')
      <4>1. CASE i \in DOMAIN inbox /\ inbox'[i] = inbox[i]
        BY <3>1, <4>1 DEF FieldTypes, NumbersAreOwn
      <4>2. CASE inbox'[i] = e
        BY <3>2, <4>2
      <4> QED
        BY <4>1, <4>2, <2>2, FieldEnd DEF FieldTypes
    <3>4. ASSUME NEW i \in DOMAIN wire PROVE Fits(wire[i], number', pc', current')
      BY <3>1 DEF FieldTypes, NumbersAreOwn
    <3> QED
      BY <3>3, <3>4 DEF NumbersAreOwn
  <2>6. M!SampleIsOwn'
    BY DEF M!SampleIsOwn
  <2> QED
    BY <2>3, <2>4, <2>5, <2>6 DEF FieldInv
<1>4. ASSUME M!DeviceAnswers PROVE FieldInv'
  <2> USE <1>4, <1>i DEF M!DeviceAnswers, M!call, M!outcome
  <2>1. FieldTypes'
    BY RestOfField, FieldEnd DEF FieldTypes
  <2>2. EachRegisterOnce'
    BY DEF EachRegisterOnce, Awaited
  <2>3. NumbersAreOwn'
    <3>1. \A i \in DOMAIN inbox' : Fits(inbox'[i], number, pc, current)
      BY RestOfField DEF FieldTypes, NumbersAreOwn
    <3>2. \A i \in DOMAIN wire' : Fits(wire'[i], number, pc, current)
      BY RestOfField, FieldEnd DEF FieldTypes, NumbersAreOwn
    <3> QED
      BY <3>1, <3>2 DEF NumbersAreOwn
  <2>4. M!SampleIsOwn'
    BY DEF M!SampleIsOwn
  <2> QED
    BY <2>1, <2>2, <2>3, <2>4 DEF FieldInv
<1>5. ASSUME NEW good \in BOOLEAN, M!ReceiveAnswer(good) PROVE FieldInv'
  <2> USE <1>5, <1>i DEF M!ReceiveAnswer, M!call
  <2>1. wire[1] \in Requests /\ Head(wire) = wire[1] /\ Fits(wire[1], number, pc, current)
    BY RestOfField DEF FieldTypes, NumbersAreOwn
  <2>2. wire' \in Seq(Requests)
    BY RestOfField DEF FieldTypes
  <2>3. current \in Points /\ current \in asked
    BY DEF FieldTypes, EachRegisterOnce, Awaited
  <2>4. NumbersAreOwn'
    BY RestOfField DEF NumbersAreOwn, Fits, FieldTypes
  <2>5. CASE M!Fail
    <3>1. FieldTypes'
      BY <2>2, <2>3, <2>5 DEF FieldTypes, M!Fail
    <3>2. EachRegisterOnce'
      BY <2>3, <2>5 DEF EachRegisterOnce, Awaited, M!Fail
    <3>3. M!SampleIsOwn'
      BY <2>5 DEF M!SampleIsOwn, M!Fail
    <3> QED
      BY <2>4, <3>1, <3>2, <3>3 DEF FieldInv
  <2>6. CASE M!Sample(Head(wire)) /\ M!Belongs(Head(wire))
    <3>1. FieldTypes'
      BY <2>1, <2>2, <2>3, <2>6 DEF FieldTypes, M!Sample
    <3>2. EachRegisterOnce'
      BY <2>3, <2>6 DEF EachRegisterOnce, Awaited, M!Sample
    <3>3. wire[1].address = AddressOf[current] % Registers
      BY <2>1, <2>6 DEF Fits, M!Belongs, M!Wire
    <3>4. M!SampleIsOwn'
      BY <2>1, <2>3, <2>6, <3>3 DEF M!SampleIsOwn, M!Sample, FieldTypes
    <3> QED
      BY <2>4, <3>1, <3>2, <3>4 DEF FieldInv
  <2> QED
    BY <2>5, <2>6
<1>6. ASSUME M!ReadTimesOut PROVE FieldInv'
  <2> USE <1>6, <1>i DEF M!ReadTimesOut, M!call, M!connection, M!Fail
  <2>1. current \in Points /\ current \in asked
    BY DEF FieldTypes, EachRegisterOnce, Awaited
  <2>2. FieldTypes'
    BY <2>1 DEF FieldTypes
  <2>3. EachRegisterOnce'
    BY <2>1 DEF EachRegisterOnce, Awaited
  <2>4. NumbersAreOwn'
    BY DEF NumbersAreOwn, Fits
  <2>5. M!SampleIsOwn'
    BY DEF M!SampleIsOwn
  <2> QED
    BY <2>2, <2>3, <2>4, <2>5 DEF FieldInv
<1>7. ASSUME M!PollReturns PROVE FieldInv'
  <2> USE <1>7, <1>i DEF M!PollReturns, M!call, M!outcome
  <2>1. FieldTypes'
    BY DEF FieldTypes
  <2>2. EachRegisterOnce'
    BY DEF EachRegisterOnce, Awaited, FieldTypes
  <2>3. NumbersAreOwn'
    BY DEF NumbersAreOwn
  <2>4. M!SampleIsOwn'
    BY DEF M!SampleIsOwn
  <2> QED
    BY <2>1, <2>2, <2>3, <2>4 DEF FieldInv
<1> QED
  BY <1>1, <1>2, <1>3, <1>4, <1>5, <1>6, <1>7 DEF M!ModbusNext, M!Client

\* What the invariant of a call is about.
field == <<pc, asked, result, todo, current, number, inbox, wire, samples, failures, source>>

\* Steps that leave the poll and its connection alone keep the invariant.
LEMMA StutterKeepsField == FieldInv /\ UNCHANGED field => FieldInv'
BY DEF FieldInv, FieldTypes, EachRegisterOnce, Awaited, NumbersAreOwn, Fits, M!SampleIsOwn, field

\* Each step of any adapter keeps the invariant.
LEMMA FieldStepKeeps == FieldIInv /\ [Next]_vars => FieldIInv'
<1> SUFFICES ASSUME FieldIInv, [Next]_vars PROVE FieldIInv'
  OBVIOUS
<1>1. ASSUME NEW id \in Configurable, NEW use \in {"worker", "job"}, Build(id, use) PROVE FieldIInv'
  <2>1. UNCHANGED field /\ role = "none" /\ role' # "none"
    BY <1>1 DEF Build, call, modbus, field
  <2> QED
    BY <1>1, <2>1, StutterKeepsField DEF FieldIInv, Build
<1>2. CASE ModbusWorker
  BY <1>2, ModbusKeeps DEF ModbusWorker, Built, FieldIInv
<1>3. CASE ModbusJob
  <2>1. UNCHANGED field
    BY <1>3 DEF ModbusJob, call, modbus, field
  <2> QED
    BY <1>3, <2>1, StutterKeepsField DEF ModbusJob, Built, FieldIInv
<1>4. CASE BacnetWorker \/ BacnetJob \/ OpcuaWorker \/ OpcuaJob
  BY <1>4 DEF BacnetWorker, BacnetJob, OpcuaWorker, OpcuaJob, Built, FieldIInv
<1>5. CASE UNCHANGED vars
  <2>1. UNCHANGED <<field, protocol, role>>
    BY <1>5 DEF vars, call, modbus, field
  <2> QED
    BY <2>1, StutterKeepsField DEF FieldIInv
<1> QED
  BY <1>1, <1>2, <1>3, <1>4, <1>5 DEF Next

-----------------------------------------------------------------------------
\* A Modbus sample is the answer to the request of its own point, however many
\* late answers are on the connection, and a poll that returns answers every
\* point it was given once, as the worker assumes (read_point and poll).
THEOREM SampleOwnAlways == Spec => []ModbusSampleIsOwn
<1>1. FieldIInv => ModbusSampleIsOwn
  <2> SUFFICES ASSUME FieldIInv, protocol = "modbus"
               PROVE  M!SampleIsOwn /\ M!PollAnswersAll
    BY DEF ModbusSampleIsOwn
  <2>1. FieldTypes /\ EachRegisterOnce /\ M!SampleIsOwn
    BY DEF FieldIInv, FieldInv
  <2>2. M!PollAnswersAll
    BY <2>1 DEF M!PollAnswersAll, M!IsPollAnswer, FieldTypes, EachRegisterOnce
  <2> QED
    BY <2>1, <2>2
<1> QED
  BY <1>1, InitFieldInv, FieldStepKeeps, PTL DEF Spec

-----------------------------------------------------------------------------
(* Polls of the OPC UA adapter. *)

ValueInv ==
    /\ asked \subseteq Enabled
    /\ pc # "reading" => connected = FALSE
    /\ pc \in {"connecting", "reading"} => samples = {} /\ result = "none"
    /\ pc = "connecting" => failures = {}
    /\ pc = "reading" => failures = {p \in asked : NodeOf[p] = Unparsed}
    /\ \A p \in samples : origin[p] = NodeOf[p]
    /\ result = "ok" => /\ O!IsPollAnswer(asked, samples, failures)
                       /\ samples \cup failures = asked \ O!Unanswered

OpcuaInv ==
    /\ role = "none" => protocol = "none"
    /\ protocol \in {"none", "opcua"} => pc \in {"idle", "connecting", "reading"} /\ ValueInv

\* What the proofs use of the constants.
LEMMA OpcuaConstants == Points \in SUBSET Nat /\ IsFiniteSet(Points) /\ Enabled \in SUBSET Points
<1>1. O!OpcuaAssumption
  BY AdaptersAssumption DEF AdaptersAssumption
<1> QED
  BY <1>1 DEF O!OpcuaAssumption, O!IsFiniteSet, IsFiniteSet

\* The points that are read, in an order that names each of them once.
LEMMA ValidFacts ==
    ASSUME asked \subseteq Enabled
    PROVE  /\ Len(O!valid) \in Nat /\ DOMAIN O!valid = 1..Len(O!valid)
           /\ \A i \in DOMAIN O!valid : O!valid[i] \in asked /\ NodeOf[O!valid[i]] # Unparsed
           /\ \A p \in asked : NodeOf[p] # Unparsed => \E i \in DOMAIN O!valid : O!valid[i] = p
           /\ \A i, j \in DOMAIN O!valid : O!valid[i] = O!valid[j] => i = j
<1> DEFINE V == {p \in asked : NodeOf[p] # Unparsed}
<1>1. O!valid = InOrder(V)
  BY DEF O!valid, O!InOrder, O!Cardinality, InOrder, Cardinality
<1>2. V \in SUBSET Nat /\ IsFiniteSet(V)
  <2>1. V \in SUBSET Points /\ IsFiniteSet(Points) /\ Points \in SUBSET Nat
    BY OpcuaConstants
  <2> HIDE DEF V
  <2> QED
    BY <2>1, FS_Subset
<1>3. /\ Cardinality(V) \in Nat /\ DOMAIN InOrder(V) = 1..Cardinality(V)
      /\ InOrder(V) \in [1..Cardinality(V) -> V]
      /\ \A i \in DOMAIN InOrder(V) : InOrder(V)[i] \in V
      /\ \A p \in V : \E i \in DOMAIN InOrder(V) : InOrder(V)[i] = p
      /\ \A i, j \in DOMAIN InOrder(V) : InOrder(V)[i] = InOrder(V)[j] => i = j
  <2> HIDE DEF V
  <2> QED
    BY <1>2, InOrderFacts
<1>4. Len(InOrder(V)) = Cardinality(V)
  <2> HIDE DEF V
  <2>1. InOrder(V) \in Seq(V)
    BY <1>3
  <2> QED
    BY <1>3, <2>1, LenProperties
<1> QED
  BY <1>1, <1>3, <1>4

\* Before an adapter is built no poll is under way.
LEMMA InitValueInv == Init => OpcuaInv
<1> SUFFICES ASSUME Init PROVE OpcuaInv
  OBVIOUS
<1>1. O!OpcuaInit /\ protocol = "none"
  BY DEF Init
<1> QED
  BY <1>1 DEF O!OpcuaInit, OpcuaInv, ValueInv

\* A read that returns: the points without a node id, those of an empty value, and the
\* samples are apart, each sample has the value at its position, and the points of no
\* position among the values are those the answer leaves out.
LEMMA ReadReturnsKeeps ==
    ASSUME ValueInv, NEW n \in 0..Len(O!valid), NEW bad, O!ReadReturns(O!Values(n), bad)
    PROVE  ValueInv'
<1> DEFINE read == {i \in 1..n : i \in DOMAIN O!valid}
           values == O!Values(n)
           good == read \ bad
<1>1. /\ asked \subseteq Enabled /\ failures = {p \in asked : NodeOf[p] = Unparsed}
      /\ samples' = {O!valid[i] : i \in good}
      /\ failures' = failures \cup {O!valid[i] : i \in read \cap bad}
      /\ origin' = [p \in Points |-> IF \E i \in good : O!valid[i] = p
                                     THEN values[CHOOSE i \in good : O!valid[i] = p] ELSE Unparsed]
      /\ connected' = FALSE /\ pc' = "idle" /\ result' = "ok" /\ asked' = asked
  BY DEF O!ReadReturns, O!Values, O!Paired, ValueInv
<1>a. answered' = n
  <2>1. answered' = Len(O!Values(n))
    BY DEF O!ReadReturns
  <2>2. n \in Nat
    BY <1>1, ValidFacts
  <2> QED
    BY <2>1, <2>2 DEF O!Values
<1>2. /\ \A i \in read : O!valid[i] \in asked /\ NodeOf[O!valid[i]] # Unparsed
      /\ \A i, j \in read : O!valid[i] = O!valid[j] => i = j
  BY <1>1, ValidFacts
<1>3. \A i \in read : values[i] = NodeOf[O!valid[i]]
  BY DEF O!Values
<1>4. \A i \in good : i \in read /\ i \notin bad
  OBVIOUS
<1> HIDE DEF read, values, good
<1>5. ASSUME NEW p \in samples'
      PROVE  origin'[p] = NodeOf[p]
  <2>1. PICK i \in good : O!valid[i] = p
    BY <1>1, <1>5
  <2>2. p \in Points
    BY <1>1, <1>2, <1>4, <2>1, OpcuaConstants
  <2>3. origin'[p] = values[CHOOSE k \in good : O!valid[k] = p]
    BY <1>1, <2>1, <2>2
  <2>4. PICK k \in good : O!valid[k] = p /\ origin'[p] = values[k]
    BY <2>1, <2>3
  <2> QED
    BY <1>3, <1>4, <2>4
<1>6. O!IsPollAnswer(asked, samples, failures)'
  <2>1. samples' \subseteq asked /\ failures' \subseteq asked
    BY <1>1, <1>2, <1>4
  <2>2. ASSUME NEW p \in samples', p \in failures'
        PROVE  FALSE
    <3>1. PICK i \in good : O!valid[i] = p
      BY <1>1
    <3>2. p \notin failures
      BY <1>1, <1>2, <1>4, <3>1
    <3>3. PICK j \in read \cap bad : O!valid[j] = p
      BY <1>1, <2>2, <3>2
    <3> QED
      BY <1>2, <1>4, <3>1, <3>3
  <2> QED
    BY <1>1, <2>1, <2>2 DEF O!IsPollAnswer
<1>7. (samples \cup failures = asked \ O!Unanswered)'
  <2>1. O!valid' = O!valid
    BY <1>1 DEF O!valid
  <2>2. O!Unanswered' = {O!valid[i] : i \in (n + 1)..Len(O!valid)}
    BY <1>a, <2>1 DEF O!Unanswered
  <2>3. /\ Len(O!valid) \in Nat /\ DOMAIN O!valid = 1..Len(O!valid)
        /\ \A i \in DOMAIN O!valid : O!valid[i] \in asked /\ NodeOf[O!valid[i]] # Unparsed
        /\ \A p \in asked : NodeOf[p] # Unparsed => \E i \in DOMAIN O!valid : O!valid[i] = p
        /\ \A i, j \in DOMAIN O!valid : O!valid[i] = O!valid[j] => i = j
    BY <1>1, ValidFacts
  <2>4. /\ \A i \in DOMAIN O!valid : i \in read <=> i <= n
        /\ \A i \in read : i \in DOMAIN O!valid
        /\ \A i \in read : i \in good \/ i \in read \cap bad
    BY <2>3 DEF read, good
  <2>5. \A i \in (n + 1)..Len(O!valid) : i \in DOMAIN O!valid /\ i \notin read
    BY <2>3, <2>4
  <2>6. ASSUME NEW p \in samples' \cup failures'
        PROVE  p \in asked /\ p \notin O!Unanswered'
    <3>1. CASE p \in failures
      BY <1>1, <2>2, <2>3, <2>5, <3>1
    <3>2. CASE p \notin failures
      <4>1. PICK i \in read : O!valid[i] = p
        BY <1>1, <1>4, <2>6, <3>2
      <4> QED
        BY <2>2, <2>3, <2>4, <2>5, <4>1
    <3> QED
      BY <3>1, <3>2
  <2>7. ASSUME NEW p \in asked, p \notin O!Unanswered'
        PROVE  p \in samples' \cup failures'
    <3>1. CASE NodeOf[p] = Unparsed
      BY <1>1, <3>1
    <3>2. CASE NodeOf[p] # Unparsed
      <4>1. PICK i \in DOMAIN O!valid : O!valid[i] = p
        BY <2>3, <3>2
      <4>2. i \in read
        BY <2>2, <2>3, <2>4, <2>7, <4>1
      <4> QED
        BY <1>1, <2>4, <4>1, <4>2
    <3> QED
      BY <3>1, <3>2
  <2> QED
    BY <1>1, <2>6, <2>7
<1> QED
  BY <1>1, <1>5, <1>6, <1>7 DEF ValueInv

\* Each step of the adapter keeps the invariant.
LEMMA ValueKeeps ==
    ASSUME pc \in {"idle", "connecting", "reading"}, ValueInv, O!OpcuaNext
    PROVE  pc' \in {"idle", "connecting", "reading"} /\ ValueInv'
<1>1. ASSUME NEW ps \in SUBSET Points, O!StartPoll(ps)
      PROVE  pc' \in {"idle", "connecting", "reading"} /\ ValueInv'
  BY <1>1 DEF O!StartPoll, ValueInv, O!IsPollAnswer
<1>2. ASSUME NEW good \in BOOLEAN, O!Connect(good)
      PROVE  pc' \in {"idle", "connecting", "reading"} /\ ValueInv'
  BY <1>2 DEF O!Connect, ValueInv, O!IsPollAnswer
<1>3. ASSUME NEW n \in 0..Len(O!valid), NEW bad, O!ReadReturns(O!Values(n), bad)
      PROVE  pc' \in {"idle", "connecting", "reading"} /\ ValueInv'
  <2>1. pc' = "idle"
    BY <1>3 DEF O!ReadReturns
  <2>2. ValueInv'
    BY <1>3, ReadReturnsKeeps
  <2> QED
    BY <2>1, <2>2
<1>4. CASE O!ReadFails
  BY <1>4 DEF O!ReadFails, ValueInv, O!IsPollAnswer
<1> QED
  BY <1>1, <1>2, <1>3, <1>4 DEF O!OpcuaNext

opcua_call == <<pc, asked, result, samples, failures, connected, origin, answered>>

\* Each step of any adapter keeps the invariant.
LEMMA OpcuaStepKeeps == OpcuaInv /\ [Next]_vars => OpcuaInv'
<1> SUFFICES ASSUME OpcuaInv, [Next]_vars PROVE OpcuaInv'
  OBVIOUS
<1>0. ASSUME UNCHANGED opcua_call, pc \in {"idle", "connecting", "reading"}, ValueInv
      PROVE  pc' \in {"idle", "connecting", "reading"} /\ ValueInv'
  BY <1>0 DEF opcua_call, ValueInv, O!IsPollAnswer, O!Unanswered, O!valid
<1>1. ASSUME NEW id \in Configurable, NEW use \in {"worker", "job"}, Build(id, use)
      PROVE  OpcuaInv'
  <2>1. UNCHANGED opcua_call /\ role = "none" /\ role' # "none"
    BY <1>1 DEF Build, call, opcua, opcua_call
  <2> QED
    BY <1>0, <1>1, <2>1 DEF OpcuaInv, Build
<1>2. CASE OpcuaWorker
  BY <1>2, ValueKeeps DEF OpcuaWorker, Built, OpcuaInv
<1>3. CASE OpcuaJob
  <2>1. UNCHANGED opcua_call
    BY <1>3 DEF OpcuaJob, call, opcua, opcua_call
  <2> QED
    BY <1>0, <1>3, <2>1 DEF OpcuaJob, Built, OpcuaInv
<1>4. CASE BacnetWorker \/ BacnetJob \/ ModbusWorker \/ ModbusJob
  BY <1>4 DEF BacnetWorker, BacnetJob, ModbusWorker, ModbusJob, Built, OpcuaInv
<1>5. CASE UNCHANGED vars
  <2>1. UNCHANGED <<opcua_call, protocol, role>>
    BY <1>5 DEF vars, call, opcua, opcua_call
  <2> QED
    BY <1>0, <2>1 DEF OpcuaInv
<1> QED
  BY <1>1, <1>2, <1>3, <1>4, <1>5 DEF Next

\* Every OPC UA sample has the value of its own node, each enabled point of a poll that
\* returned has exactly one outcome unless the server's answer ended before it (then it has
\* none), and an ended call has closed its connection, for any points and answers.
THEOREM ValuesPairedAlways == Spec => []OpcuaValuesArePaired
<1>1. OpcuaInv => OpcuaValuesArePaired
  BY DEF OpcuaInv, ValueInv, OpcuaValuesArePaired, O!ValuesArePaired
<1> QED
  BY <1>1, InitValueInv, OpcuaStepKeeps, PTL DEF Spec
=============================================================================
