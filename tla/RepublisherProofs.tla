-------------------------- MODULE RepublisherProofs --------------------------
(***************************************************************************)
(* Proofs about Republisher, for every set of points and devices and every *)
(* value of the intervals and bounds.                                      *)
(***************************************************************************)
EXTENDS Republisher, TLAPS

(***************************************************************************)
(* Type correctness.                                                       *)
(***************************************************************************)

\* The delay update_device_backoffs computes is a duration.
LEMMA NextDelayType ==
    ASSUME NEW e \in [delay : Nat, until : Nat]
    PROVE  NextDelay(e) \in Nat
BY ConstantsAssumption DEF NextDelay, Lesser, NoBackoff

\* A poll outcome leaves the backoffs well typed.
LEMMA BackoffUpdateType ==
    ASSUME NEW bs \in [Devices -> [delay : Nat, until : Nat]],
           NEW samples, NEW failures, NEW at \in Nat
    PROVE  update_device_backoffs(bs, samples, failures, at)
               \in [Devices -> [delay : Nat, until : Nat]]
<1>1. ASSUME NEW d \in Devices
      PROVE  NextDelay(bs[d]) \in Nat
  BY NextDelayType
<1>2. NoBackoff \in [delay : Nat, until : Nat]
  BY DEF NoBackoff
<1>3. ASSUME NEW d \in Devices
      PROVE  [delay |-> NextDelay(bs[d]), until |-> at + NextDelay(bs[d])]
                 \in [delay : Nat, until : Nat]
  BY <1>1
<1> QED  BY <1>2, <1>3 DEF update_device_backoffs

\* Every step of the worker and of its owner keeps the types.
LEMMA TypeStep == TypeOK /\ [Next]_vars => TypeOK'
<1> SUFFICES ASSUME TypeOK, [Next]_vars PROVE TypeOK'
  OBVIOUS
<1> USE ConstantsAssumption DEF TypeOK, PCs, GoTo, Elapse, link, timers, cycle, devices, history
<1>1. CASE RequestStop  BY <1>1 DEF RequestStop
<1>2. CASE Spawn
  BY <1>2 DEF Spawn, RuntimeFails, EmitStarting, UsePoints, StartDiscovery,
              NothingToPublish, LinkFails, EnterLoop, Fails
<1>3. CASE Discovery
  <2> PICK dt \in 0..MaxAwait : DiscoveryReturns(dt) \/ DiscoveryFails(dt)
    BY <1>3 DEF Discovery
  <2>1. CASE DiscoveryReturns(dt)  BY <2>1 DEF DiscoveryReturns
  <2>2. CASE DiscoveryFails(dt)  BY <2>2 DEF DiscoveryFails
  <2> QED  BY <2>1, <2>2
<1>4. CASE FirstRefresh
  <2> PICK dt \in 0..MaxAwait, missing \in SUBSET unique_device_instances(points) :
             FirstRefreshReturns(dt, missing)
    BY <1>4 DEF FirstRefresh
  <2>1. missing \subseteq Devices
    BY DEF unique_device_instances, DevicesOf, DeviceOf, Active
  <2> QED  BY <2>1 DEF FirstRefreshReturns, record_unresolved_failures
<1>5. CASE BeginCycle \/ StartKeepalive \/ StartReresolve
  BY <1>5 DEF BeginCycle, StartKeepalive, StartReresolve
<1>6. CASE Refresh
  <2>1. ASSUME NEW dt \in 0..MaxAwait, NEW missing \in SUBSET Devices,
               RefreshReturns(dt, missing)
        PROVE  TypeOK'
    BY <2>1 DEF RefreshReturns, apply_refresh_state, emit_refresh_state_change, record_unresolved_failures, NoBackoff
  <2>2. ASSUME NEW dt \in 0..MaxAwait, RefreshFails(dt) PROVE TypeOK'
    BY <2>2 DEF RefreshFails
  <2> QED  BY <1>6, <2>1, <2>2 DEF Refresh
<1>7. CASE StartPoll \/ NothingDue
  BY <1>7 DEF StartPoll, NothingDue, due_points, Active
<1>8. CASE Poll
  <2>1. ASSUME NEW dt \in 0..MaxAwait, NEW samples \in SUBSET due,
               NEW failures \in SUBSET due, NEW rejected \in BOOLEAN,
               PollReturns(dt, samples, failures, rejected)
        PROVE  TypeOK'
    <3>1. backoff' \in [Devices -> [delay : Nat, until : Nat]]
      BY <2>1, BackoffUpdateType DEF PollReturns
    <3>2. status' \in [Ids -> {"none", "stale", "fresh"}]
      BY <2>1 DEF PollReturns, record_outcome
    <3>3. lastPoll' \in [Ids -> Nat \cup {Never}]
      BY <2>1 DEF PollReturns
    <3>4. failedReads' \in BOOLEAN /\ failedPublishes' \in BOOLEAN
      BY <2>1 DEF PollReturns
    <3> QED  BY <2>1, <3>1, <3>2, <3>3, <3>4 DEF PollReturns
  <2>2. ASSUME NEW dt \in 0..MaxAwait, PollFails(dt) PROVE TypeOK'
    BY <2>2 DEF PollFails
  <2> HIDE DEF TypeOK
  <2> QED  BY <1>8, <2>1, <2>2 DEF Poll
<1>9. CASE Health
  <2>1. HealthStatus \in {"ok", "degraded"}
    BY DEF HealthStatus
  <2>2. CASE SkipHealth  BY <2>2 DEF SkipHealth
  <2>3. CASE PublishHealth
    <3>1. health' \in {"none", "ok", "degraded"}
      BY <2>1, <2>3 DEF PublishHealth
    <3>2. failedReads' \in BOOLEAN /\ failedPublishes' \in BOOLEAN
      BY <2>3 DEF PublishHealth
    <3> QED  BY <2>3, <3>1, <3>2 DEF PublishHealth
  <2> QED  BY <1>9, <2>2, <2>3 DEF Health
<1>10. CASE Sleep \/ LeaveLoop \/ Finish
  BY <1>10 DEF Sleep, LeaveLoop, Finish
<1>11. CASE Crash  BY <1>11 DEF Crash, Fails
<1>12. CASE UNCHANGED vars  BY <1>12 DEF vars
<1> HIDE DEF TypeOK
<1> QED
  BY <1>1, <1>2, <1>3, <1>4, <1>5, <1>6, <1>7, <1>8, <1>9, <1>10, <1>11, <1>12
     DEF Next, OwnStep, CallReturn

\* The variables of the worker keep their types in every behaviour.
THEOREM TypeCorrect == Spec => []TypeOK
<1>1. Init => TypeOK
  <2> SUFFICES ASSUME Init PROVE TypeOK
    OBVIOUS
  <2>1. backoff \in [Devices -> [delay : Nat, until : Nat]]
    BY DEF Init, NoBackoff
  <2>2. stop \in BOOLEAN /\ failedReads \in BOOLEAN /\ failedPublishes \in BOOLEAN
    BY DEF Init
  <2> QED  BY <2>1, <2>2 DEF Init, TypeOK, PCs
<1> QED  BY <1>1, TypeStep, PTL DEF Spec

(***************************************************************************)
(* The inductive invariant.  UnresolvedAreStale and BackoffHasCause are    *)
(* not inductive alone: a poll in flight must not touch an unresolved      *)
(* device (its sample would make the point fresh again), and the point     *)
(* list, which discovery may still replace, must be settled before         *)
(* anything refers to it.                                                  *)
(***************************************************************************)

BeforeLoop == {"spawned", "starting", "discovering", "linking", "refreshing"}

\* Nothing is unresolved or backing off before the first refresh answered.
CleanBeforeLoop ==
    pc \in BeforeLoop =>
        unresolved = {} /\ \A d \in Devices : backoff[d] = NoBackoff

\* Only devices of enabled points are ever unresolved.
UnresolvedAreOurs == unresolved \subseteq unique_device_instances(points)

\* The poll in flight (or the one an adapter panicked in) reads enabled points
\* of resolved devices only.
DueArePollable ==
    /\ pc \notin {"polling", "done"} => due = {}
    /\ \A p \in due : p \in Active(points) /\ DeviceOf(p) \notin unresolved

NowIsPast == now <= clock

IInv ==
    /\ CleanBeforeLoop
    /\ UnresolvedAreOurs
    /\ DueArePollable
    /\ NowIsPast
    /\ UnresolvedAreStale
    /\ BackoffBounded
    /\ BackoffHasCause

\* The delay after a failure lies between the initial and the maximal one if
\* the previous one did.
LEMMA NextDelayBounded ==
    ASSUME NEW e \in [delay : Nat, until : Nat],
           e # NoBackoff => e.delay \in BackoffInitial..BackoffMax
    PROVE  NextDelay(e) \in BackoffInitial..BackoffMax
BY ConstantsAssumption DEF NextDelay, Lesser

\* A device has one identity-independent number: points with the same
\* identity are points of the same device.
LEMMA SameIdSameDevice ==
    ASSUME NEW ps, NEW p, IdOf[p] \in IdsOf(ps), DeviceOf(p) # NoDevice
    PROVE  DeviceOf(p) \in DevicesOf(ps)
BY DEF IdsOf, DevicesOf, DeviceOf

\* A step that leaves the point list, the device table and the statuses alone
\* and does not turn back time keeps the invariant.
LEMMA QuietStep ==
    ASSUME TypeOK, TypeOK', IInv, UNCHANGED <<points, unresolved, backoff, status>>,
           clock <= clock', now' \in {now, clock},
           pc' \in BeforeLoop => pc \in BeforeLoop,
           due' = {} \/ (due' = due /\ pc' = "done")
    PROVE  IInv'
<1>1. CleanBeforeLoop'  BY DEF IInv, CleanBeforeLoop
<1>2. UnresolvedAreOurs'
  BY DEF IInv, UnresolvedAreOurs, unique_device_instances, Active
<1>3. DueArePollable'  BY DEF IInv, DueArePollable, Active, DeviceOf
<1>4. NowIsPast'  BY DEF IInv, NowIsPast, TypeOK
<1>5. UnresolvedAreStale'
  BY DEF IInv, UnresolvedAreStale, Active
<1>6. BackoffBounded'
  BY ConstantsAssumption DEF IInv, BackoffBounded, TypeOK
<1>7. BackoffHasCause'
  BY DEF IInv, BackoffHasCause, Active
<1> QED  BY <1>1, <1>2, <1>3, <1>4, <1>5, <1>6, <1>7 DEF IInv

\* Marking the points of the devices ds makes every enabled point of such a
\* device stale and touches no other status.
LEMMA MarkStale ==
    ASSUME NEW st \in [Ids -> {"none", "stale", "fresh"}], NEW ds, NEW i \in Ids
    PROVE  LET marked == record_unresolved_failures(st, ds) IN
           /\ marked[i] \in {"stale", st[i]}
           /\ \A p \in Active(points) :
                (DeviceOf(p) \in ds /\ IdOf[p] = i) => marked[i] = "stale"
BY DEF record_unresolved_failures, IdsOf

\* The first answer of the device table establishes the loop's invariant.
LEMMA FirstRefreshStep ==
    ASSUME TypeOK, TypeOK', IInv, NEW dt \in 0..MaxAwait,
           NEW missing \in SUBSET unique_device_instances(points),
           FirstRefreshReturns(dt, missing)
    PROVE  IInv'
<1> USE DEF FirstRefreshReturns, GoTo, Elapse, link
<1>1. CleanBeforeLoop'
  BY DEF CleanBeforeLoop, BeforeLoop
<1>2. UnresolvedAreOurs'
  BY DEF UnresolvedAreOurs, unique_device_instances, Active
<1>3. DueArePollable'
  BY DEF IInv, DueArePollable
<1>4. NowIsPast'
  BY ConstantsAssumption DEF IInv, NowIsPast, TypeOK
<1>5. UnresolvedAreStale'
  <2> SUFFICES ASSUME NEW p \in Active(points), DeviceOf(p) \in missing
               PROVE  status'[IdOf[p]] = "stale"
    BY DEF UnresolvedAreStale, Active
  <2>1. IdOf[p] \in Ids
    BY ConstantsAssumption DEF Active, TypeOK
  <2> QED  BY <2>1, MarkStale DEF TypeOK
<1>6. \A d \in Devices : backoff'[d] = NoBackoff
  BY DEF IInv, CleanBeforeLoop, BeforeLoop
<1> QED  BY <1>1, <1>2, <1>3, <1>4, <1>5, <1>6 DEF IInv, BackoffBounded, BackoffHasCause

\* A later answer: what went missing is marked, what answered is forgiven.
LEMMA RefreshStep ==
    ASSUME TypeOK, TypeOK', IInv, NEW dt \in 0..MaxAwait,
           NEW missing \in SUBSET Devices, RefreshReturns(dt, missing)
    PROVE  IInv'
<1> USE DEF RefreshReturns, IsRefreshAnswer, apply_refresh_state, emit_refresh_state_change, Elapse, link
<1>0. Requested \subseteq unique_device_instances(points)
  BY DEF Requested, IInv, UnresolvedAreOurs
<1>1. CleanBeforeLoop'
  BY DEF CleanBeforeLoop, BeforeLoop
<1>2. UnresolvedAreOurs'
  BY <1>0 DEF IInv, UnresolvedAreOurs, unique_device_instances, Active
<1>3. DueArePollable'
  BY DEF IInv, DueArePollable
<1>4. clock \in Nat /\ clock' \in Nat /\ clock <= clock'
  BY ConstantsAssumption DEF TypeOK
<1>5. NowIsPast'
  BY <1>4 DEF IInv, NowIsPast, TypeOK
<1>6. \A i \in Ids : status'[i] \in {"stale", status[i]}
  BY MarkStale DEF TypeOK
<1>7. UnresolvedAreStale'
  <2> SUFFICES ASSUME NEW p \in Active(points), DeviceOf(p) \in unresolved'
               PROVE  status'[IdOf[p]] = "stale"
    BY DEF UnresolvedAreStale, Active
  <2>1. IdOf[p] \in Ids
    BY ConstantsAssumption DEF Active, TypeOK
  <2>2. CASE DeviceOf(p) \in unresolved
    BY <1>6, <2>1, <2>2 DEF IInv, UnresolvedAreStale
  <2>3. CASE DeviceOf(p) \in missing \ unresolved
    BY <2>1, <2>3, MarkStale DEF TypeOK
  <2> QED  BY <2>2, <2>3
<1>8. \A d \in Devices : backoff'[d] \in {NoBackoff, backoff[d]}
  BY DEF TypeOK
<1>9. BackoffBounded'
  <2> SUFFICES ASSUME NEW d \in Devices, backoff'[d] # NoBackoff
               PROVE  /\ backoff'[d].delay \in BackoffInitial..BackoffMax
                      /\ backoff'[d].until <= clock' + BackoffMax
    BY DEF BackoffBounded
  <2>1. backoff'[d] = backoff[d]
    BY <1>8
  <2>2. backoff[d].until \in Nat
    BY DEF TypeOK
  <2> QED  BY <1>4, <2>1, <2>2, ConstantsAssumption DEF IInv, BackoffBounded
<1>10. BackoffHasCause'
  <2> SUFFICES ASSUME NEW d \in Devices, backoff'[d] # NoBackoff
               PROVE  \E p \in Active(points) : DeviceOf(p) = d /\ status'[IdOf[p]] = "stale"
    BY DEF BackoffHasCause, Active
  <2>1. backoff[d] # NoBackoff
    BY <1>8
  <2>2. PICK p \in Active(points) : DeviceOf(p) = d /\ status[IdOf[p]] = "stale"
    BY <2>1 DEF IInv, BackoffHasCause
  <2>3. IdOf[p] \in Ids
    BY ConstantsAssumption DEF Active, TypeOK
  <2> QED  BY <1>6, <2>2, <2>3
<1> QED  BY <1>1, <1>2, <1>3, <1>5, <1>7, <1>9, <1>10 DEF IInv

\* A poll starts with points of resolved devices only.
LEMMA StartPollStep ==
    ASSUME TypeOK, TypeOK', IInv, StartPoll
    PROVE  IInv'
<1> USE DEF StartPoll, GoTo, link, devices, history
<1>1. DueArePollable'
  <2>1. ASSUME NEW p \in due'
        PROVE  p \in Active(points) /\ DeviceOf(p) \notin unresolved
    <3>1. p \in Active(points) /\ ~device_blocked(p, now)
      BY <2>1 DEF due_points
    <3>2. DeviceOf(p) = NoDevice => DeviceOf(p) \notin unresolved
      BY ConstantsAssumption DEF TypeOK
    <3> QED  BY <3>1, <3>2 DEF device_blocked
  <2> QED  BY <2>1 DEF DueArePollable, Active, DeviceOf
<1>2. CleanBeforeLoop'  BY DEF CleanBeforeLoop, BeforeLoop
<1>3. UnresolvedAreOurs'
  BY DEF IInv, UnresolvedAreOurs, unique_device_instances, Active
<1>4. NowIsPast' /\ BackoffBounded'
  BY DEF IInv, NowIsPast, BackoffBounded
<1>5. UnresolvedAreStale' /\ BackoffHasCause'
  BY DEF IInv, UnresolvedAreStale, BackoffHasCause, Active
<1> QED  BY <1>1, <1>2, <1>3, <1>4, <1>5 DEF IInv

\* What a poll does to one status.
LEMMA OutcomeCases ==
    ASSUME NEW st \in [Ids -> {"none", "stale", "fresh"}],
           NEW samples, NEW failures, NEW i \in Ids
    PROVE  LET s == record_outcome(st, samples, failures)[i] IN
           /\ i \in IdsOf(failures) \ IdsOf(samples) => s = "stale"
           /\ i \notin IdsOf(samples) => s \in {"stale", st[i]}
BY DEF record_outcome

\* A poll neither freshens an unresolved device nor leaves a backoff behind
\* whose failing point it has just read successfully.
LEMMA PollStep ==
    ASSUME TypeOK, TypeOK', IInv, NEW dt \in 0..MaxAwait,
           NEW samples \in SUBSET due, NEW failures \in SUBSET due,
           NEW rejected \in BOOLEAN, PollReturns(dt, samples, failures, rejected)
    PROVE  IInv'
<1> USE DEF PollReturns, IsPollAnswer, GoTo, Elapse, link
<1>1. CleanBeforeLoop'  BY DEF CleanBeforeLoop, BeforeLoop
<1>2. UnresolvedAreOurs'
  BY DEF IInv, UnresolvedAreOurs, unique_device_instances, Active
<1>3. DueArePollable'  BY DEF DueArePollable
<1>4. clock \in Nat /\ clock' \in Nat /\ now <= clock /\ clock <= clock' /\ now \in Nat
  BY ConstantsAssumption DEF TypeOK, IInv, NowIsPast
<1>5. NowIsPast'  BY <1>4 DEF NowIsPast
<1>6. \A p \in due : p \in Active(points) /\ DeviceOf(p) \notin unresolved
  BY DEF IInv, DueArePollable
<1>7. \A p \in Active(points) : IdOf[p] \in Ids /\ DeviceOf(p) \in Devices \cup {NoDevice}
  BY ConstantsAssumption DEF Active, TypeOK, DeviceOf
\* A sample clears a backoff, failures alone extend it, silence leaves it.
<1>b. ASSUME NEW d \in Devices
      PROVE  \/ d \in DevicesOf(samples) /\ backoff'[d] = NoBackoff
             \/ /\ d \notin DevicesOf(samples) /\ d \in DevicesOf(failures)
                /\ backoff'[d] = [delay |-> NextDelay(backoff[d]),
                                  until |-> now + NextDelay(backoff[d])]
             \/ /\ d \notin DevicesOf(samples) /\ d \notin DevicesOf(failures)
                /\ backoff'[d] = backoff[d]
  <2>1. backoff \in [Devices -> [delay : Nat, until : Nat]]
    BY DEF TypeOK
  <2>2. backoff' = update_device_backoffs(backoff, samples, failures, now)
    OBVIOUS
  <2> HIDE DEF PollReturns
  <2> QED  BY <2>1, <2>2 DEF update_device_backoffs
<1>8. UnresolvedAreStale'
  <2> SUFFICES ASSUME NEW p \in Active(points), DeviceOf(p) \in unresolved
               PROVE  status'[IdOf[p]] = "stale"
    BY DEF UnresolvedAreStale, Active
  <2>1. DeviceOf(p) # NoDevice
    BY ConstantsAssumption DEF TypeOK
  <2>2. IdOf[p] \notin IdsOf(samples)
    BY <1>6, <2>1, SameIdSameDevice DEF DevicesOf
  <2>3. status[IdOf[p]] = "stale"
    BY DEF IInv, UnresolvedAreStale
  <2> QED  BY <1>7, <2>2, <2>3, OutcomeCases DEF TypeOK
<1>9. BackoffBounded'
  <2> SUFFICES ASSUME NEW d \in Devices, backoff'[d] # NoBackoff
               PROVE  /\ backoff'[d].delay \in BackoffInitial..BackoffMax
                      /\ backoff'[d].until <= clock' + BackoffMax
    BY DEF BackoffBounded
  <2> DEFINE e == backoff[d]
  <2>1. e \in [delay : Nat, until : Nat]
    BY DEF TypeOK
  <2>2. e # NoBackoff => /\ e.delay \in BackoffInitial..BackoffMax
                         /\ e.until <= clock + BackoffMax
    BY DEF IInv, BackoffBounded
  <2>3. CASE backoff'[d] = e
    BY <1>4, <2>1, <2>2, <2>3, ConstantsAssumption
  <2>4. CASE backoff'[d] = [delay |-> NextDelay(e), until |-> now + NextDelay(e)]
    <3>1. NextDelay(e) \in BackoffInitial..BackoffMax
      BY <2>1, <2>2, NextDelayBounded
    <3> HIDE DEF e
    <3> QED  BY <1>4, <2>4, <3>1, ConstantsAssumption
  <2> QED  BY <1>b, <2>3, <2>4
<1>10. BackoffHasCause'
  <2> SUFFICES ASSUME NEW d \in Devices, backoff'[d] # NoBackoff
               PROVE  \E p \in Active(points) : DeviceOf(p) = d /\ status'[IdOf[p]] = "stale"
    BY DEF BackoffHasCause, Active
  <2>1. d \notin DevicesOf(samples)
    BY <1>b
  <2>2. \A p \in Active(points) : DeviceOf(p) = d => IdOf[p] \notin IdsOf(samples)
    BY <2>1, SameIdSameDevice, ConstantsAssumption
  <2>3. CASE d \in DevicesOf(failures)
    <3>1. PICK p \in failures : DeviceOf(p) = d
      BY <2>3 DEF DevicesOf
    <3>2. p \in Active(points) /\ IdOf[p] \in IdsOf(failures)
      BY <1>6 DEF IdsOf
    <3>3. status'[IdOf[p]] = "stale"
      BY <1>7, <2>2, <3>1, <3>2, OutcomeCases DEF TypeOK
    <3> QED  BY <3>1, <3>2, <3>3
  <2>4. CASE d \notin DevicesOf(failures)
    <3>1. backoff[d] # NoBackoff
      BY <1>b, <2>1, <2>4
    <3>2. PICK p \in Active(points) : DeviceOf(p) = d /\ status[IdOf[p]] = "stale"
      BY <3>1 DEF IInv, BackoffHasCause
    <3>3. status'[IdOf[p]] = "stale"
      BY <1>7, <2>2, <3>2, OutcomeCases DEF TypeOK
    <3> QED  BY <3>2, <3>3
  <2> QED  BY <2>3, <2>4
<1> QED  BY <1>1, <1>2, <1>3, <1>5, <1>8, <1>9, <1>10 DEF IInv

\* Discovery replaces the point list while nothing refers to it yet.
LEMMA DiscoveryStep ==
    ASSUME TypeOK, TypeOK', IInv, pc = "discovering",
           UNCHANGED <<unresolved, backoff, now, due>>, clock <= clock',
           pc' # "polling"
    PROVE  IInv'
<1>1. unresolved' = {} /\ \A d \in Devices : backoff'[d] = NoBackoff
  BY DEF IInv, CleanBeforeLoop, BeforeLoop
<1>2. due' = {} /\ now' <= clock'
  BY DEF IInv, DueArePollable, NowIsPast, TypeOK
<1> QED
  BY <1>1, <1>2 DEF IInv, CleanBeforeLoop, UnresolvedAreOurs, DueArePollable,
     NowIsPast, UnresolvedAreStale, BackoffBounded, BackoffHasCause

\* Every step keeps the invariant.
LEMMA InvStep == TypeOK /\ TypeOK' /\ IInv /\ [Next]_vars => IInv'
<1> SUFFICES ASSUME TypeOK, TypeOK', IInv, [Next]_vars PROVE IInv'
  OBVIOUS
<1> USE DEF GoTo, link, devices, history, timers, cycle
<1>a. clock <= clock
  BY DEF TypeOK
<1>b. ASSUME NEW dt \in Nat, Elapse(dt) PROVE clock <= clock'
  BY <1>b DEF TypeOK, Elapse
<1>c. 0..MaxAwait \subseteq Nat /\ 1 \in Nat /\ StopTimeout \in Nat
  BY ConstantsAssumption
<1>d. pc \notin {"polling", "done"} => due = {}
  BY DEF IInv, DueArePollable
<1>1. CASE RequestStop
  <2>1. UNCHANGED <<pc, points, clock, now, unresolved, backoff, status, due>>
    BY <1>1 DEF RequestStop
  <2> QED
    BY <2>1 DEF IInv, CleanBeforeLoop, UnresolvedAreOurs, unique_device_instances, Active,
       DueArePollable, NowIsPast, UnresolvedAreStale, BackoffBounded, BackoffHasCause
<1>2. CASE Spawn
  BY <1>2, <1>a, <1>d, QuietStep DEF Spawn, RuntimeFails, EmitStarting, UsePoints,
     StartDiscovery, NothingToPublish, LinkFails, EnterLoop, Fails, BeforeLoop
<1>3. CASE Discovery
  <2> PICK dt \in 0..MaxAwait : DiscoveryReturns(dt) \/ DiscoveryFails(dt)
    BY <1>3 DEF Discovery
  <2>1. Elapse(dt)
    BY DEF DiscoveryReturns, DiscoveryFails
  <2>2. clock <= clock'
    BY <2>1, <1>b, <1>c
  <2> QED  BY <2>2, DiscoveryStep DEF DiscoveryReturns, DiscoveryFails
<1>4. CASE FirstRefresh  BY <1>4, FirstRefreshStep DEF FirstRefresh
<1>5. CASE BeginCycle \/ StartKeepalive \/ StartReresolve
  BY <1>5, <1>a, <1>d, QuietStep
     DEF BeginCycle, StartKeepalive, StartReresolve, BeforeLoop
<1>6. CASE Refresh
  <2>1. ASSUME NEW dt \in 0..MaxAwait, RefreshFails(dt) PROVE IInv'
    <3>1. clock <= clock'
      BY <2>1, <1>b, <1>c DEF RefreshFails
    <3> QED  BY <2>1, <3>1, <1>d, QuietStep DEF RefreshFails, BeforeLoop
  <2> QED  BY <1>6, <2>1, RefreshStep DEF Refresh
<1>7. CASE StartPoll  BY <1>7, StartPollStep
<1>8. CASE NothingDue
  BY <1>8, <1>a, <1>d, QuietStep DEF NothingDue, BeforeLoop
<1>9. CASE Poll
  <2>1. ASSUME NEW dt \in 0..MaxAwait, PollFails(dt) PROVE IInv'
    <3>1. clock <= clock'
      BY <2>1, <1>b, <1>c DEF PollFails
    <3> QED  BY <2>1, <3>1, QuietStep DEF PollFails, BeforeLoop
  <2>2. ASSUME NEW dt \in 0..MaxAwait, NEW samples \in SUBSET due,
               NEW failures \in SUBSET due, NEW rejected \in BOOLEAN,
               PollReturns(dt, samples, failures, rejected)
        PROVE  IInv'
    BY <2>2, PollStep
  <2> HIDE DEF IInv
  <2> QED  BY <1>9, <2>1, <2>2 DEF Poll
<1>10. CASE Health
  BY <1>10, <1>a, <1>d, QuietStep DEF Health, SkipHealth, PublishHealth, BeforeLoop
<1>11. CASE Sleep \/ Finish
  <2>1. clock <= clock'
    BY <1>11, <1>b, <1>c DEF Sleep, Finish
  <2> QED  BY <1>11, <2>1, <1>d, QuietStep DEF Sleep, Finish, BeforeLoop
<1>12. CASE LeaveLoop
  BY <1>12, <1>a, <1>d, QuietStep DEF LeaveLoop, BeforeLoop
<1>13. CASE Crash
  <2>1. /\ pc' = "done"
        /\ UNCHANGED <<points, clock, now, unresolved, backoff, status, due>>
    BY <1>13 DEF Crash, Fails
  <2> QED  BY <2>1, <1>a, QuietStep DEF BeforeLoop
<1>14. CASE UNCHANGED vars
  BY <1>14 DEF vars, IInv, CleanBeforeLoop, UnresolvedAreOurs, unique_device_instances,
     Active, DueArePollable, NowIsPast, UnresolvedAreStale, BackoffBounded, BackoffHasCause
<1> QED
  BY <1>1, <1>2, <1>3, <1>4, <1>5, <1>6, <1>7, <1>8, <1>9, <1>10, <1>11, <1>12, <1>13,
     <1>14 DEF Next, OwnStep, CallReturn

\* The invariant holds in every behaviour.
LEMMA IInvAlways == Spec => [](TypeOK /\ IInv)
<1>1. Init => IInv
  <2> SUFFICES ASSUME Init PROVE IInv
    OBVIOUS
  <2>1. /\ unresolved = {} /\ due = {} /\ now = 0 /\ clock = 0
        /\ \A d \in Devices : backoff[d] = NoBackoff
    BY DEF Init
  <2> QED
    BY <2>1 DEF IInv, CleanBeforeLoop, UnresolvedAreOurs, DueArePollable, NowIsPast,
       UnresolvedAreStale, BackoffBounded, BackoffHasCause
<1> QED  BY <1>1, TypeCorrect, InvStep, PTL DEF Spec

(***************************************************************************)
(* The safety properties that follow from it.                              *)
(***************************************************************************)

\* Whatever the adapter answers, an enabled point of an unresolved device is
\* marked stale (record_unresolved_failures, apply_refresh_state, due_points).
THEOREM UnresolvedStaleAlways == Spec => []UnresolvedAreStale
<1>1. IInv => UnresolvedAreStale
  BY DEF IInv
<1> QED  BY <1>1, IInvAlways, PTL

\* Every backoff stays within its limits (update_device_backoffs).
THEOREM BackoffBoundedAlways == Spec => []BackoffBounded
<1>1. IInv => BackoffBounded
  BY DEF IInv
<1> QED  BY <1>1, IInvAlways, PTL

\* No backoff outlives the failure it was set for.
THEOREM BackoffCauseAlways == Spec => []BackoffHasCause
<1>1. IInv => BackoffHasCause
  BY DEF IInv
<1> QED  BY <1>1, IInvAlways, PTL

\* HealthSnapshot::status says "ok" only while no device is being skipped.
THEOREM HealthOkAlways == Spec => []HealthOkMeansReachable
<1>1. TypeOK /\ IInv => HealthOkMeansReachable
  <2> SUFFICES ASSUME TypeOK, IInv, HealthStatus = "ok"
               PROVE  unresolved = {} /\ \A d \in Devices : backoff[d] = NoBackoff
    BY DEF HealthOkMeansReachable
  <2>1. \A i \in Ids : status[i] # "stale"
    BY DEF HealthStatus
  <2>2. \A p \in Active(points) : status[IdOf[p]] # "stale"
    BY <2>1, ConstantsAssumption DEF Active, TypeOK
  <2>3. unresolved = {}
    <3> SUFFICES ASSUME NEW d \in unresolved PROVE FALSE
      OBVIOUS
    <3> PICK p \in Active(points) : DeviceOf(p) = d
      BY DEF IInv, UnresolvedAreOurs, unique_device_instances, DevicesOf
    <3> QED  BY <2>2 DEF IInv, UnresolvedAreStale
  <2>4. \A d \in Devices : backoff[d] = NoBackoff
    BY <2>2 DEF IInv, BackoffHasCause
  <2> QED  BY <2>3, <2>4
<1> QED  BY <1>1, IInvAlways, PTL

(***************************************************************************)
(* The bound on the time between two attempts to resolve.  How far back    *)
(* the last attempt may be depends on where in its iteration the loop is:  *)
(* right after the check, after the poll, or after the sleep.              *)
(***************************************************************************)

\* What is left of RetryWithin at each point of the loop.
Slack ==
    CASE pc = "top"                  -> 0
      [] pc \in {"health", "sleeping"} -> 1
      [] OTHER                       -> MaxAwait + 1

RetryInv ==
    /\ lastResolve <= clock
    /\ pc \in BeforeLoop => unresolved = {}
    /\ pc \in {"keepalive", "reresolving"} => lastResolve = clock
    /\ (unresolved # {} /\ pc \notin {"stopping", "done"}) =>
            clock - lastResolve <= RetryWithin - Slack

\* Every step keeps the bound.
LEMMA RetryStep == TypeOK /\ TypeOK' /\ RetryInv /\ [Next]_vars => RetryInv'
<1> SUFFICES ASSUME TypeOK, TypeOK', RetryInv, [Next]_vars PROVE RetryInv'
  OBVIOUS
<1> USE ConstantsAssumption
    DEF GoTo, Elapse, link, devices, history, timers, cycle, BeforeLoop, Slack,
        RetryWithin
<1>1. /\ clock \in Nat /\ clock' \in Nat /\ lastResolve \in Nat /\ lastResolve' \in Nat
      /\ MaxAwait \in Nat /\ Reresolve \in Nat /\ StopTimeout \in Nat
  BY DEF TypeOK
<1>2. CASE RequestStop  BY <1>1, <1>2 DEF RequestStop, RetryInv
<1>3. CASE Spawn
  BY <1>1, <1>3 DEF Spawn, RuntimeFails, EmitStarting, UsePoints, StartDiscovery,
     NothingToPublish, LinkFails, EnterLoop, Fails, RetryInv
<1>4. CASE Discovery
  <2> PICK dt \in 0..MaxAwait : DiscoveryReturns(dt) \/ DiscoveryFails(dt)
    BY <1>4 DEF Discovery
  <2>1. /\ pc = "discovering" /\ pc' \in {"done", "linking"}
        /\ clock' = clock + dt /\ UNCHANGED <<unresolved, lastResolve>>
    BY DEF DiscoveryReturns, DiscoveryFails
  <2> QED  BY <1>1, <2>1 DEF RetryInv
<1>5. CASE FirstRefresh
  <2>1. pc' = "top" /\ lastResolve' = clock'
    BY <1>5 DEF FirstRefresh, FirstRefreshReturns
  <2> QED  BY <1>1, <2>1 DEF RetryInv
<1>6. CASE BeginCycle
  <2>1. unresolved # {} => clock - lastResolve < Reresolve
    BY <1>1, <1>6 DEF BeginCycle, ReresolveDue
  <2> QED  BY <1>1, <1>6, <2>1 DEF BeginCycle, RetryInv
<1>7. CASE StartKeepalive \/ StartReresolve
  BY <1>1, <1>7 DEF StartKeepalive, StartReresolve, RetryInv
<1>8. CASE Refresh
  <2>1. PICK dt \in 0..MaxAwait :
          /\ pc \in {"keepalive", "reresolving"} /\ pc' = "due"
          /\ clock' = clock + dt /\ lastResolve' = lastResolve
    BY <1>8 DEF Refresh, RefreshReturns, RefreshFails
  <2> QED  BY <1>1, <2>1 DEF RetryInv
<1>9. CASE StartPoll \/ NothingDue
  BY <1>1, <1>9 DEF StartPoll, NothingDue, RetryInv
<1>10. CASE Poll
  <2>1. PICK dt \in 0..MaxAwait :
          /\ pc = "polling" /\ pc' = "health"
          /\ clock' = clock + dt /\ UNCHANGED <<lastResolve, unresolved>>
    BY <1>10 DEF Poll, PollReturns, PollFails
  <2> QED  BY <1>1, <2>1 DEF RetryInv
<1>11. CASE Health
  BY <1>1, <1>11 DEF Health, SkipHealth, PublishHealth, RetryInv
<1>12. CASE Sleep \/ LeaveLoop \/ Finish
  BY <1>1, <1>12 DEF Sleep, LeaveLoop, Finish, RetryInv
<1>13. CASE Crash  BY <1>1, <1>13 DEF Crash, Fails, RetryInv
<1>14. CASE UNCHANGED vars  BY <1>1, <1>14 DEF vars, RetryInv
<1> QED
  BY <1>2, <1>3, <1>4, <1>5, <1>6, <1>7, <1>8, <1>9, <1>10, <1>11, <1>12, <1>13, <1>14
     DEF Next, OwnStep, CallReturn

\* An unresolved device is asked about again within RetryWithin, whatever the
\* adapter's latencies up to MaxAwait and whatever fails in between.
THEOREM RetryAlways == Spec => []RetryNotOverdue
<1>1. Init => RetryInv
  BY DEF Init, RetryInv, BeforeLoop
<1>2. TypeOK /\ RetryInv => RetryNotOverdue
  BY ConstantsAssumption DEF TypeOK, RetryInv, RetryNotOverdue, Slack, RetryWithin
<1>3. Spec => []RetryInv
  BY <1>1, TypeCorrect, RetryStep, PTL DEF Spec
<1> QED  BY <1>2, <1>3, TypeCorrect, PTL

(***************************************************************************)
(* Republisher implements Lifecycle: the mapping is the identity on the    *)
(* last event sent and on the stop flag.  What the last event can be is    *)
(* tied to where the worker is.                                            *)
(***************************************************************************)

LifecycleOfPc ==
    /\ pc = "spawned" => lifecycle = "None"
    /\ pc \in {"starting", "discovering", "linking"} => lifecycle = "Starting"
    /\ pc \in {"refreshing", "top", "keepalive", "reresolving", "due", "polling",
               "health", "sleeping"} => lifecycle = "Running"
    /\ pc = "stopping" => lifecycle = "Stopping"

\* Each step sends the event that belongs to where it leads.
LEMMA LifecycleStep ==
    TypeOK /\ LifecycleOfPc /\ [Next]_vars => LifecycleOfPc' /\ [LC!Next]_(LC!vars)
<1> SUFFICES ASSUME TypeOK, LifecycleOfPc, [Next]_vars
             PROVE  LifecycleOfPc' /\ [LC!Next]_(LC!vars)
  OBVIOUS
<1> USE DEF GoTo, link, devices, history, timers, cycle, LifecycleOfPc,
        LC!Next, LC!vars, LC!Begin, LC!EnterLoop, LC!LeaveLoop, LC!Finish, LC!Fail,
        LC!Follow, LC!RequestStop
<1>1. CASE RequestStop  BY <1>1 DEF RequestStop
<1>2. CASE Spawn
  BY <1>2 DEF Spawn, RuntimeFails, EmitStarting, UsePoints, StartDiscovery,
     NothingToPublish, LinkFails, EnterLoop, Fails
<1>3. CASE Discovery
  <2>1. /\ pc = "discovering" /\ UNCHANGED stop
        /\ \/ pc' = "linking" /\ UNCHANGED lifecycle
           \/ pc' = "done" /\ lifecycle' = "Failed"
    BY <1>3 DEF Discovery, DiscoveryReturns, DiscoveryFails
  <2> QED  BY <2>1
<1>4. CASE FirstRefresh \/ Refresh \/ Poll \/ Health
  <2>1. /\ UNCHANGED <<lifecycle, stop>>
        /\ \/ pc = "refreshing" /\ pc' = "top"
           \/ pc \in {"keepalive", "reresolving"} /\ pc' = "due"
           \/ pc = "polling" /\ pc' = "health"
           \/ pc = "health" /\ pc' = "sleeping"
    BY <1>4 DEF FirstRefresh, FirstRefreshReturns, Refresh, RefreshReturns,
       RefreshFails, Poll, PollReturns, PollFails, Health, SkipHealth, PublishHealth
  <2> QED  BY <2>1
<1>5. CASE BeginCycle \/ StartKeepalive \/ StartReresolve \/ StartPoll \/ NothingDue
  BY <1>5 DEF BeginCycle, StartKeepalive, StartReresolve, StartPoll, NothingDue
<1>6. CASE Sleep \/ LeaveLoop \/ Finish
  BY <1>6 DEF Sleep, LeaveLoop, Finish
<1>7. CASE Crash
  BY <1>7 DEF Crash, Fails, AdapterCalls
<1>8. CASE UNCHANGED vars  BY <1>8 DEF vars
<1> QED
  BY <1>1, <1>2, <1>3, <1>4, <1>5, <1>6, <1>7, <1>8 DEF Next, OwnStep, CallReturn

\* The worker implements the lifecycle its listeners rely on: the events come
\* in order, Stopping only after a request, and one terminal event at the end.
THEOREM ImplementsLifecycle == Spec => LifecycleRefined
<1>1. Init => LifecycleOfPc /\ LC!Init
  BY DEF Init, LifecycleOfPc, LC!Init
<1>2. Spec => [](TypeOK /\ LifecycleOfPc)
  BY <1>1, TypeCorrect, LifecycleStep, PTL DEF Spec
<1> QED  BY <1>1, <1>2, LifecycleStep, PTL DEF Spec, LifecycleRefined, LC!Spec
=============================================================================
