--------------------------- MODULE MqttLinkProofs ----------------------------
(***************************************************************************)
(* Proofs about MqttLink for every channel capacity, every delay and any   *)
(* number of errors, refusals, drops and batches.                          *)
(*                                                                         *)
(* LinkStateExact and FatalTellsLastAnswer only speak of the moments       *)
(* between two results of poll().  To be inductive they need to know, for  *)
(* each of the single stores in between, which fields have already been    *)
(* written: that is LinkInv and FatalInv.                                  *)
(***************************************************************************)
EXTENDS MqttLink, NumberFacts, SequenceTheorems, TLAPS

\* `connected` is swapped and stored together with what poll() learnt; only
\* the counting of a drop is a store behind.
LinkInv ==
    /\ connected <=> link = "up"
    /\ el \in {"accepted", "cleared"} => link = "up"
    /\ el \in {"refused", "fatal", "counting", "noting", "sleeping"} => link = "down"
    /\ el # "counting" => reconnects = drops
    /\ el = "counting" => reconnects + 1 = drops

\* fatal is a store behind the CONNACK, last_error two.
FatalInv ==
    /\ el \in {"accepted", "cleared"} => ~refused
    /\ el \in {"refused", "fatal"} => refused
    /\ el \notin {"accepted", "refused"} => (fatal <=> refused)
    /\ (el = "polling" /\ link = "up") => lastError = "none"
    /\ (el \in {"polling", "counting", "noting", "sleeping"} /\ fatal)
          => lastError # "none"

Inv == LinkTypes /\ LinkInv /\ FatalInv

\* The invariant holds before the first poll().
LEMMA InitInv == Init => Inv
<1> SUFFICES ASSUME Init
             PROVE  Inv
  OBVIOUS
<1>1. LinkTypes
  <2>1. connected \in BOOLEAN /\ fatal \in BOOLEAN /\ refused \in BOOLEAN
    BY Zenon DEF Init
  <2> QED
    BY <2>1, LinkAssumption DEF Init, LinkTypes, Texts
<1>2. LinkInv
  <2>1. ~connected
    BY Zenon DEF Init
  <2> QED
    BY <2>1 DEF Init, LinkInv
<1>3. FatalInv
  <2>1. ~fatal /\ ~refused
    BY Zenon DEF Init
  <2> QED
    BY <2>1 DEF Init, FatalInv
<1> QED
  BY <1>1, <1>2, <1>3 DEF Inv

\* The smaller of two numbers is a number.
LEMMA LesserNat ==
  ASSUME NEW x \in Nat, NEW y \in Nat
  PROVE  Lesser(x, y) \in Nat
  BY DEF Lesser

\* The steps of the worker touch none of the fields, except that an accepted
\* enqueue fills the channel by one.
LEMMA WorkerStep ==
  ASSUME Inv, Worker
  PROVE  Inv'
<1>1. CASE EnqueueAccepted
  <2>1. queue < Capacity /\ queue' = queue + 1 /\ UNCHANGED <<link, inflight, el, state, retry, history>>
    BY <1>1 DEF EnqueueAccepted
  <2>2. queue' \in 0..Capacity
    BY <2>1, LinkAssumption DEF Inv, LinkTypes
  <2>3. LinkTypes'
    BY <2>1, <2>2 DEF Inv, LinkTypes, state, retry, history
  <2>4. LinkInv'
    BY <2>1 DEF Inv, LinkInv, state, retry, history
  <2>5. FatalInv'
    BY <2>1 DEF Inv, FatalInv, state, retry, history
  <2> QED
    BY <2>3, <2>4, <2>5 DEF Inv
<1>2. CASE \/ SkipFatalCheck \/ ReadFatal \/ ReadRejection \/ StartBatch
           \/ NothingSampled \/ EnqueueRefused \/ ReadReconnects
           \/ ReadAcked \/ ReadLastError
  <2>1. UNCHANGED <<net, el, state, retry, history>>
    BY <1>2 DEF SkipFatalCheck, ReadFatal, ReadRejection, StartBatch, NothingSampled,
                EnqueueRefused, ReadReconnects, ReadAcked, ReadLastError
  <2> QED
    BY <2>1 DEF Inv, LinkTypes, LinkInv, FatalInv, net, state, retry, history
<1> QED
  BY <1>1, <1>2 DEF Worker

\* The three stores of an accepted CONNACK.
LEMMA AcceptedStep ==
  ASSUME Inv, PollAccepted \/ ClearFatal \/ ClearError
  PROVE  Inv'
<1>1. CASE PollAccepted
  BY <1>1 DEF PollAccepted, Loop, Inv, LinkTypes, LinkInv, FatalInv, retry
<1>2. CASE ClearFatal
  BY <1>2 DEF ClearFatal, Loop, Inv, LinkTypes, LinkInv, FatalInv, net, retry, history
<1>3. CASE ClearError
  <2>1. LinkTypes' /\ LinkInv'
    BY <1>3, LinkAssumption DEF ClearError, Loop, Inv, LinkTypes, LinkInv, net, Texts
  <2>2. FatalInv'
    BY <1>3 DEF ClearError, Loop, Inv, FatalInv
  <2> QED
    BY <2>1, <2>2 DEF Inv
<1> QED
  BY <1>1, <1>2, <1>3

\* The three stores of a refused CONNACK.
LEMMA RefusedStep ==
  ASSUME Inv, PollRefused \/ SetFatal \/ NoteRejection
  PROVE  Inv'
<1>1. CASE PollRefused
  BY <1>1 DEF PollRefused, Loop, Inv, LinkTypes, LinkInv, FatalInv, net, retry
<1>2. CASE SetFatal
  BY <1>2 DEF SetFatal, Loop, Inv, LinkTypes, LinkInv, FatalInv, net, retry, history
<1>3. CASE NoteRejection
  BY <1>3, LinkAssumption
  DEF NoteRejection, Loop, Inv, LinkTypes, LinkInv, FatalInv, net, Texts
<1> QED
  BY <1>1, <1>2, <1>3

\* The stores of an error, and the sleep that follows it.
LEMMA ErrorStep ==
  ASSUME Inv, PollError \/ CountReconnect \/ NoteError \/ Wake
  PROVE  Inv'
<1>1. CASE PollError
  <2>1. ~connected'
    BY <1>1, Zenon DEF PollError
  <2>2. LinkTypes'
    <3>1. connected' \in BOOLEAN
      BY <2>1, <1>1, Zenon DEF PollError
    <3> QED
      BY <1>1, <3>1 DEF PollError, Inv, LinkTypes, retry
  <2>3. LinkInv'
    BY <1>1, <2>1 DEF PollError, Inv, LinkTypes, LinkInv
  <2>4. FatalInv'
    BY <1>1 DEF PollError, Inv, LinkTypes, FatalInv
  <2> QED
    BY <2>2, <2>3, <2>4 DEF Inv
<1>2. CASE CountReconnect
  BY <1>2 DEF CountReconnect, Loop, Inv, LinkTypes, LinkInv, FatalInv, net, retry, history
<1>3. CASE NoteError
  <2>1. current' \in Nat /\ delay' \in Nat
    BY <1>3, LesserNat, LinkAssumption DEF NoteError, NextDelay, Inv, LinkTypes
  <2> QED
    BY <1>3, <2>1 DEF NoteError, Loop, Inv, LinkTypes, LinkInv, FatalInv, net, Texts
<1>4. CASE Wake
  BY <1>4 DEF Wake, Loop, Inv, LinkTypes, LinkInv, FatalInv, net, state, retry, history
<1> QED
  BY <1>1, <1>2, <1>3, <1>4

\* Traffic on a live connection.
LEMMA TrafficStep ==
  ASSUME Inv, PollPubAck \/ PollOutgoing
  PROVE  Inv'
<1>1. CASE PollPubAck
  BY <1>1 DEF PollPubAck, Loop, Inv, LinkTypes, LinkInv, FatalInv, retry, history
<1>2. CASE PollOutgoing
  BY <1>2, LinkAssumption
  DEF PollOutgoing, Loop, Inv, LinkTypes, LinkInv, FatalInv, state, retry, history
<1> QED
  BY <1>1, <1>2

\* Every step keeps the invariant.
LEMMA NextInv == Inv /\ [Next]_vars => Inv'
<1> SUFFICES ASSUME Inv, [Next]_vars
             PROVE  Inv'
  OBVIOUS
<1>1. CASE UNCHANGED vars
  BY <1>1 DEF vars, net, state, retry, history, Inv, LinkTypes, LinkInv, FatalInv
<1>2. CASE Worker
  BY <1>2, WorkerStep
<1>3. CASE EventLoop
  BY <1>3, AcceptedStep, RefusedStep, ErrorStep, TrafficStep DEF EventLoop
<1> QED
  BY <1>1, <1>2, <1>3 DEF Next

\* Both hold at all times.
LEMMA AlwaysInv == Spec => []Inv
  BY InitInv, NextInv, PTL DEF Spec

\* The fields of the connection state keep their types and the outbound
\* channel never holds more than its capacity.
THEOREM LinkTypesAlways == Spec => []LinkTypes
<1>1. Inv => LinkTypes
  BY DEF Inv
<1> QED
  BY <1>1, AlwaysInv, PTL

\* Between two results of poll(), `connected` is the truth and `reconnects`
\* has counted every loss of an accepted connection exactly once.
THEOREM LinkStateAlways == Spec => []LinkStateExact
<1>1. Inv => LinkStateExact
  BY DEF Inv, LinkInv, LinkStateExact
<1> QED
  BY <1>1, AlwaysInv, PTL

\* Between two results of poll(), `fatal` is the broker's last answer, and a
\* live connection carries no old error.
THEOREM FatalAlways == Spec => []FatalTellsLastAnswer
<1>1. Inv => FatalTellsLastAnswer
  BY DEF Inv, LinkInv, FatalInv, FatalTellsLastAnswer
<1> QED
  BY <1>1, AlwaysInv, PTL

-----------------------------------------------------------------------------
(* The sum of a batch. *)

IsSum(b, f) == f = [i \in 0..Len(b) |-> IF i = 0 THEN 0 ELSE f[i - 1] + b[i]]

\* Total adds one group after the other.
LEMMA TotalDef ==
    ASSUME NEW b \in Seq(Nat)
    PROVE  \E f \in [0..Len(b) -> Nat] : IsSum(b, f) /\ Total(b) = f[Len(b)]
<1>1. Len(b) \in Nat /\ 0 \in Nat
  OBVIOUS
<1> DEFINE step == [n \in 1..Len(b) |-> [x \in Nat |-> x + b[n]]]
<1>2. \E f : IsSum(b, f)
  <2>1. step \in [1..Len(b) -> [Nat -> Nat]]
    OBVIOUS
  <2>2. PICK f \in [0..Len(b) -> Nat] : Steps(f, 0, step, Len(b))
    <3> HIDE DEF step
    <3> QED
      BY <1>1, <2>1, Recursion, Zenon
  <2>3. ASSUME NEW n \in 1..Len(b)
        PROVE  f[n] = f[n - 1] + b[n]
    <3>1. f[n - 1] \in Nat
      BY <1>1
    <3> QED
      BY <2>2, <3>1 DEF Steps
  <2>4. f[0] = 0
    BY <2>2 DEF Steps
  <2> QED
    BY <1>1, <2>3, <2>4 DEF IsSum
<1> DEFINE sum[i \in 0..Len(b)] == IF i = 0 THEN 0 ELSE sum[i - 1] + b[i]
<1>3. IsSum(b, sum)
  <2>1. sum = CHOOSE f : IsSum(b, f)
    BY DEF IsSum
  <2> QED
    BY <2>1, <1>2
<1>4. Total(b) = sum[Len(b)]
  BY DEF Total
<1> HIDE DEF sum
<1>5. \A n \in 0..Len(b) : n \in {k \in 0..Len(b) : sum[k] \in Nat}
  <2>1. sum[0] = 0
    BY <1>1, <1>3 DEF IsSum
  <2>2. ASSUME NEW n \in 0..(Len(b) - 1), sum[n] \in Nat
        PROVE  sum[n + 1] \in Nat
    <3>1. n + 1 \in 1..Len(b) /\ b[n + 1] \in Nat
      BY <1>1
    <3>2. sum[n + 1] = sum[n] + b[n + 1]
      BY <1>1, <1>3, <3>1 DEF IsSum
    <3> QED
      BY <2>2, <3>1, <3>2
  <2> DEFINE T == {k \in 0..Len(b) : sum[k] \in Nat}
  <2>3. 0 \in T /\ \A n \in 0..(Len(b) - 1) : n \in T => n + 1 \in T
    BY <1>1, <2>1, <2>2
  <2> HIDE DEF T
  <2>4. \A n \in 0..Len(b) : n \in T
    BY <1>1, <2>3, Induction
  <2> QED
    BY <2>4 DEF T
<1>6. sum \in [0..Len(b) -> Nat]
  BY <1>3, <1>5 DEF IsSum
<1> QED
  BY <1>3, <1>4, <1>6

\* A sum starts with 0 and adds a batch.
LEMMA SumSteps ==
    ASSUME NEW b, NEW f, Len(b) \in Nat, IsSum(b, f)
    PROVE  f[0] = 0 /\ \A n \in 1..Len(b) : f[n] = f[n - 1] + b[n]
<1>1. \A n \in 0..Len(b) : f[n] = IF n = 0 THEN 0 ELSE f[n - 1] + b[n]
  BY DEF IsSum
<1>2. 0 \in 0..Len(b) /\ \A n \in 1..Len(b) : n \in 0..Len(b) /\ n # 0
  OBVIOUS
<1> QED
  BY <1>1, <1>2

\* The sum of no groups, and of a group and the others.
LEMMA TotalFacts ==
    ASSUME NEW b \in Seq(Nat)
    PROVE  /\ Total(b) \in Nat
           /\ b = <<>> => Total(b) = 0
           /\ b # <<>> => Total(b) = Head(b) + Total(Tail(b))
<1>1. PICK f \in [0..Len(b) -> Nat] : IsSum(b, f) /\ Total(b) = f[Len(b)]
  BY TotalDef
<1>2. Len(b) \in Nat
  OBVIOUS
<1>3. Total(b) \in Nat
  BY <1>1, <1>2
<1>4. ASSUME b = <<>>
      PROVE  Total(b) = 0
  BY <1>1, <1>2, <1>4, SumSteps
<1>5. ASSUME b # <<>>
      PROVE  Total(b) = Head(b) + Total(Tail(b))
  <2> DEFINE t == Tail(b)
  <2>1. /\ t \in Seq(Nat) /\ Len(t) \in Nat /\ Len(b) = Len(t) + 1
        /\ \A i \in 1..Len(t) : t[i] = b[i + 1]
        /\ Head(b) = b[1] /\ b[1] \in Nat
    BY <1>5, HeadTailProperties
  <2> HIDE DEF t
  <2>2. PICK g \in [0..Len(t) -> Nat] : IsSum(t, g) /\ Total(t) = g[Len(t)]
    BY <2>1, TotalDef
  <2> DEFINE T == {k \in 0..Len(t) : f[k + 1] = b[1] + g[k]}
  <2>3. 0 \in T
    <3>1. f[0] = 0 /\ g[0] = 0
      BY <1>1, <1>2, <2>1, <2>2, SumSteps
    <3>2. f[1] = f[0] + b[1]
      <4>1. 1 \in 1..Len(b)
        BY <2>1
      <4> QED
        BY <1>1, <1>2, <4>1, SumSteps
    <3> QED
      BY <2>1, <3>1, <3>2
  <2>4. ASSUME NEW k \in 0..(Len(t) - 1), k \in T
        PROVE  k + 1 \in T
    <3>1. /\ k + 1 \in 1..Len(t) /\ k + 2 \in 1..Len(b) /\ k \in 0..Len(t) /\ k + 1 \in 0..Len(b)
          /\ (k + 2) - 1 = k + 1 /\ (k + 1) - 1 = k /\ (k + 1) + 1 = k + 2
          /\ k + 1 \in 0..Len(t)
      <4> HIDE DEF T
      <4>1. \A n \in Nat : \A i \in 0..(n - 1) :
              /\ i + 1 \in 1..n /\ i + 2 \in 1..(n + 1) /\ i \in 0..n /\ i + 1 \in 0..(n + 1)
              /\ (i + 2) - 1 = i + 1 /\ (i + 1) - 1 = i /\ (i + 1) + 1 = i + 2
              /\ i + 1 \in 0..n
        OBVIOUS
      <4> QED
        BY <4>1, <2>1, Zenon
    <3>2. f[k + 2] = f[(k + 2) - 1] + b[k + 2]
      BY <1>1, <1>2, <3>1, SumSteps
    <3>3. g[k + 1] = g[(k + 1) - 1] + t[k + 1] /\ t[k + 1] = b[(k + 1) + 1]
      BY <2>1, <2>2, <3>1, SumSteps
    <3>4. f[k + 1] = b[1] + g[k]
      BY <2>4
    <3>5. g[k] \in Nat /\ b[k + 2] \in Nat
      <4> HIDE DEF T
      <4>1. g[k] \in Nat
        BY <3>1, Zenon
      <4>2. \A i \in 1..Len(b) : b[i] \in Nat
        OBVIOUS
      <4> QED
        BY <3>1, <4>1, <4>2, Zenon
    <3>6. f[k + 2] = f[k + 1] + b[k + 2] /\ g[k + 1] = g[k] + b[k + 2]
      BY <3>1, <3>2, <3>3, Zenon
    <3>7. f[k + 2] = b[1] + g[k + 1]
      <4> HIDE DEF T
      <4>1. \A p, q, r \in Nat : (p + q) + r = p + (q + r)
        OBVIOUS
      <4>2. b[1] \in Nat
        BY <2>1
      <4>3. (b[1] + g[k]) + b[k + 2] = b[1] + (g[k] + b[k + 2])
        BY <4>1, <4>2, <3>5, Zenon
      <4> QED
        BY <4>3, <3>4, <3>6, Zenon
    <3> QED
      BY <3>1, <3>7, Zenon
  <2>5. Len(t) \in T
    <3> HIDE DEF T
    <3>1. \A n \in 0..Len(t) : n \in T
      BY <2>1, <2>3, <2>4, Induction
    <3> QED
      BY <2>1, <3>1
  <2> QED
    BY <1>1, <2>1, <2>2, <2>5 DEF t
<1> QED
  BY <1>3, <1>4, <1>5

-----------------------------------------------------------------------------
\* The types of the worker's variables.  The statistics of a cycle are read
\* from the shared state, so the invariant above is needed with them.

StatsType ==
    [queued : Nat, published : Nat, failed : Nat, acked : Nat,
     reconnects : Nat, lastError : Reasons]

\* The worker starts at the top of a cycle with empty statistics.
LEMMA InitWorkerTypes == Init => WorkerTypes
<1> SUFFICES ASSUME Init
             PROVE  WorkerTypes
  OBVIOUS
<1>1. fatalReported \in BOOLEAN
  BY Zenon DEF Init
<1>2. stats \in StatsType
  BY DEF Init, EmptyStats, StatsType, Reasons, Texts
<1> QED
  BY <1>1, <1>2 DEF Init, WorkerTypes, StatsType, Texts

\* The event loop does not touch the worker.
LEMMA EventLoopKeepsWorker == EventLoop => UNCHANGED worker
  BY DEF EventLoop, PollAccepted, ClearFatal, ClearError, PollRefused, SetFatal,
         NoteRejection, PollPubAck, PollOutgoing, PollError, CountReconnect,
         NoteError, Wake

\* The check for a rejection and the reads of the shared state.
LEMMA ReadsKeepTypes ==
  ASSUME Inv, WorkerTypes,
         \/ SkipFatalCheck \/ ReadFatal \/ ReadRejection \/ NothingSampled
         \/ ReadReconnects \/ ReadAcked \/ ReadLastError
  PROVE  WorkerTypes'
<1>1. CASE SkipFatalCheck \/ ReadFatal \/ NothingSampled
  BY <1>1 DEF SkipFatalCheck, ReadFatal, NothingSampled, Cycle, WorkerTypes
<1>2. CASE ReadRejection
  <2>1. fatalReported' \in BOOLEAN
    BY <1>2, Zenon DEF ReadRejection
  <2> QED
    BY <1>2, <2>1 DEF ReadRejection, Cycle, WorkerTypes, Inv, LinkTypes
<1>3. CASE ReadReconnects \/ ReadAcked \/ ReadLastError
  <2>1. stats' \in StatsType
    BY <1>3 DEF ReadReconnects, ReadAcked, ReadLastError, StatsType, WorkerTypes,
                Inv, LinkTypes, Reasons
  <2> QED
    BY <1>3, <2>1 DEF ReadReconnects, ReadAcked, ReadLastError, Cycle, WorkerTypes, StatsType
<1> QED
  BY <1>1, <1>2, <1>3

\* Groups are not empty, but numbers.
LEMMA NatSeqs == Seq(Nat \ {0}) \subseteq Seq(Nat)
  BY SeqMonotonic

\* A batch is taken, and its groups are accepted or refused one by one.
LEMMA EnqueueKeepsTypes ==
  ASSUME WorkerTypes, StartBatch \/ EnqueueAccepted \/ EnqueueRefused
  PROVE  WorkerTypes'
<1>1. CASE StartBatch
  <2> PICK b \in Batches : /\ batch' = b
                           /\ stats' = [EmptyStats EXCEPT !.queued = Total(b)]
    BY <1>1 DEF StartBatch
  <2>1. batch' \in Seq(Nat \ {0})
    BY LinkAssumption
  <2>2. stats' \in StatsType
    BY LinkAssumption, TotalFacts, NatSeqs DEF EmptyStats, StatsType, Reasons, Texts
  <2> QED
    BY <1>1, <2>1, <2>2 DEF StartBatch, Cycle, WorkerTypes, StatsType
<1>2. CASE EnqueueAccepted \/ EnqueueRefused
  <2>1. Head(batch) \in Nat /\ batch' \in Seq(Nat \ {0})
    <3>1. batch \in Seq(Nat \ {0}) /\ batch # <<>> /\ batch' = Tail(batch)
      BY <1>2 DEF EnqueueAccepted, EnqueueRefused, WorkerTypes
    <3> QED
      BY <3>1, HeadTailProperties
  <2>2. stats' \in StatsType
    <3>1. PICK n \in Nat : \/ stats' = [stats EXCEPT !.published = @ + n]
                           \/ stats' = [stats EXCEPT !.failed = @ + n, !.lastError = "full"]
      BY <1>2, <2>1 DEF EnqueueAccepted, EnqueueRefused
    <3>2. stats \in StatsType
      BY DEF WorkerTypes, StatsType
    <3>3. "full" \in Reasons
      BY DEF Reasons
    <3>4. stats.published + n \in Nat /\ stats.failed + n \in Nat
      BY <3>2 DEF StatsType
    <3>5. CASE stats' = [stats EXCEPT !.published = @ + n]
      <4>1. stats' = [stats EXCEPT !.published = stats.published + n]
        BY <3>5
      <4> QED
        BY <4>1, <3>2, <3>4 DEF StatsType
    <3>6. CASE stats' = [stats EXCEPT !.failed = @ + n, !.lastError = "full"]
      <4>1. stats' = [stats EXCEPT !.failed = stats.failed + n, !.lastError = "full"]
        BY <3>6
      <4> QED
        BY <4>1, <3>2, <3>3, <3>4 DEF StatsType
    <3> QED
      BY <3>1, <3>5, <3>6
  <2> QED
    BY <1>2, <2>1, <2>2 DEF EnqueueAccepted, EnqueueRefused, WorkerTypes, StatsType
<1> QED
  BY <1>1, <1>2

\* Every variable of the link and of the worker keeps its type; in particular
\* the worker never counts what it did not take from a batch.
THEOREM TypesAlways == Spec => []TypeOK
<1>1. Inv /\ WorkerTypes /\ [Next]_vars => WorkerTypes'
  <2> SUFFICES ASSUME Inv, WorkerTypes, [Next]_vars
               PROVE  WorkerTypes'
    OBVIOUS
  <2>1. CASE UNCHANGED worker
    BY <2>1 DEF worker, WorkerTypes
  <2>2. CASE Worker
    BY <2>2, ReadsKeepTypes, EnqueueKeepsTypes DEF Worker
  <2> QED
    BY <2>1, <2>2, EventLoopKeepsWorker DEF Next, vars
<1>2. Inv /\ WorkerTypes => TypeOK
  BY DEF Inv, TypeOK
<1> QED
  BY InitWorkerTypes, AlwaysInv, <1>1, <1>2, PTL DEF Spec

-----------------------------------------------------------------------------
(* The delays of the event loop. *)

IsDoubling(f) == f = [n \in 0..MaxErrors |-> IF n = 0 THEN DelayInitial ELSE 2 * f[n - 1]]

\* A backoff starts with the base and doubles.
LEMMA DoublingSteps ==
    ASSUME NEW f, IsDoubling(f)
    PROVE  f[0] = DelayInitial /\ \A n \in 1..MaxErrors : f[n] = 2 * f[n - 1]
<1>1. \A n \in 0..MaxErrors : f[n] = IF n = 0 THEN DelayInitial ELSE 2 * f[n - 1]
  BY DEF IsDoubling
<1>2. 0 \in 0..MaxErrors /\ \A n \in 1..MaxErrors : n \in 0..MaxErrors /\ n # 0
  BY LinkAssumption
<1> QED
  BY <1>1, <1>2

\* Doubled is what its definition says, a number for every count of errors.
LEMMA DoubledFacts ==
    /\ Doubled[0] = DelayInitial
    /\ \A n \in 0..MaxErrors : Doubled[n] \in Nat
    /\ \A n \in 0..(MaxErrors - 1) : Doubled[n + 1] = 2 * Doubled[n]
<1>1. MaxErrors \in Nat /\ DelayInitial \in Nat
  BY LinkAssumption
<1> DEFINE step == [n \in 1..MaxErrors |-> [x \in Nat |-> 2 * x]]
<1>2. \E f : IsDoubling(f)
  <2>1. step \in [1..MaxErrors -> [Nat -> Nat]]
    OBVIOUS
  <2>2. PICK f \in [0..MaxErrors -> Nat] : Steps(f, DelayInitial, step, MaxErrors)
    <3> HIDE DEF step
    <3> QED
      BY <1>1, <2>1, Recursion, Zenon
  <2>3. ASSUME NEW n \in 1..MaxErrors
        PROVE  f[n] = 2 * f[n - 1]
    <3>1. f[n - 1] \in Nat
      BY <1>1
    <3> QED
      BY <2>2, <3>1 DEF Steps
  <2>4. f[0] = DelayInitial
    BY <2>2 DEF Steps
  <2>5. ASSUME NEW n \in 0..MaxErrors
        PROVE  f[n] = IF n = 0 THEN DelayInitial ELSE 2 * f[n - 1]
    <3>1. n # 0 => n \in 1..MaxErrors
      BY <1>1
    <3> QED
      BY <3>1, <2>3, <2>4
  <2>6. IsDoubling(f)
    BY <2>5 DEF IsDoubling
  <2> QED
    BY <2>6
<1>3. IsDoubling(Doubled)
  <2>1. Doubled = CHOOSE f : IsDoubling(f)
    BY DEF IsDoubling, Doubled
  <2> QED
    BY <2>1, <1>2
<1>4. \A n \in 0..(MaxErrors - 1) : Doubled[n + 1] = 2 * Doubled[n]
  <2> TAKE n \in 0..(MaxErrors - 1)
  <2>1. n + 1 \in 1..MaxErrors /\ (n + 1) - 1 = n
    BY <1>1
  <2> QED
    BY <2>1, <1>3, DoublingSteps
<1> DEFINE T == {n \in 0..MaxErrors : Doubled[n] \in Nat}
<1>5. 0 \in T
  BY <1>1, <1>3, DoublingSteps
<1>6. ASSUME NEW n \in 0..(MaxErrors - 1), n \in T
      PROVE  n + 1 \in T
  <2>1. Doubled[n + 1] = 2 * Doubled[n] /\ Doubled[n] \in Nat
    BY <1>4, <1>6
  <2>2. n + 1 \in 0..MaxErrors
    BY <1>1
  <2> QED
    BY <2>1, <2>2
<1>7. \A n \in 0..MaxErrors : n \in T
  <2> HIDE DEF T
  <2> QED
    BY <1>1, <1>5, <1>6, Induction
<1> QED
  BY <1>3, <1>4, <1>7, DoublingSteps

\* `current` is always a doubling ahead of the last delay that was used; it and
\* the count of errors are reset together.
BackoffInv ==
    /\ errors \in 0..MaxErrors
    /\ current = Lesser(Doubled[errors], DelayMax)
    /\ el \in {"counting", "noting"} => errors < MaxErrors
    /\ el = "sleeping" => errors > 0 /\ delay = Lesser(Doubled[errors - 1], DelayMax)

\* At first there is no error to back off from.
LEMMA InitBackoff == Init => BackoffInv
  BY LinkAssumption, DoubledFacts DEF Init, BackoffInv, Lesser

\* Each step keeps the delay that the errors call for.
LEMMA BackoffStep == BackoffInv /\ [Next]_vars => BackoffInv'
<1> SUFFICES ASSUME BackoffInv, [Next]_vars
             PROVE  BackoffInv'
  OBVIOUS
<1>1. CASE UNCHANGED <<el, errors, retry>>
  BY <1>1 DEF BackoffInv, retry
<1>2. CASE Worker
  BY <1>1, <1>2 DEF Worker, SkipFatalCheck, ReadFatal, ReadRejection, StartBatch, NothingSampled,
                    EnqueueAccepted, EnqueueRefused, ReadReconnects, ReadAcked, ReadLastError,
                    history
<1>3. CASE ClearError \/ NoteRejection
  BY <1>3, LinkAssumption, DoubledFacts DEF ClearError, NoteRejection, Loop, BackoffInv, Lesser
<1>4. CASE \/ PollAccepted \/ ClearFatal \/ PollRefused \/ SetFatal \/ PollPubAck
           \/ PollOutgoing \/ CountReconnect \/ Wake
  BY <1>4 DEF PollAccepted, ClearFatal, PollRefused, SetFatal, PollPubAck, PollOutgoing,
              CountReconnect, Wake, Loop, history, retry, BackoffInv
<1>5. CASE PollError
  BY <1>5, LinkAssumption DEF PollError, retry, BackoffInv
<1>6. CASE NoteError
  <2>1. errors \in 0..(MaxErrors - 1) /\ errors + 1 \in 0..MaxErrors /\ (errors + 1) - 1 = errors
    BY <1>6, LinkAssumption DEF NoteError, Loop, BackoffInv
  <2>2. Doubled[errors] \in Nat /\ Doubled[errors + 1] = 2 * Doubled[errors] /\ DelayMax \in Nat
    BY <2>1, DoubledFacts, LinkAssumption
  <2>3. Lesser(2 * current, DelayMax) = Lesser(Doubled[errors + 1], DelayMax)
    BY <2>2 DEF BackoffInv, Lesser
  <2>4. el' = "sleeping" /\ errors' = errors + 1 /\ delay' = current
        /\ current' = Lesser(2 * current, DelayMax)
    BY <1>6 DEF NoteError, NextDelay, Loop
  <2> QED
    BY <2>1, <2>3, <2>4 DEF BackoffInv
<1> QED
  BY <1>1, <1>2, <1>3, <1>4, <1>5, <1>6 DEF Next, EventLoop, vars, history

\* The event loop sleeps for the initial delay doubled once for each earlier
\* error since the last CONNACK, and never longer than the maximum
\* (ReconnectBackoff::next_delay, reset).
THEOREM BackoffAlways == Spec => []BackoffExact
<1>1. BackoffInv => BackoffExact
  BY DEF BackoffInv, BackoffExact
<1> QED
  BY <1>1, InitBackoff, BackoffStep, PTL DEF Spec

-----------------------------------------------------------------------------
(* The samples of a cycle. *)

Accounted == WorkerTypes /\ PublishAccounted

\* A cycle starts with its whole batch, and moves one group at a time.
LEMMA AccountedStep ==
    ASSUME Accounted, WorkerTypes', [Next]_vars
    PROVE  PublishAccounted'
<1>1. CASE UNCHANGED worker
  BY <1>1 DEF worker, Accounted, PublishAccounted
<1>2. CASE StartBatch
  <2> PICK b \in Batches : /\ batch' = b
                           /\ stats' = [EmptyStats EXCEPT !.queued = Total(b)]
    BY <1>2 DEF StartBatch
  <2>1. Total(b) \in Nat
    BY LinkAssumption, NatSeqs, TotalFacts
  <2>2. stats'.queued = Total(b) /\ stats'.published = 0 /\ stats'.failed = 0
    BY DEF EmptyStats
  <2> QED
    BY <2>1, <2>2 DEF PublishAccounted
<1>3. CASE EnqueueAccepted \/ EnqueueRefused
  <2>1. batch \in Seq(Nat) /\ batch # <<>> /\ w = "enqueueing" /\ batch' = Tail(batch)
    BY <1>3, NatSeqs DEF EnqueueAccepted, EnqueueRefused, Accounted, WorkerTypes
  <2>2. Head(batch) \in Nat /\ Tail(batch) \in Seq(Nat)
    BY <2>1, HeadTailProperties
  <2>3. Total(batch) = Head(batch) + Total(Tail(batch)) /\ Total(Tail(batch)) \in Nat
    BY <2>1, <2>2, TotalFacts
  <2>4. stats.queued \in Nat /\ stats.published \in Nat /\ stats.failed \in Nat
    BY DEF Accounted, WorkerTypes
  <2>5. /\ stats'.queued = stats.queued
        /\ stats'.published + stats'.failed = stats.published + stats.failed + Head(batch)
    <3>1. stats \in StatsType
      BY DEF Accounted, WorkerTypes, StatsType
    <3>2. CASE EnqueueAccepted
      BY <2>2, <2>4, <3>1, <3>2 DEF EnqueueAccepted, StatsType
    <3>3. CASE EnqueueRefused
      BY <2>2, <2>4, <3>1, <3>3 DEF EnqueueRefused, StatsType
    <3> QED
      BY <1>3, <3>2, <3>3
  <2>6. stats'.published \in Nat /\ stats'.failed \in Nat
    BY DEF WorkerTypes
  <2>7. stats.queued = stats.published + stats.failed + Total(batch)
    BY <2>1 DEF Accounted, PublishAccounted
  <2>8. \A q, p, f, h, r, p2, f2 \in Nat :
           q = p + f + (h + r) /\ p2 + f2 = p + f + h => q = p2 + f2 + r
    OBVIOUS
  <2>9. stats'.queued = stats'.published + stats'.failed + Total(Tail(batch))
    <3>1. stats.queued = stats.published + stats.failed + (Head(batch) + Total(Tail(batch)))
      BY <2>3, <2>7, Zenon
    <3>2. stats.queued = stats'.published + stats'.failed + Total(Tail(batch))
      <4> QED
        BY <2>2, <2>3, <2>4, <2>5, <2>6, <3>1, SMTT(60)
    <3> QED
      BY <2>5, <3>2, Zenon
  <2> QED
    BY <2>1, <2>9 DEF PublishAccounted
<1>4. CASE \/ SkipFatalCheck \/ ReadFatal \/ ReadRejection \/ NothingSampled
           \/ ReadReconnects \/ ReadAcked \/ ReadLastError
  BY <1>4 DEF SkipFatalCheck, ReadFatal, ReadRejection, NothingSampled, ReadReconnects,
              ReadAcked, ReadLastError, Cycle, PublishAccounted
<1> QED
  BY <1>1, <1>2, <1>3, <1>4, EventLoopKeepsWorker DEF Next, Worker, vars

\* Every sample of a batch is counted as published or failed, once
\* (publish_samples, publish_envelope).
THEOREM AccountedAlways == Spec => []PublishAccounted
<1>1. Init => PublishAccounted
  BY DEF Init, PublishAccounted
<1>2. TypeOK => WorkerTypes
  BY DEF TypeOK
<1>3. WorkerTypes /\ WorkerTypes' /\ PublishAccounted /\ [Next]_vars => PublishAccounted'
  BY AccountedStep DEF Accounted
<1> QED
  BY <1>1, <1>2, <1>3, TypesAlways, PTL DEF Spec
=============================================================================
