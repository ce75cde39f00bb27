------------------------- MODULE AppRunControlProofs -------------------------
(***************************************************************************)
(* Theorems about AppRunControl with a user who waits for a start to show  *)
(* (PatientUser), for any number of workers and of confirmed deliveries.   *)
(***************************************************************************)
EXTENDS AppRunControl, WellFoundedInduction, TLAPS

Phases == {"None", "Starting", "Running", "Stopping", "Stopped", "Failed"}

Event ==
    [kind : {"Lifecycle"}, by : Workers, value : Phases \ {"None"}]
      \cup [kind : {"PublishStatus"}, by : Nat, value : 0..MaxAcks]

Typed == TypeOK /\ channel \in Seq(Event)

\* Workers are started one after the other.
OneAtATime ==
    \A w \in Workers :
        /\ w < flag => Ended(w)
        /\ w > flag => phase[w] = "None"

\* Only the last worker started has lifecycle events in the channel.
HeardOfLast == \A i \in Heard : flag # 0 /\ channel[i].by = flag

\* What the last worker announced is shown, or will be by the next Tick.
ShownOrHeard ==
    (flag # 0 /\ phase[flag] # "None") =>
        \/ Heard = {} /\ view = phase[flag]
        \/ \E i \in Heard : /\ \A j \in Heard : j <= i
                            /\ channel[i].value = phase[flag]

\* The totals in the channel are of this run or of a poll-once job, and those
\* of this run come before the events with which it leaves the loop.
TotalsOfThisRun ==
    \A i \in DOMAIN channel :
        channel[i].kind = "PublishStatus" =>
            \/ channel[i].value <= polled
            \/ /\ flag # 0 /\ channel[i].value <= acked[flag]
               /\ phase[flag] = "Running" \/ \E j \in Heard : i < j

RunInv ==
    /\ Typed
    /\ OneAtATime
    /\ HeardOfLast
    /\ ShownOrHeard
    /\ TotalsOfThisRun
    /\ AckedOfThisRun

-----------------------------------------------------------------------------
(* Smallest and largest elements: Tick takes the last event of the channel. *)

\* A nonempty set of numbers has a smallest element.
LEMMA Least ==
    ASSUME NEW T \in SUBSET Nat, T # {}
    PROVE  \E x \in T : \A y \in T : ~(y < x)
<1>1. PICK x \in T : \A y \in T : ~(<<y, x>> \in OpToRel(<, Nat))
  BY WFMin, NatLessThanWellFounded, Zenon
<1>2. \A y \in T : y < x => <<y, x>> \in OpToRel(<, Nat)
  BY DEF OpToRel
<1> QED
  BY <1>1, <1>2

\* A nonempty set of numbers with an upper bound has a largest element.
LEMMA Greatest ==
    ASSUME NEW S \in SUBSET Nat, S # {}, NEW m \in Nat, \A x \in S : x <= m
    PROVE  Max(S) \in S /\ \A y \in S : y <= Max(S)
<1> DEFINE T == {n \in Nat : \E x \in S : n = m - x}
<1>1. T # {}
  <2>1. PICK x \in S : TRUE
    OBVIOUS
  <2>2. x \in Nat /\ x <= m
    BY <2>1
  <2>3. m - x \in T
    BY <2>2
  <2> QED
    BY <2>3
<1>2. PICK t \in T : \A y \in T : ~(y < t)
  BY <1>1, Least
<1>3. PICK x \in S : t = m - x
  OBVIOUS
<1>4. ASSUME NEW y \in S
      PROVE  x >= y
  <2>1. y \in Nat /\ y <= m /\ x \in Nat /\ x <= m
    BY <1>4
  <2>2. m - y \in T
    BY <2>1
  <2> HIDE DEF T
  <2>3. ~(m - y < m - x)
    BY <1>2, <1>3, <2>2
  <2> QED
    BY <2>1, <2>3
<1> HIDE DEF T
<1>5. Max(S) \in S /\ \A y \in S : Max(S) >= y
  BY <1>4 DEF Max
<1> QED
  BY <1>5

-----------------------------------------------------------------------------
(* One lemma per action. *)

\* A worker that sends an event has not ended, so it is the last one started.
LEMMA AnnounceFacts ==
    ASSUME RunInv, NEW w \in Workers, Announce(w)
    PROVE  /\ w = flag
           /\ \E to \in Phases \ {"None"} :
                 /\ phase' = [phase EXCEPT ![w] = to]
                 /\ channel' = Append(channel, LifecycleEvent(w, to))
           /\ stop' = stop
           /\ UNCHANGED <<acked, polled, flag, view, ackedTotal, status>>
<1>1. PICK to \in Phases :
        /\ phase' = [phase EXCEPT ![w] = to]
        /\ channel' = Append(channel, LifecycleEvent(w, to))
  BY DEF Announce, LC!Events, Phases
<1>2. phase'[w] = to
  BY <1>1 DEF RunInv, Typed, TypeOK
<1>3. to # "None" /\ ~Ended(w)
  BY <1>2 DEF Announce, Ended, LC!Begin, LC!EnterLoop, LC!LeaveLoop, LC!Finish, LC!Fail, LC!Follow
<1>4. w = flag
  BY <1>3, RunControlAssumption DEF Announce, Spawned, RunInv, OneAtATime, Typed, TypeOK, Workers
<1> QED
  BY <1>1, <1>3, <1>4 DEF Announce
\* Nothing has been sent when the GUI starts.
LEMMA InitStep == Init => RunInv
<1> SUFFICES ASSUME Init
             PROVE  RunInv
  OBVIOUS
<1>1. Typed
  BY RunControlAssumption DEF Init, Typed, TypeOK, Workers
<1>2. Heard = {}
  BY DEF Init, Heard
<1>3. flag \in 0..1 /\ \A w \in Workers : phase[w] = "None"
  BY DEF Init
<1>4. OneAtATime
  BY <1>3 DEF OneAtATime, Workers
<1>5. ShownOrHeard
  <2>1. flag # 0 => flag \in Workers
    BY RunControlAssumption DEF Init, Workers
  <2> QED
    BY <1>3, <2>1 DEF ShownOrHeard
<1>6. HeardOfLast /\ TotalsOfThisRun /\ AckedOfThisRun
  BY <1>2 DEF Init, HeardOfLast, TotalsOfThisRun, AckedOfThisRun
<1> QED
  BY <1>1, <1>4, <1>5, <1>6 DEF RunInv

\* The event goes to the end of the channel and is the state of the worker.
LEMMA AnnounceStep ==
    ASSUME RunInv, NEW w \in Workers, Announce(w)
    PROVE  RunInv'
<1>1. w = flag /\ flag' = flag /\ flag \in Workers /\ flag \in Nat \ {0}
  BY AnnounceFacts DEF Workers
<1>2. PICK to \in Phases \ {"None"} :
        /\ phase' = [phase EXCEPT ![w] = to]
        /\ channel' = Append(channel, LifecycleEvent(w, to))
  BY AnnounceFacts
<1>3. UNCHANGED <<stop, acked, polled, view, ackedTotal, status>>
  BY AnnounceFacts
<1> DEFINE n == Len(channel) + 1
<1>4. /\ phase'[w] = to
      /\ \A v \in Workers : v # w => phase'[v] = phase[v]
  BY <1>2 DEF RunInv, Typed, TypeOK
<1>5. /\ n \in Nat \ {0} /\ DOMAIN channel = 1..(n - 1) /\ DOMAIN channel' = 1..n
      /\ channel'[n] = LifecycleEvent(w, to)
      /\ \A i \in 1..(n - 1) : channel'[i] = channel[i]
  BY <1>2 DEF RunInv, Typed
<1>6. Heard' = Heard \cup {n} /\ Heard \subseteq 1..(n - 1)
  BY <1>5 DEF Heard, LifecycleEvent
<1> HIDE DEF n
<1>7. Typed'
  <2>1. LifecycleEvent(w, to) \in Event
    BY DEF LifecycleEvent, Event
  <2>2. channel' \in Seq(Event)
    BY <1>2, <2>1 DEF RunInv, Typed
  <2>3. TypeOK'
    BY <1>1, <1>2, <1>3 DEF RunInv, Typed, TypeOK, Phases
  <2> QED
    BY <2>2, <2>3 DEF Typed
<1>8. OneAtATime'
  BY <1>1, <1>4 DEF RunInv, OneAtATime, Ended, Workers
<1>9. HeardOfLast'
  BY <1>1, <1>5, <1>6 DEF RunInv, HeardOfLast, LifecycleEvent, Heard
<1>10. ShownOrHeard'
  <2>1. n \in Heard' /\ \A j \in Heard' : j <= n
    BY <1>5, <1>6
  <2>2. channel'[n].value = phase'[flag']
    BY <1>1, <1>4, <1>5 DEF LifecycleEvent
  <2> QED
    BY <2>1, <2>2 DEF ShownOrHeard
<1>11. TotalsOfThisRun'
  <2>1. ASSUME NEW i \in DOMAIN channel', channel'[i].kind = "PublishStatus"
        PROVE  \/ channel'[i].value <= polled'
               \/ /\ flag' # 0 /\ channel'[i].value <= acked'[flag']
                  /\ phase'[flag'] = "Running" \/ \E j \in Heard' : i < j
    <3>1. i \in DOMAIN channel /\ channel'[i] = channel[i] /\ i < n
      BY <1>5, <2>1 DEF LifecycleEvent
    <3> QED
      BY <1>1, <1>3, <1>6, <2>1, <3>1 DEF RunInv, TotalsOfThisRun
  <2> QED
    BY <2>1 DEF TotalsOfThisRun
<1>12. AckedOfThisRun'
  BY <1>1, <1>3 DEF RunInv, AckedOfThisRun
<1> QED
  BY <1>7, <1>8, <1>9, <1>10, <1>11, <1>12 DEF RunInv
\* The broker's confirmations and the reports of them leave the lifecycle alone.
LEMMA ReportStep ==
    ASSUME RunInv, ReportPollOnce \/ \E w \in Workers : Confirm(w) \/ Report(w)
    PROVE  RunInv'
<1>1. /\ UNCHANGED <<phase, stop, flag, view, ackedTotal, status>>
      /\ acked' \in [Workers -> 0..MaxAcks] /\ \A v \in Workers : acked[v] <= acked'[v]
      /\ polled' \in 0..MaxAcks /\ polled <= polled'
  <2>1. acked \in [Workers -> 0..MaxAcks] /\ polled \in 0..MaxAcks /\ MaxAcks \in Nat
    BY RunControlAssumption DEF RunInv, Typed, TypeOK
  <2>2. CASE ReportPollOnce
    BY <2>1, <2>2 DEF ReportPollOnce
  <2>3. CASE \E w \in Workers : Confirm(w)
    BY <2>1, <2>3 DEF Confirm
  <2>4. CASE \E w \in Workers : Report(w)
    BY <2>1, <2>4 DEF Report
  <2> QED
    BY <2>2, <2>3, <2>4
<1>2. \/ channel' = channel
      \/ \E by \in Nat, value \in 0..MaxAcks :
           /\ channel' = Append(channel, PublishStatus(by, value))
           /\ \/ value <= polled'
              \/ /\ by = flag /\ flag # 0 /\ value <= acked'[flag]
                 /\ phase[flag] = "Running"
  <2>1. CASE ReportPollOnce
    BY <2>1, RunControlAssumption DEF ReportPollOnce
  <2>2. CASE \E w \in Workers : Confirm(w)
    BY <2>2 DEF Confirm
  <2>3. ASSUME NEW w \in Workers, Report(w)
        PROVE  /\ channel' = Append(channel, PublishStatus(w, acked[w]))
               /\ w \in Nat /\ acked[w] \in 0..MaxAcks
               /\ w = flag /\ flag # 0 /\ acked[w] <= acked'[flag] /\ phase[flag] = "Running"
    <3>1. w = flag
      BY <2>3, RunControlAssumption
         DEF Report, Spawned, RunInv, OneAtATime, Ended, Typed, TypeOK, Workers
    <3> QED
      BY <1>1, <2>3, <3>1, RunControlAssumption DEF Report, RunInv, Typed, TypeOK, Workers
  <2> QED
    BY <2>1, <2>2, <2>3, RunControlAssumption
<1> DEFINE Extended ==
      /\ channel' \in Seq(Event) /\ Heard' = Heard
      /\ \A i \in Heard : i \in DOMAIN channel /\ channel'[i] = channel[i]
      /\ \A i \in DOMAIN channel' :
            \/ i \in DOMAIN channel /\ channel'[i] = channel[i]
            \/ /\ channel'[i].kind = "PublishStatus"
               /\ \/ channel'[i].value <= polled'
                  \/ /\ flag # 0 /\ channel'[i].value <= acked'[flag]
                     /\ phase[flag] = "Running"
<1>3. Extended
  <2>1. CASE channel' = channel
    BY <2>1 DEF Heard, RunInv, Typed
  <2>2. ASSUME NEW by \in Nat, NEW value \in 0..MaxAcks,
               channel' = Append(channel, PublishStatus(by, value)),
               \/ value <= polled'
               \/ /\ flag # 0 /\ value <= acked'[flag]
                  /\ phase[flag] = "Running"
        PROVE  Extended
    <3>1. PublishStatus(by, value) \in Event
      BY DEF PublishStatus, Event
    <3>2. channel \in Seq(Event) /\ channel' \in Seq(Event)
      BY <2>2, <3>1 DEF RunInv, Typed
    <3>3. /\ DOMAIN channel' = DOMAIN channel \cup {Len(channel) + 1}
          /\ channel'[Len(channel) + 1] = PublishStatus(by, value)
          /\ \A i \in DOMAIN channel : channel'[i] = channel[i]
      BY <2>2, <3>2
    <3>4. Heard' = Heard
      BY <3>3 DEF Heard, PublishStatus
    <3> QED
      BY <2>2, <3>2, <3>3, <3>4 DEF Heard, PublishStatus
  <2> QED
    BY <1>2, <2>1, <2>2
<1>4. Typed'
  BY <1>1, <1>3 DEF RunInv, Typed, TypeOK
<1>5. OneAtATime' /\ HeardOfLast' /\ ShownOrHeard'
  BY <1>1, <1>3 DEF RunInv, OneAtATime, Ended, HeardOfLast, ShownOrHeard
<1>6. flag # 0 => flag \in Workers
  BY DEF RunInv, Typed, TypeOK, Workers
<1>7. TotalsOfThisRun'
  <2>1. ASSUME NEW i \in DOMAIN channel', channel'[i].kind = "PublishStatus",
               i \in DOMAIN channel, channel'[i] = channel[i]
        PROVE  \/ channel'[i].value <= polled'
               \/ /\ flag # 0 /\ channel'[i].value <= acked'[flag]
                  /\ phase[flag] = "Running" \/ \E j \in Heard : i < j
    <3>1. channel[i] \in Event /\ channel[i].kind = "PublishStatus"
      BY <2>1 DEF RunInv, Typed
    <3>2. channel[i].value \in Nat
      BY <3>1, RunControlAssumption DEF Event
    <3>3. polled \in Nat /\ polled' \in Nat /\ MaxAcks \in Nat
      BY <1>1, RunControlAssumption DEF RunInv, Typed, TypeOK
    <3>4. flag # 0 => acked[flag] \in Nat /\ acked'[flag] \in Nat /\ acked[flag] <= acked'[flag]
      BY <1>1, <1>6, RunControlAssumption DEF RunInv, Typed, TypeOK
    <3> QED
      BY <1>1, <2>1, <3>1, <3>2, <3>3, <3>4 DEF RunInv, TotalsOfThisRun
  <2> QED
    BY <1>1, <1>3, <2>1 DEF TotalsOfThisRun
<1>8. AckedOfThisRun'
  <2>1. ackedTotal \in Nat /\ polled \in Nat /\ polled' \in Nat
    BY <1>1, RunControlAssumption DEF RunInv, Typed, TypeOK
  <2>2. flag # 0 => acked[flag] \in Nat /\ acked'[flag] \in Nat /\ acked[flag] <= acked'[flag]
    BY <1>1, <1>6, RunControlAssumption DEF RunInv, Typed, TypeOK
  <2> QED
    BY <1>1, <2>1, <2>2 DEF RunInv, AckedOfThisRun
<1> QED
  BY <1>4, <1>5, <1>7, <1>8 DEF RunInv
\* A user who waits finds the Start button only when the last worker has ended
\* and nothing of it is left in the channel.
LEMMA StartStep ==
    ASSUME RunInv, PatientUser, StartRepublisher
    PROVE  RunInv'
<1>1. /\ flag \in Nat /\ flag' = flag + 1 /\ flag' \in Workers
      /\ ackedTotal' = 0
      /\ UNCHANGED <<phase, stop, acked, polled, channel, view>>
  BY RunControlAssumption DEF StartRepublisher, RunInv, Typed, TypeOK, Workers
<1>2. Heard = {}
  BY DEF StartRepublisher, StartPending, RunInv, HeardOfLast
<1>3. flag # 0 => flag \in Workers /\ Ended(flag)
  <2>1. ASSUME flag # 0
        PROVE  flag \in Workers /\ phase[flag] # "None"
    BY <2>1 DEF StartRepublisher, StartPending, RunInv, Typed, TypeOK, Workers
  <2>2. flag # 0 => view = phase[flag]
    BY <1>2, <2>1 DEF RunInv, ShownOrHeard
  <2> QED
    BY <2>1, <2>2 DEF StartRepublisher, StartShown, Ended
<1>4. Heard' = {}
  BY <1>1, <1>2 DEF Heard
<1>5. Typed'
  BY <1>1, RunControlAssumption DEF StartRepublisher, RunInv, Typed, TypeOK, Workers
<1>6. OneAtATime'
  <2>1. ASSUME NEW w \in Workers
        PROVE  (w < flag + 1 => Ended(w)) /\ (w > flag + 1 => phase[w] = "None")
    BY <1>1, <1>3, <2>1 DEF RunInv, OneAtATime, Workers
  <2> QED
    BY <1>1, <2>1 DEF OneAtATime, Ended
<1>7. HeardOfLast' /\ AckedOfThisRun'
  <2>1. polled \in Nat /\ polled' = polled
    BY <1>1, RunControlAssumption DEF RunInv, Typed, TypeOK
  <2> QED
    BY <1>1, <1>4, <2>1 DEF HeardOfLast, AckedOfThisRun
<1>8. ShownOrHeard'
  BY <1>1 DEF ShownOrHeard, RunInv, OneAtATime, Workers
<1>9. TotalsOfThisRun'
  BY <1>1, <1>2, <1>3 DEF RunInv, TotalsOfThisRun, Ended
<1> QED
  BY <1>5, <1>6, <1>7, <1>8, <1>9 DEF RunInv

\* A Tick shows the last event of the channel and the largest total in it.
LEMMA TickStep ==
    ASSUME RunInv, Tick
    PROVE  RunInv'
<1>1. /\ UNCHANGED <<phase, stop, acked, polled, flag, status>>
      /\ channel' = <<>> /\ Heard' = {}
  BY DEF Tick, Heard
<1>2. channel \in Seq(Event) /\ MaxAcks \in Nat /\ ackedTotal \in 0..MaxAcks
  BY RunControlAssumption DEF RunInv, Typed, TypeOK
<1>3. ASSUME Heard # {}
      PROVE  Max(Heard) \in Heard /\ \A i \in Heard : i <= Max(Heard)
  <2>1. Heard \in SUBSET Nat /\ Len(channel) \in Nat /\ \A i \in Heard : i <= Len(channel)
    BY <1>2 DEF Heard
  <2> QED
    BY <1>3, <2>1, Greatest
<1>4. ASSUME NEW i \in Heard
      PROVE  channel[i] \in [kind : {"Lifecycle"}, by : Workers, value : Phases \ {"None"}]
  BY <1>2 DEF Heard, Event
<1>5. view' \in Phases \ {"None"}
  <2>1. CASE Heard = {}
    BY <2>1 DEF Tick, RunInv, Typed, TypeOK, Phases
  <2>2. CASE Heard # {}
    BY <1>3, <1>4, <2>2 DEF Tick
  <2> QED
    BY <2>1, <2>2
<1> DEFINE S == {ackedTotal} \cup Totals
<1>6. S \subseteq 0..MaxAcks
  <2>1. ASSUME NEW i \in DOMAIN channel, channel[i].kind = "PublishStatus"
        PROVE  channel[i].value \in 0..MaxAcks
    BY <1>2, <2>1 DEF Event
  <2> QED
    BY <1>2, <2>1 DEF Totals
<1>7. ackedTotal' \in S /\ ackedTotal' \in 0..MaxAcks
  <2>1. S \in SUBSET Nat /\ S # {} /\ \A x \in S : x <= MaxAcks
    BY <1>2, <1>6
  <2>2. Max(S) \in S
    <3> HIDE DEF S
    <3> QED
      BY <1>2, <2>1, Greatest
  <2> QED
    BY <1>6, <2>2 DEF Tick
<1>8. Typed'
  BY <1>1, <1>5, <1>7 DEF RunInv, Typed, TypeOK, Phases
<1>9. OneAtATime' /\ HeardOfLast' /\ TotalsOfThisRun'
  BY <1>1 DEF RunInv, OneAtATime, Ended, HeardOfLast, TotalsOfThisRun
<1>10. ShownOrHeard'
  <2>1. ASSUME flag # 0, phase[flag] # "None"
        PROVE  view' = phase[flag]
    <3>1. CASE Heard = {}
      BY <2>1, <3>1 DEF RunInv, ShownOrHeard, Tick
    <3>2. CASE Heard # {}
      <4>1. PICK i \in Heard : (\A j \in Heard : j <= i) /\ channel[i].value = phase[flag]
        BY <2>1, <3>2 DEF RunInv, ShownOrHeard
      <4>2. Max(Heard) = i
        <5>1. Heard \subseteq Nat
          BY <1>2 DEF Heard
        <5>2. Max(Heard) \in Heard /\ i <= Max(Heard) /\ Max(Heard) <= i
          BY <1>3, <3>2, <4>1
        <5>3. i \in Nat /\ Max(Heard) \in Nat
          BY <4>1, <5>1, <5>2
        <5> QED
          BY <5>2, <5>3
      <4> QED
        BY <3>2, <4>1, <4>2 DEF Tick
    <3> QED
      BY <3>1, <3>2
  <2> QED
    BY <1>1, <2>1 DEF ShownOrHeard
<1>11. AckedOfThisRun'
  <2>1. ASSUME flag # 0, ackedTotal' \in Totals
        PROVE  ackedTotal' <= acked[flag] \/ ackedTotal' <= polled
    BY <2>1 DEF RunInv, TotalsOfThisRun, Totals
  <2>2. ASSUME flag # 0, ackedTotal' = ackedTotal
        PROVE  ackedTotal' <= acked[flag] \/ ackedTotal' <= polled
    BY <2>2 DEF RunInv, AckedOfThisRun
  <2> QED
    BY <1>1, <1>7, <2>1, <2>2 DEF AckedOfThisRun
<1> QED
  BY <1>8, <1>9, <1>10, <1>11 DEF RunInv

\* Stop writes the flag of the last worker and the status line, nothing else.
LEMMA StopStep ==
    ASSUME RunInv, StopRepublisher \/ UNCHANGED vars
    PROVE  RunInv'
<1>1. UNCHANGED <<phase, acked, polled, channel, flag, view, ackedTotal>>
  BY DEF StopRepublisher, vars
<1>2. stop' \in [Workers -> BOOLEAN] /\ status' \in {"loaded", "starting", "stopping"}
  BY DEF StopRepublisher, vars, RunInv, Typed, TypeOK
<1>3. Typed'
  BY <1>1, <1>2 DEF RunInv, Typed, TypeOK
<1> QED
  BY <1>1, <1>3 DEF RunInv, OneAtATime, Ended, HeardOfLast, ShownOrHeard, Heard,
                    TotalsOfThisRun, AckedOfThisRun

\* The invariant holds in every state of a patient user's session.
LEMMA RunInvAlways ==
    ASSUME PatientUser
    PROVE  Spec => []RunInv
<1>1. RunInv /\ [Next]_vars => RunInv'
  BY AnnounceStep, ReportStep, StartStep, StopStep, TickStep DEF Next
<1> QED
  BY InitStep, <1>1, PTL DEF Spec

-----------------------------------------------------------------------------
(* Theorems *)

\* The types of the run control, for any number of workers and deliveries.
THEOREM RunTypesAlways ==
    ASSUME PatientUser
    PROVE  Spec => []TypeOK
<1>1. RunInv => TypeOK
  BY DEF RunInv, Typed
<1> QED
  BY <1>1, RunInvAlways, PTL

\* A user who waits for a start to show never loses the stop flag of a worker
\* that has not ended: start_republisher only ever overwrites one of a worker
\* that sent its last event.
THEOREM NoOrphanAlways ==
    ASSUME PatientUser
    PROVE  Spec => []NoOrphanWorker
<1>1. RunInv => NoOrphanWorker
  BY RunControlAssumption
     DEF RunInv, Typed, TypeOK, OneAtATime, NoOrphanWorker, Live, Spawned, Workers
<1> QED
  BY <1>1, RunInvAlways, PTL

\* After a Tick the button matches the last worker.
THEOREM ViewAlways ==
    ASSUME PatientUser
    PROVE  Spec => []ViewExact
<1>1. RunInv => ViewExact
  BY DEF RunInv, ShownOrHeard, Heard, ViewExact
<1> QED
  BY <1>1, RunInvAlways, PTL

\* No confirmed delivery of an earlier run is counted again.
THEOREM AckedAlways ==
    ASSUME PatientUser
    PROVE  Spec => []AckedOfThisRun
<1>1. RunInv => AckedOfThisRun
  BY DEF RunInv
<1> QED
  BY <1>1, RunInvAlways, PTL
=============================================================================
